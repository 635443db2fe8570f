--------------------------- MODULE GoalScheduling ---------------------------
(***************************************************************************)
(* What the goals engine promises its topology, whatever its queue, its    *)
(* locks and its messages look like: procedures only execute together when *)
(* their goals are concurrent, and a decision is kept until its goal is    *)
(* executed unless a cancel goal or an excluding goal supersedes it, or it *)
(* is for a handover that is no longer recommended.                        *)
(***************************************************************************)
EXTENDS Integers

CONSTANTS Goals, Rules, GoalOf, Contention, Exclusive, Concurrent, HandoverRules

VARIABLES
    asked,      \* rule -> how many of its decisions are still to be executed
    executing,  \* the goals whose procedure executes
    recommended \* a handover is recommended

vars == <<asked, executing, recommended>>

Init == asked = [r \in Rules |-> 0] /\ executing = {} /\ recommended = FALSE

Fits(g) == executing \subseteq Concurrent[g]

\* A rule decides on its goal.
Ask(r) ==
    /\ asked' = [asked EXCEPT ![r] = @ + 1]
    /\ UNCHANGED <<executing, recommended>>

\* A recommendation comes or goes, and takes a decision on it along.
Recommend ==
    /\ recommended' \in BOOLEAN
    /\ \/ UNCHANGED asked
       \/ /\ ~recommended'
          /\ \E r \in HandoverRules : asked[r] > 0 /\ asked' = [asked EXCEPT ![r] = @ - 1]
    /\ UNCHANGED executing

\* Nothing is carried out, or dropped for, a handover that is not recommended.
Stands(r) == r \in HandoverRules => recommended

Forget(r) ==
    /\ ~Stands(r)
    /\ asked[r] > 0
    /\ asked' = [asked EXCEPT ![r] = @ - 1]
    /\ UNCHANGED <<executing, recommended>>

\* A decision is carried out, beside goals it is concurrent with.
Begin(r) ==
    /\ Stands(r)
    /\ asked[r] > 0
    /\ Fits(GoalOf[r])
    /\ asked' = [asked EXCEPT ![r] = @ - 1]
    /\ executing' = executing \cup {GoalOf[r]}
    /\ UNCHANGED recommended

OthersDropped(r) ==
    /\ asked' \in [Rules -> Nat]
    /\ \A s \in Rules : asked'[s] =< asked[s]

\* A cancel goal drops decisions and stops goals; its own decision stays,
\* unless the goal is executing already.
Supersede(r) ==
    /\ Stands(r)
    /\ Contention[GoalOf[r]] = "cancel"
    /\ asked[r] > 0
    /\ OthersDropped(r)
    /\ asked'[r] > 0 \/ GoalOf[r] \in executing
    /\ executing' \subseteq executing
    /\ UNCHANGED recommended

\* A cancel goal that finds nothing executing drops decisions and begins.
TakeOver(r) ==
    /\ Stands(r)
    /\ Contention[GoalOf[r]] = "cancel"
    /\ asked[r] > 0
    /\ executing = {}
    /\ OthersDropped(r)
    /\ asked'[r] < asked[r]
    /\ executing' = {GoalOf[r]}
    /\ UNCHANGED recommended

\* A goal drops the decisions for, and stops, the goal it excludes.
Displace(r) ==
    /\ Stands(r)
    /\ asked[r] > 0
    /\ OthersDropped(r)
    /\ \A s \in Rules : GoalOf[s] # Exclusive[GoalOf[r]] => asked'[s] = asked[s]
    /\ executing' \in {executing, executing \ {Exclusive[GoalOf[r]]}}
    /\ UNCHANGED recommended

End(g) ==
    /\ executing' = executing \ {g}
    /\ UNCHANGED <<asked, recommended>>

Next ==
    \/ \E r \in Rules :
          Ask(r) \/ Forget(r) \/ Begin(r) \/ Supersede(r) \/ TakeOver(r) \/ Displace(r)
    \/ Recommend
    \/ \E g \in executing : End(g)

Spec == Init /\ [][Next]_vars
=============================================================================
