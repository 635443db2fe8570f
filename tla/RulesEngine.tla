----------------------------- MODULE RulesEngine -----------------------------
(***************************************************************************)
(* The rules engine (adk/src/common/rules_engine/rules_engine.c).          *)
(*                                                                         *)
(* A rule set is a table of rules, each for one event.  Setting an event   *)
(* runs the rules of all set events in the order of the table.  A rule     *)
(* that runs posts its decision to the client, which marks the rule        *)
(* complete when it has handled it; until then the later rules of the      *)
(* event wait.  An event is cleared once all its rules are complete.       *)
(*                                                                         *)
(* What a rule answers depends on the rest of the earbud, so it is any of  *)
(* the answers its function has; "settled" stands for rule_action_complete *)
(* and rule_action_ignore, which are handled alike.  Left out, because     *)
(* nothing in the repository uses them: rule flags, rules for more than    *)
(* one event, and clients told that no rule is in progress.                *)
(***************************************************************************)
EXTENDS Integers, Sequences

CONSTANTS
    Events,         \* the events that have rules
    NumRules,       \* the length of the table
    EventOf,        \* rule -> its event
    MessageOf,      \* rule -> the id of its decision
    Answers,        \* rule -> the answers of its function
    MaxSets,        \* bound: events set in a behaviour
    MaxDrops        \* bound: decisions thrown away in a behaviour

Rules == 1..NumRules
Messages == {MessageOf[r] : r \in Rules}

ASSUME RuleTable ==
    /\ NumRules \in Nat /\ MaxSets \in Nat /\ MaxDrops \in Nat
    /\ EventOf \in [Rules -> Events] /\ \A e \in Events : \E r \in Rules : EventOf[r] = e
    /\ Answers \in [Rules -> SUBSET {"run", "settled", "defer"}]
    /\ \A r \in Rules : Answers[r] # {}

VARIABLES
    set,      \* the rule set: [events, status]
    msgs,     \* decisions posted and not delivered, in order
    answered, \* rule -> how often it has been answered for good since its event was set
    lost,     \* ids of decisions thrown away since such a decision was handled
    sets, drops \* bounds: events set, decisions thrown away

vars == <<set, msgs, answered, lost, sets, drops>>

RulesFor(E) == {r \in Rules : EventOf[r] \in E}

(***************************************************************************)
(* The status of rules.                                                    *)
(***************************************************************************)
\* RulesEngine_ResetEvent
Reset(rs, E) ==
    [events |-> rs.events \ E,
     status |-> [r \in Rules |-> IF EventOf[r] \in E THEN "not_done" ELSE rs.status[r]]]

\* Fault: the event is cleared with the first of its rules that is complete.
CompleteFirst(rs, message, from, E) ==
    LET updated == {r \in RulesFor(E) : MessageOf[r] = message /\ rs.status[r] = from}
    IN  Reset(rs, {EventOf[r] : r \in updated})

\* RulesEngine_UpdateRuleStatus, as it is always called: rules of events E and
\* this message become complete, and events without an incomplete rule are cleared.
Complete(rs, message, from, E) ==
    LET updated == {r \in RulesFor(E) : MessageOf[r] = message /\ rs.status[r] = from}
        status == [r \in Rules |-> IF r \in updated THEN "complete" ELSE rs.status[r]]
        done == {e \in {EventOf[r] : r \in updated} : \A r \in RulesFor({e}) : status[r] = "complete"}
    IN  Reset([rs EXCEPT !.status = status], done)

(***************************************************************************)
(* One pass over the table.  A pass in progress is the rule set, its copy  *)
(* of the events, the decisions posted and the answers counted.            *)
(***************************************************************************)
CountAnswer(pass, r) == [pass EXCEPT !.answered[r] = IF @ = 0 THEN 1 ELSE 2]

Run(pass, r) ==
    [CountAnswer(pass, r) EXCEPT
        !.set.status[r] = "in_progress",
        !.msgs = Append(@, MessageOf[r]),
        !.local = @ \ {EventOf[r]}]

Settle(pass, r) ==
    [CountAnswer(pass, r) EXCEPT
        !.set = Complete(@, MessageOf[r], @.status[r], {EventOf[r]})]

Defer(pass, r) == [pass EXCEPT !.set.status[r] = "deferred"]

\* RulesEngine_RunRule, and what is done with the answer.
Evaluate(pass, r) ==
    {CASE answer = "run"     -> Run(pass, r)
       [] answer = "settled" -> Settle(pass, r)
       [] answer = "defer"   -> Defer(pass, r) : answer \in Answers[r]}

\* Faults: a rule in progress does not hold up its event; a complete rule is run
\* again.
VisitPastProgress(pass, r) ==
    IF EventOf[r] \notin pass.local \/ pass.set.status[r] \in {"complete", "in_progress"} THEN {pass}
    ELSE Evaluate(pass, r)
VisitComplete(pass, r) ==
    CASE EventOf[r] \notin pass.local -> {pass}
      [] EventOf[r] \in pass.local /\ pass.set.status[r] = "in_progress" ->
            {[pass EXCEPT !.local = @ \ {EventOf[r]}]}
      [] OTHER -> Evaluate(pass, r)

\* The passes that one rule of the table can lead to.
Visit(pass, r) ==
    CASE EventOf[r] \notin pass.local \/ pass.set.status[r] = "complete" -> {pass}
      [] EventOf[r] \in pass.local /\ pass.set.status[r] = "in_progress" ->
            {[pass EXCEPT !.local = @ \ {EventOf[r]}]}
      [] OTHER -> Evaluate(pass, r)

Pass(rs, posted, counts) ==
    [set |-> rs, local |-> rs.events, msgs |-> posted, answered |-> counts]

\* RulesEngine_RunRules
RunRules(pass) ==
    LET after[r \in 0..NumRules] ==
            IF r = 0 THEN {pass} ELSE UNION {Visit(p, r) : p \in after[r - 1]}
    IN  after[NumRules]

Check(rs, posted, counts) ==
    \E pass \in RunRules(Pass(rs, posted, counts)) :
        set' = pass.set /\ msgs' = pass.msgs /\ answered' = pass.answered

(***************************************************************************)
(* The engine and its client.                                              *)
(***************************************************************************)
\* Fault: the status of rules is not initialised.
Init ==
    /\ set = [events |-> {}, status |-> [r \in Rules |-> "not_done"]]
    /\ msgs = <<>>
    /\ answered = [r \in Rules |-> 1]
    /\ lost = {} /\ sets = 0 /\ drops = 0

\* An event that is set already is not set again: its rules are owed one answer.
SetEvent(e) ==
    /\ sets < MaxSets
    /\ sets' = sets + 1
    /\ Check([set EXCEPT !.events = @ \cup {e}], msgs,
             [r \in Rules |-> IF EventOf[r] = e /\ e \notin set.events THEN 0 ELSE answered[r]])
    /\ UNCHANGED <<lost, drops>>

\* Fault: the decisions of the events' rules are cancelled by their ids.
ResetAndCancel(E) ==
    /\ set' = Reset(set, E)
    /\ answered' = [r \in Rules |-> IF EventOf[r] \in E THEN 1 ELSE answered[r]]
    /\ lost' = IF E = Events THEN {} ELSE lost
    /\ msgs' = SelectSeq(msgs, LAMBDA m : m \notin {MessageOf[r] : r \in RulesFor(E)})
    /\ UNCHANGED <<sets, drops>>

\* The client takes events back, one or, with its role, all of them.
ResetEvent(E) ==
    /\ set' = Reset(set, E)
    /\ answered' = [r \in Rules |-> IF EventOf[r] \in E THEN 1 ELSE answered[r]]
    /\ lost' = IF E = Events THEN {} ELSE lost
    /\ UNCHANGED <<msgs, sets, drops>>

\* Fault: the rules that waited for the completed one are not run.
SetRuleCompleteOnly ==
    /\ msgs # <<>>
    /\ lost' = lost \ {Head(msgs)}
    /\ set' = Complete(set, Head(msgs), "in_progress", Events)
    /\ msgs' = Tail(msgs)
    /\ UNCHANGED <<answered, sets, drops>>

\* The client handles a decision, then marks its rules complete.
SetRuleComplete ==
    /\ msgs # <<>>
    /\ lost' = lost \ {Head(msgs)}
    /\ Check(Complete(set, Head(msgs), "in_progress", Events), Tail(msgs), answered)
    /\ UNCHANGED <<sets, drops>>

\* TwsTopology_HandleGoalDecision in a topology that is not started.
DropDecision ==
    /\ msgs # <<>> /\ drops < MaxDrops
    /\ drops' = drops + 1
    /\ lost' = lost \cup {Head(msgs)}
    /\ msgs' = Tail(msgs)
    /\ UNCHANGED <<set, answered, sets>>

Next ==
    \/ \E e \in Events : SetEvent(e) \/ ResetEvent({e})
    \/ ResetEvent(Events)
    \/ SetRuleComplete \/ DropDecision

Spec == Init /\ [][Next]_vars

\* Decisions are delivered.
FairSpec == Spec /\ WF_vars(SetRuleComplete)

(***************************************************************************)
(* Correctness.                                                            *)
(***************************************************************************)
\* Every variable stays in its type.
TypeOK ==
    /\ set \in [events : SUBSET Events,
                status : [Rules -> {"not_done", "in_progress", "complete", "deferred"}]]
    /\ msgs \in Seq(Messages) /\ answered \in [Rules -> 0..2]
    /\ lost \subseteq Messages /\ sets \in 0..MaxSets /\ drops \in 0..MaxDrops

\* A rule that is in progress, and holds up the rest of its event, has a decision
\* on its way that will complete it, unless the client threw one away.
InProgressOnItsWay ==
    \A r \in Rules : set.status[r] = "in_progress" =>
        MessageOf[r] \in lost \/ \E i \in DOMAIN msgs : msgs[i] = MessageOf[r]

\* "Stop checking rules for this event if rule is in progress": the rules of an
\* event are carried out one at a time.
OneRuleAtATime ==
    \A e \in Events : \A q, r \in RulesFor({e}) :
        set.status[q] = "in_progress" /\ set.status[r] = "in_progress" => q = r

\* rules_engine.h: RulesEngine_SetEvent causes the relevant rules to run.  The
\* engine does not clear an event of which a rule has not been answered.
OwedRulesKeepTheirEvent ==
    \A r \in Rules : answered[r] = 0 => EventOf[r] \in set.events

\* No rule is answered, and so decided on, twice for one setting of its event.
AnsweredOnce == \A r \in Rules : answered[r] =< 1

\* A set event has a rule left to complete: otherwise the engine would have
\* cleared it, and setting it again would have no effect.
SetEventsHaveRulesLeft ==
    \A e \in set.events : \E r \in RulesFor({e}) : set.status[r] # "complete"

\* An event is set for as long as one of its rules has something left to do:
\* it is cleared (RulesEngine_UpdateRuleStatus) neither too early nor too late.
EventsMatchRulesLeft == OwedRulesKeepTheirEvent /\ SetEventsHaveRulesLeft

\* An event is cleared, if no rule of it defers and none of its decisions is lost.
Excused(e) ==
    \E r \in RulesFor({e}) : set.status[r] = "deferred" \/ MessageOf[r] \in lost
EventSettles ==
    \A e \in Events : (e \in set.events) ~> (e \notin set.events \/ Excused(e))
=============================================================================
