--------------------------- MODULE TwsTopologyStop ---------------------------
(***************************************************************************)
(* Starting and stopping the TWS topology (tws/common/core/tws_topology.c, *)
(* tws_topology_goals.c), composed with its goals engine.                  *)
(*                                                                         *)
(* A stop request arms a timeout and sets the shutdown event; the rule of  *)
(* that event decides on the system_stop goal, whose script tells the      *)
(* topology when it starts and when it has finished.  A decision that is   *)
(* delivered while the topology is not started is thrown away.  Pairing    *)
(* with the peer cannot be cancelled: its result comes late if its goal    *)
(* was, and starts the topology as any result of it does.  The application *)
(* starts and stops the topology in turn and counts on one                 *)
(* TWS_TOPOLOGY_STOP_CFM for each stop.                                    *)
(***************************************************************************)
EXTENDS GoalsEngine

CONSTANTS
    system_stop,   \* the goal of the stop script
    pair_peer,     \* the goal of the pair peer script
    SystemStop,    \* the rule that decides on it
    RoleGoals,     \* the goals whose script takes a role
    MaxRequests,   \* bound: starts and stops requested in a behaviour
    MaxShutdowns   \* bound: shutdowns prepared for in a behaviour

ASSUME StopGoal ==
    /\ system_stop \in Scripted /\ Contention[system_stop] = "cancel"
    /\ SystemStop \in Rules
    /\ \A r \in Rules : GoalOf[r] = system_stop <=> r = SystemStop
    /\ pair_peer \in Scripted \ {system_stop}
    /\ RoleGoals \subseteq Goals \ {system_stop}
    /\ HandoverRules = {}   \* no handovers here
    /\ MaxRequests \in Nat /\ MaxShutdowns \in Nat

VARIABLES
    stopping,   \* stopping_state: "stopped", "stopping" or "started"
    mail,       \* start, stop, stop-finished and pairing result messages, stamped as msgs are
    held,       \* the shutdown prepare lock the start and stop messages wait for
    commands,   \* static handover commands whose transmission is not confirmed yet
    shutdowns,  \* (bounded) shutdowns prepared for so far
    pairing,    \* PEER_PAIR_LE_PAIR_CFM is still to come
    strays,     \* it has come after its script, as the answer of a step of another one,
                \* whose own answer comes as that of a later step then, and so on
    timers,     \* stop timeouts that have not fired
    rule,       \* the status of the system stop rule
    role,       \* the earbud has a role
    asked,      \* what the application asked for last: "none", "up" or "down"
    owed,       \* 1 while the application waits for a confirmation, else 0
    unasked,    \* a confirmation has come before the stop it was taken for was handled
    result,     \* the status of the last confirmation
    late,       \* a stop has timed out
    restarted,  \* the topology has been started while it was stopping
    requests    \* starts and stops requested so far

preparing == <<held, commands, shutdowns>>
pairs == <<pairing, strays>>
application == <<asked, owed, unasked, result, late, restarted, requests>>
topology == <<stopping, mail, preparing, pairs, timers, rule, role, application>>
allVars == <<vars, topology>>

Mail == [what : {"start", "stop", "finished", "paired"}, at : Nat]

Waits(x) == held /\ x.what \in {"start", "stop"}

Oldest(at) ==
    /\ \A n \in msgs : ~Blocked(n) => at =< n.at
    /\ \A x \in mail : ~Waits(x) => at =< x.at

(***************************************************************************)
(* The topology's message handler.                                         *)
(***************************************************************************)
\* Fault: the timeout is left armed.
SendStopCfmArmed(status) ==
    /\ timers' = IF status = "fail" THEN timers - 1 ELSE timers
    /\ owed' = 0 /\ result' = status
    /\ unasked' = (unasked \/ owed = 0 \/ \E x \in mail' : x.what = "stop")

\* TwsTopology_SendStopCfm: the timeout is cancelled with the confirmation.
SendStopCfm(status) ==
    /\ timers' = 0
    /\ owed' = 0 /\ result' = status
    /\ unasked' = (unasked \/ owed = 0 \/ \E x \in mail' : x.what = "stop")

HandleInternalStart ==
    /\ stopping' = "started"
    /\ restarted' = (restarted \/ stopping = "stopping")
    /\ UNCHANGED <<timers, rule, owed, unasked, result, msgs, clock>>

\* twsTopology_HandleProcPeerPairResult starts the topology whatever the result;
\* the message is ignored while it is not running.
HandleProcPeerPairResult ==
    IF stopping # "stopped" THEN HandleInternalStart
    ELSE UNCHANGED <<stopping, restarted, timers, rule, owed, unasked, result, msgs, clock>>

\* The shutdown event's rule posts a decision unless an earlier one of its
\* decisions has not been marked complete.
SetShutdownEvent ==
    /\ rule' = "in_progress"
    /\ IF rule = "in_progress" THEN UNCHANGED <<msgs, clock>>
       ELSE /\ msgs' = msgs \cup {Msg("decision", SystemStop, system_stop, 1, clock)}
            /\ clock' = clock + 1

\* Fault: no timeout is armed.
HandleInternalStopUntimed ==
    IF stopping = "started" THEN SetShutdownEvent /\ UNCHANGED <<stopping, timers, owed, unasked, result>>
    ELSE UNCHANGED <<stopping, timers, rule, owed, unasked, result, msgs, clock>>

HandleInternalStop ==
    CASE stopping = "stopped" ->
            SendStopCfm("success") /\ UNCHANGED <<stopping, rule, msgs, clock>>
      [] stopping = "started" ->
            timers' = timers + 1 /\ SetShutdownEvent /\ UNCHANGED <<stopping, owed, unasked, result>>
      [] stopping = "stopping" ->
            UNCHANGED <<stopping, timers, rule, owed, unasked, result, msgs, clock>>

HandleStopCompletion ==
    /\ IF stopping = "stopping" THEN stopping' = "stopped" /\ SendStopCfm("success")
       ELSE UNCHANGED <<stopping, timers, owed, unasked, result>>
    /\ UNCHANGED <<rule, msgs, clock>>

DeliverMail ==
    /\ ~panicked
    /\ \E x \in mail :
        /\ ~Waits(x) /\ Oldest(x.at)
        /\ mail' = mail \ {x}
        /\ \/ x.what = "start"    /\ HandleInternalStart
           \/ x.what = "paired"   /\ HandleProcPeerPairResult
           \/ x.what = "stop"     /\ HandleInternalStop /\ UNCHANGED restarted
           \/ x.what = "finished" /\ HandleStopCompletion /\ UNCHANGED restarted
    /\ UNCHANGED <<active, pending, count, proc, decisions, recommended, lost, panicked>>
    /\ UNCHANGED <<preparing, pairs, role, asked, late, requests>>

\* Five seconds have passed since the stop was handled.
HandleStopTimeout ==
    /\ ~panicked
    /\ timers > 0 /\ stopping # "stopped"   \* ignored while not running
    /\ UNCHANGED <<vars, mail, preparing, pairs, rule, role, asked, restarted, requests>>
    /\ SendStopCfm("fail")
    /\ stopping' = "stopped"
    /\ late' = TRUE

(***************************************************************************)
(* TwsTopology_HandleGoalDecision and the callbacks of procedures.         *)
(***************************************************************************)
\* Fault: decisions are still carried out while stopping.
AcceptsUntilStopped == stopping # "stopped"

AcceptsDecisions == stopping = "started"

\* Thrown away: neither the engine nor the rules engine hears of it.
DropDecision(m) ==
    /\ IsDecision(m) /\ ~AcceptsDecisions
    /\ Ignore(m)
    /\ UNCHANGED <<stopping, rule, role, pairing, mail>>

\* The cancel function of the stop script's last step panics.
CancelsLastStep(m) ==
    /\ IsDecision(m) /\ Contention[m.goal] = "cancel" /\ ~Duplicate(m)
    /\ proc[system_stop] = "running"
    /\ \E n \in msgs : n.kind = "response" /\ n.goal = system_stop

PanicOnCancel(m) ==
    /\ AcceptsDecisions /\ CancelsLastStep(m)
    /\ panicked' = TRUE
    /\ UNCHANGED <<active, pending, count, msgs, clock, proc, decisions, recommended, lost>>
    /\ UNCHANGED <<stopping, rule, role, pairing, mail>>

\* The first step of the stop script calls twsTopology_StopHasStarted.
HandleGoalDecision(m) ==
    /\ AcceptsDecisions /\ ~CancelsLastStep(m)
    /\ ActivateGoal(m)
    /\ stopping' = IF system_stop \in active' \ active THEN "stopping" ELSE stopping
    /\ rule' = IF m.rule = SystemStop THEN "not_done" ELSE rule
    /\ UNCHANGED <<role, pairing, mail>>

RoleTaken(m) == role' = (role \/ (m.goal \in RoleGoals /\ proc[m.goal] = "running"))

Paired == mail' = mail \cup {[what |-> "paired", at |-> clock]} /\ clock' = clock + 1

\* twsTopology_ProcPairPeerHandlePeerPairLePairCfm: the topology is told the
\* result, and the script completes.
FinishPairing(m) ==
    /\ m.goal = pair_peer /\ proc[pair_peer] = "running"
    /\ TakeAnswer(m) /\ Paired
    /\ pairing' = FALSE
    /\ UNCHANGED <<stopping, rule, role>>

HandleProcedure(m) ==
    /\ m.goal = pair_peer => proc[pair_peer] # "running"
    /\ ConfirmCancel(m) \/ FinishProcedure(m)
    /\ RoleTaken(m)
    /\ UNCHANGED <<stopping, rule, pairing, mail>>

DeliverMsg ==
    /\ ~panicked
    /\ \E m \in msgs :
        /\ ~Blocked(m) /\ Oldest(m.at)
        /\ \/ DropDecision(m) \/ PanicOnCancel(m) \/ HandleGoalDecision(m)
           \/ FinishPairing(m) \/ HandleProcedure(m)
    /\ UNCHANGED <<preparing, strays, timers, application>>

\* The last two steps of the stop script: the role is given up, which resets
\* the rules if there was one, and the topology is told; the script completes.
FinishStopScript ==
    /\ ~panicked
    /\ proc[system_stop] = "running"
    /\ ~\E m \in msgs : m.kind = "response" /\ m.goal = system_stop
    /\ role' = FALSE
    /\ rule' = IF role THEN "not_done" ELSE rule
    /\ mail' = mail \cup {[what |-> "finished", at |-> clock]}
    /\ msgs' = msgs \cup {Msg("response", NoRule, system_stop, 1, clock + 1)}
    /\ clock' = clock + 2
    /\ UNCHANGED <<active, pending, count, proc, decisions, recommended, lost, panicked>>
    /\ UNCHANGED <<stopping, preparing, pairs, timers, application>>

(***************************************************************************)
(* Pairing with the peer (tws_topology_procedure_pair_peer.c).             *)
(***************************************************************************)
\* The last step of the pair peer script.  Only when no pairing goes on: a second
\* search joins one that waits for an address (peer_pair_le_init.c:129-131) and
\* panics in its later states (136-141), which is not followed here.
FindPeer ==
    /\ ~panicked
    /\ proc[pair_peer] = "running" /\ ~pairing
    /\ pairing' = TRUE
    /\ UNCHANGED <<vars, stopping, mail, preparing, strays, timers, rule, role, application>>

\* Its script has been cancelled, but not the pairing: the topology is told all
\* the same, and the script that runs by then, if any, that its step is complete.
PairLate ==
    /\ ~panicked
    /\ pairing /\ proc[pair_peer] # "running"
    /\ Paired
    /\ pairing' = FALSE
    /\ strays' = (strays \/ \E g \in Scripted : proc[g] = "running")
    /\ UNCHANGED <<active, pending, count, msgs, proc, decisions, recommended, lost, panicked>>
    /\ UNCHANGED <<stopping, preparing, timers, rule, role, application>>

\* A script that has begun its last step completes before that step has.
CompleteEarly ==
    /\ ~panicked /\ strays
    /\ \E m \in msgs :
        /\ m.goal \in Scripted /\ proc[m.goal] = "running"
        /\ TakeAnswer(m) /\ UNCHANGED clock
        /\ RoleTaken(m)
    /\ UNCHANGED <<stopping, mail, preparing, pairs, timers, rule, application>>

(***************************************************************************)
(* Services and rules.                                                     *)
(***************************************************************************)
RespondProcedure(g) ==
    /\ g = system_stop => proc[g] = "cancelling"
    /\ g = pair_peer => proc[g] = "cancelling" \/ pairing
    /\ Respond(g)
    /\ UNCHANGED topology

DecideGoal(r) == r # SystemStop /\ Decide(r) /\ UNCHANGED topology

(***************************************************************************)
(* The application asks in turn, and again only once the stop is confirmed.*)
(***************************************************************************)
Request(what) ==
    /\ ~panicked
    /\ owed = 0 /\ requests < MaxRequests
    /\ requests' = requests + 1
    /\ mail' = mail \cup {[what |-> what, at |-> clock]}
    /\ clock' = clock + 1
    /\ UNCHANGED <<active, pending, count, msgs, proc, decisions, recommended, lost, panicked>>
    /\ UNCHANGED <<stopping, preparing, pairs, timers, rule, role, unasked, result, late, restarted>>

Start == asked # "up" /\ asked' = "up" /\ Request("start") /\ UNCHANGED owed
Stop  == asked # "down" /\ asked' = "down" /\ Request("stop") /\ owed' = 1

\* A running earbud with a role that prepares to shut down sends the peer a static
\* handover command: start and stop messages wait until it has been sent.
TakeShutdownPrepareLock ==
    /\ ~panicked
    /\ shutdowns < MaxShutdowns /\ shutdowns' = shutdowns + 1
    /\ stopping # "stopped" /\ role
    /\ held' = TRUE /\ commands' = commands + 1
    /\ UNCHANGED <<vars, stopping, mail, pairs, timers, rule, role, application>>

\* The confirmation is ignored while the topology is not running.
HandlesTxCfm == stopping # "stopped"

HandleMarshalledMsgChannelTxCfm ==
    /\ ~panicked
    /\ commands > 0 /\ commands' = commands - 1
    /\ held' = (held /\ ~HandlesTxCfm)
    /\ UNCHANGED <<vars, stopping, mail, shutdowns, pairs, timers, rule, role, application>>

TopologyInit ==
    /\ Init
    /\ stopping = "stopped" /\ mail = {} /\ timers = 0
    /\ held = FALSE /\ commands = 0 /\ shutdowns = 0
    /\ pairing = FALSE /\ strays = FALSE
    /\ rule = "not_done" /\ role = FALSE
    /\ asked = "none" /\ owed = 0 /\ unasked = FALSE /\ result = "none"
    /\ late = FALSE /\ restarted = FALSE /\ requests = 0

TopologyNext ==
    \/ DeliverMail \/ DeliverMsg \/ HandleStopTimeout
    \/ FinishStopScript
    \/ FindPeer \/ PairLate \/ CompleteEarly
    \/ \E g \in Goals : RespondProcedure(g)
    \/ \E r \in Rules : DecideGoal(r)
    \/ Start \/ Stop
    \/ TakeShutdownPrepareLock \/ HandleMarshalledMsgChannelTxCfm

TopologySpec == TopologyInit /\ [][TopologyNext]_allVars

\* The scheduler keeps delivering, the timeout fires, a transmission is confirmed,
\* and services answer the procedures (those of the stop script among them).
TopologyFairSpec ==
    /\ TopologySpec
    /\ WF_allVars(DeliverMail) /\ WF_allVars(DeliverMsg)
    /\ WF_allVars(HandleStopTimeout) /\ WF_allVars(HandleMarshalledMsgChannelTxCfm)
    /\ WF_allVars(FinishStopScript) /\ WF_allVars(FindPeer)
    /\ \A g \in Goals : WF_allVars(RespondProcedure(g))

(***************************************************************************)
(* Correctness.                                                            *)
(***************************************************************************)
\* Every variable of the topology stays in its type.
TopologyTypeOK ==
    /\ stopping \in {"stopped", "stopping", "started"}
    /\ mail \in SUBSET Mail /\ timers \in Nat
    /\ held \in BOOLEAN /\ commands \in Nat /\ shutdowns \in Nat
    /\ pairing \in BOOLEAN /\ strays \in BOOLEAN
    /\ rule \in {"not_done", "in_progress"} /\ role \in BOOLEAN
    /\ asked \in {"none", "up", "down"}
    /\ owed \in {0, 1} /\ unasked \in BOOLEAN /\ requests \in Nat
    /\ result \in {"none", "success", "fail"} /\ late \in BOOLEAN /\ restarted \in BOOLEAN

\* An armed timeout belongs to the stop that waits for it: none is left to stop
\* a topology that has been started again (SendStopCfm's MessageCancelAll), as long
\* as the application has not been told of a stop it did not ask for.
TimeoutBelongsToStop == timers > 0 /\ ~unasked => owed = 1 /\ timers = 1 /\ asked = "down"

\* tws_topology.h: a stop that is not confirmed as successful was not clean.  When
\* one that ran a script succeeds, nothing but the stop goal is active, whichever
\* run of the script its end belonged to.
StopIsClean ==
    [][owed' < owed /\ result' = "success" /\ stopping # "stopped" =>
          active \subseteq {system_stop}]_allVars

\* tws_topology_client_msgs.h: the confirmation is sent to the caller of
\* TwsTopology_Stop.  Only a stop that has timed out can be confirmed a second
\* time, by its goal that runs after the next start.  Its script can be cancelled at
\* its last step, whose cancel function panics ("Should never be called" in
\* tws_topology_procedure_send_topology_message.c), only after that, or when a
\* pairing result has started the topology again below it.  Nothing else panics but
\* a goals engine that is out of slots.
AskedUnlessLate ==
    /\ unasked => late
    /\ panicked => late \/ restarted \/ \A s \in Slots : ~IsFree(pending, s)

\* tws_topology_peer_sig.c: once the shutdown is prepared stop requests are processed
\* again.  A lock that is set has a confirmation to come that releases it: not so once
\* one has come while the topology was not running.
LockIsReleased == held => commands > 0

\* Every stop is confirmed, even if its decision was thrown away, taken for a
\* duplicate of a stop script that still runs, never made, or its topology started
\* again below it.  Two are not: one that waits for a lock that has been left set, and
\* one that was taken for repeated while the script of a stop that had timed out ran
\* (it has no timeout of its own), when a pairing result starts the topology then.
StopAnswered ==
    (owed = 1) ~> (owed # 1 \/ panicked \/ ~LockIsReleased \/ (late /\ restarted))
=============================================================================
