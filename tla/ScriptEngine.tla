---------------------------- MODULE ScriptEngine ----------------------------
(***************************************************************************)
(* The script engine (topologies/common/script_engine/script_engine.c),    *)
(* the delayed confirmations of procedures.c and the procedures of         *)
(* topologies/tws/common/procedures that its scripts are made of.          *)
(*                                                                         *)
(* A script is a sequence of procedures run one after the other.  The      *)
(* procedures differ in how they answer and how they cancel:               *)
(*   instant     posts its completion from its start function and its      *)
(*               cancellation from its cancel function                     *)
(*   service     asks a service, whose answer completes it directly;       *)
(*               cancelled at once, after which it ignores the answer      *)
(*   deferred    as service, but the answer posts the completion           *)
(*   late        as service, but a cancel is only confirmed by the answer  *)
(*   continuous  posts its completion from its start function; a cancel    *)
(*               asks a service and is confirmed by its answer             *)
(*   stop_le     posts its completion from its start function; a cancel    *)
(*               only notes the callback                                   *)
(*   connectable_off  the service's answer posts the completion; a cancel  *)
(*               only notes the callback for that answer                   *)
(*   pair_peer   as service, but a cancel leaves the pairing alone: its    *)
(*               answer completes a step that is over                      *)
(*   handover    prepares by procedures of its own, attempts a handover    *)
(*               and posts its completion; a cancel restores what was      *)
(*               prepared and posts the confirmation, or, if a handover    *)
(*               has failed before, the completion once more               *)
(***************************************************************************)
EXTENDS Naturals, Sequences

CONSTANTS
    Procs,      \* procedures
    Kind,       \* procedure -> how it answers and cancels, see above
    Scripts,    \* the scripts: sequences of procedures
    MaxStarts   \* bound: scripts started in a behaviour

Kinds == {"instant", "service", "deferred", "late", "continuous", "stop_le", "connectable_off",
          "pair_peer", "handover"}

ASSUME ScriptTypes ==
    /\ Kind \in [Procs -> Kinds]
    /\ Scripts \subseteq Seq(Procs) /\ <<>> \notin Scripts
    /\ MaxStarts \in Nat

VARIABLES
    state,      \* script_engine_idle, _active or _cancelling
    script,     \* the script in progress
    step,       \* next_step
    armed,      \* procedure -> the callback a service answer would trigger
    open,       \* procedure -> requests its service has not answered yet
    gave_up,    \* procedure -> its handover_result is handover_failed, perhaps of an earlier run
    msgs,       \* undelivered messages, stamped with the time they were sent
    clock,      \* the stamp of the next message
    client,     \* what the client has asked for: "idle", "started", "cancelling"
    last,       \* the last callback the client received
    starts,     \* scripts started so far
    panicked

vars == <<state, script, step, armed, open, gave_up, msgs, clock, client, last, starts, panicked>>

Results == {"success", "failed"}   \* timeout ends a script as failed does

Message == [kind : {"complete", "cancelled", "answer"}, proc : Procs, result : Results, at : Nat]

Msg(kind, p, result) == [kind |-> kind, proc |-> p, result |-> result, at |-> clock]

AnswersFromStart(p)  == Kind[p] \in {"instant", "continuous", "stop_le"}
AnswersByMessage(p)  == Kind[p] \in {"deferred", "connectable_off"}
AnswersDirectly(p)   == ~AnswersByMessage(p) /\ Kind[p] # "handover"
CancelsAtOnceAsked(p) == Kind[p] \in {"service", "deferred"}   \* fault: not the instant ones
CancelsAtOnce(p)     == Kind[p] \in {"instant", "service", "deferred"}

(***************************************************************************)
(* Starting and cancelling one procedure, with q the undelivered messages  *)
(* and arm the armed callbacks so far.  A search for the peer that is      *)
(* asked for while an earlier one goes on joins it (peer_pair_le panics    *)
(* unless that is still waiting for its address: not followed here).       *)
(***************************************************************************)
StartProcedure(p, q, arm) ==
    IF AnswersFromStart(p)
    THEN /\ msgs' = q \cup {Msg("complete", p, "success")}
         /\ armed' = arm
         /\ UNCHANGED open
    ELSE /\ msgs' = q
         /\ armed' = [arm EXCEPT ![p] = "complete"]
         /\ open' = [open EXCEPT ![p] = IF Kind[p] = "pair_peer" THEN 1 ELSE @ + 1]

\* Procedures_DelayedCancelCfmCallback: post the confirmation, withdraw a
\* completion that is still in flight.
DelayedCancel(p, q) ==
    {m \in q : ~(m.kind = "complete" /\ m.proc = p)} \cup {Msg("cancelled", p, "success")}

CancelProcedure(p) ==
    CASE CancelsAtOnce(p) ->
            /\ armed' = [armed EXCEPT ![p] = "off"]
            /\ msgs' = DelayedCancel(p, msgs)
            /\ UNCHANGED open
      [] Kind[p] = "pair_peer" ->
            /\ msgs' = DelayedCancel(p, msgs)
            /\ UNCHANGED <<armed, open>>
      [] Kind[p] \in {"continuous", "handover"} ->
            /\ armed' = [armed EXCEPT ![p] = "cancel"]
            /\ open' = [open EXCEPT ![p] = @ + 1]
            /\ UNCHANGED msgs
      [] OTHER ->
            /\ armed' = [armed EXCEPT ![p] = IF @ = "off" THEN "off" ELSE "cancel"]
            /\ UNCHANGED <<open, msgs>>

(***************************************************************************)
(* scriptEngine_EngineReset followed by a callback into the client.        *)
(***************************************************************************)
ResetAndTell(callback) ==
    /\ state' = "idle"
    /\ script' = <<>>
    /\ step' = 1
    /\ client' = "idle"
    /\ last' = callback

\* Fault: a completion counts whatever the state of the engine.
ProcCompleteCfmInAnyState(result, q, arm) ==
    /\ UNCHANGED panicked
    /\ IF state # "idle" /\ result = "success" /\ step < Len(script)
       THEN /\ step' = step + 1
            /\ StartProcedure(script[step + 1], q, arm)
            /\ UNCHANGED <<state, script, client, last>>
       ELSE /\ msgs' = q
            /\ armed' = arm
            /\ UNCHANGED open
            /\ IF state # "idle" THEN ResetAndTell("complete")
               ELSE UNCHANGED <<state, script, step, client, last>>

\* scriptEngine_ProcCompleteCfm, with scriptEngine_StartCurrentStep
ProcCompleteCfm(result, q, arm) ==
    /\ UNCHANGED panicked
    /\ IF state = "active" /\ result = "success" /\ step < Len(script)
       THEN /\ step' = step + 1
            /\ StartProcedure(script[step + 1], q, arm)
            /\ UNCHANGED <<state, script, client, last>>
       ELSE /\ msgs' = q
            /\ armed' = arm
            /\ UNCHANGED open
            /\ IF state = "active" THEN ResetAndTell("complete")
               ELSE UNCHANGED <<state, script, step, client, last>>

\* scriptEngine_ProcCancelCfm
ProcCancelCfm(q, arm) ==
    /\ msgs' = q
    /\ armed' = arm
    /\ UNCHANGED open
    /\ IF state = "cancelling"
       THEN ResetAndTell("cancelled") /\ UNCHANGED panicked
       ELSE panicked' = TRUE /\ UNCHANGED <<state, script, step, client, last>>

(***************************************************************************)
(* The client: the goals engine starts and cancels scripts.                *)
(***************************************************************************)
StartScript(sc) ==
    /\ ~panicked /\ client = "idle" /\ starts < MaxStarts
    /\ starts' = starts + 1
    /\ clock' = clock + 1
    /\ IF state = "idle"
       THEN /\ state' = "active" /\ script' = sc /\ step' = 1
            /\ StartProcedure(sc[1], msgs, armed)
            /\ client' = "started" /\ last' = "none"
            /\ UNCHANGED panicked
       ELSE /\ panicked' = TRUE
            /\ UNCHANGED <<state, script, step, armed, open, msgs, client, last>>
    /\ UNCHANGED gave_up

\* Fault: the engine does not note that the script is being cancelled.
CancelScriptUnnoted ==
    /\ ~panicked /\ client = "started" /\ state = "active"
    /\ client' = "cancelling" /\ last' = "none"
    /\ clock' = clock + 1
    /\ CancelProcedure(script[step])
    /\ UNCHANGED <<state, script, step, gave_up, starts, panicked>>

CancelScript ==
    /\ ~panicked /\ client = "started"
    /\ client' = "cancelling" /\ last' = "none"
    /\ clock' = clock + 1
    /\ IF state = "active"
       THEN state' = "cancelling" /\ CancelProcedure(script[step])
       ELSE UNCHANGED <<state, armed, open, msgs>>
    /\ UNCHANGED <<script, step, gave_up, starts, panicked>>

(***************************************************************************)
(* Services answer the requests of procedures, in their own time.          *)
(***************************************************************************)
Answer(p) ==
    /\ ~panicked /\ open[p] > 0
    /\ open' = [open EXCEPT ![p] = @ - 1]
    /\ \E result \in Results : msgs' = msgs \cup {Msg("answer", p, result)}
    /\ clock' = clock + 1
    /\ UNCHANGED <<state, script, step, armed, gave_up, client, last, starts, panicked>>

(***************************************************************************)
(* Delivery, oldest message first.                                         *)
(***************************************************************************)
StillArmed(p) == armed   \* fault: the callback is not cleared when it is used
Disarmed(p) == [armed EXCEPT ![p] = "off"]

\* The procedures that prepare a handover, or restore what was prepared, have
\* answered (twsTopology_ProcHandoverProcedureCompleteCfm).  Of the attempts that
\* time out and are repeated only one that follows a failure makes a difference.
HandoverAnswered(m) ==
    LET p == m.proc
        q == msgs \ {m}
        failure == Msg("complete", p, "failed")
        Restore == armed' = [armed EXCEPT ![p] = "cancel"]
        Ask     == open' = [open EXCEPT ![p] = @ + 1] /\ msgs' = q
        Reply(to) == armed' = Disarmed(p) /\ msgs' = to /\ UNCHANGED open
        Result(failed) == gave_up' = [gave_up EXCEPT ![p] = failed]
    IN \/ m.result # "success" /\ Reply(q \cup {failure}) /\ UNCHANGED gave_up
       \/ /\ m.result = "success" /\ armed[p] = "complete"
          /\ \/ Result(FALSE) /\ Reply(q \cup {Msg("complete", p, "success")})
             \/ gave_up[p] /\ Result(FALSE) /\ Ask /\ UNCHANGED armed
             \/ Result(TRUE) /\ Ask /\ Restore
       \/ /\ m.result = "success" /\ armed[p] = "cancel"
          /\ Reply(IF gave_up[p] THEN q \cup {failure} ELSE DelayedCancel(p, q))
          /\ UNCHANGED gave_up

\* A search for the peer completes its step whatever it found.
ResultOf(m) == IF Kind[m.proc] = "pair_peer" THEN "success" ELSE m.result

HandleAnswer(m) ==
    LET p == m.proc
        q == msgs \ {m}
    IN CASE armed[p] = "off" ->
              /\ msgs' = q
              /\ UNCHANGED <<state, script, step, armed, open, gave_up, client, last, panicked>>
         [] armed[p] # "off" /\ Kind[p] = "handover" ->
              /\ HandoverAnswered(m)
              /\ UNCHANGED <<state, script, step, client, last, panicked>>
         [] armed[p] # "off" /\ AnswersByMessage(p) ->
              /\ armed' = Disarmed(p)
              /\ msgs' = IF armed[p] = "complete" THEN q \cup {Msg("complete", p, m.result)}
                                                  ELSE DelayedCancel(p, q)
              /\ UNCHANGED <<state, script, step, open, gave_up, client, last, panicked>>
         [] armed[p] = "complete" /\ AnswersDirectly(p) ->
              ProcCompleteCfm(ResultOf(m), q, Disarmed(p)) /\ UNCHANGED gave_up
         [] armed[p] = "cancel" /\ AnswersDirectly(p) ->
              ProcCancelCfm(q, Disarmed(p)) /\ UNCHANGED gave_up

\* Procedures_DelayCfmHandleMessage
HandleDelayedCfm(m) ==
    /\ IF m.kind = "complete" THEN ProcCompleteCfm(m.result, msgs \ {m}, armed)
                              ELSE ProcCancelCfm(msgs \ {m}, armed)
    /\ UNCHANGED gave_up

Deliver ==
    /\ ~panicked
    /\ \E m \in msgs :
        /\ \A n \in msgs : m.at =< n.at
        /\ IF m.kind = "answer" THEN HandleAnswer(m) ELSE HandleDelayedCfm(m)
    /\ clock' = clock + 1
    /\ UNCHANGED starts

Init ==
    /\ state = "idle" /\ script = <<>> /\ step = 1
    /\ armed = [p \in Procs |-> "off"]
    /\ open = [p \in Procs |-> 0] /\ gave_up = [p \in Procs |-> FALSE]
    /\ msgs = {} /\ clock = 0
    /\ client = "idle" /\ last = "none"
    /\ starts = 0 /\ panicked = FALSE

Next ==
    \/ \E sc \in Scripts : StartScript(sc)
    \/ CancelScript
    \/ Deliver
    \/ \E p \in Procs : Answer(p)

Spec == Init /\ [][Next]_vars

\* The scheduler keeps delivering, and every service answers its requests.
FairSpec == Spec /\ WF_vars(Deliver) /\ \A p \in Procs : WF_vars(Answer(p))

(***************************************************************************)
(* Correctness.                                                            *)
(***************************************************************************)
\* Every variable stays in its type, and the step is one of the script's.
TypeOK ==
    /\ state \in {"idle", "active", "cancelling"}
    /\ script \in Seq(Procs)
    /\ state # "idle" => step \in 1..Len(script)
    /\ armed \in [Procs -> {"off", "complete", "cancel"}]
    /\ open \in [Procs -> Nat] /\ gave_up \in [Procs -> BOOLEAN]
    /\ msgs \in SUBSET Message /\ clock \in Nat
    /\ client \in {"idle", "started", "cancelling"}
    /\ last \in {"none", "complete", "cancelled"}
    /\ starts \in Nat /\ panicked \in BOOLEAN

InFlight(kind, p) == \E m \in msgs : m.kind = kind /\ m.proc = p

\* The callback that the answer p waits for leads to.
Leads(p) == IF armed[p] = "cancel" /\ gave_up[p] THEN "complete" ELSE armed[p]

\* An answer is due to the callback cb of procedure p.
Due(p, cb) == Leads(p) = cb /\ (open[p] > 0 \/ InFlight("answer", p))

\* The step in progress will report its completion exactly once: it is either
\* posted already or due from the service, never both (a second report would
\* skip the step after it).
StepReportsOnce ==
    state = "active" =>
        LET p == script[step] IN InFlight("complete", p) # Due(p, "complete")

\* Only the step in progress can report anything: no completion, confirmation
\* or armed callback survives from an earlier step or an earlier script.
NothingStale ==
    /\ \A m \in msgs : m.kind # "answer" => state # "idle" /\ m.proc = script[step]
    /\ \A m \in msgs : m.kind = "cancelled" => state = "cancelling"
    /\ \A p \in Procs : armed[p] # "off" => state # "idle" /\ p = script[step]

\* Every step of a script reports for itself and in its turn
\* (scriptEngine_ProcCompleteCfm looks at nothing but the state of the engine).
StepsReportInTurn == StepReportsOnce /\ NothingStale

\* A cancelled script has its confirmation on the way (script_engine.h: after
\* the current script is cancelled the engine will be ready for a new one).
CancelOnItsWay ==
    state = "cancelling" =>
        LET p == script[step] IN InFlight("cancelled", p) \/ Due(p, "cancel")

\* Neither a script is started while one runs, nor is a cancellation confirmed
\* that nobody waits for.
NoPanic == ~panicked

\* To its client a script is a procedure: it answers once, with what was asked.
Contract == INSTANCE Procedure WITH phase <- client
ImplementsProcedure == Contract!Spec
AnswersAsAsked == Contract!Safety   \* the part of it that needs no fairness
=============================================================================
