---------------------------- MODULE GoalsEngine ----------------------------
(***************************************************************************)
(* The goals engine of the earbud topology                                 *)
(* (topologies/common/goals_engine/goals_engine.c) together with the two   *)
(* parties it talks to: the message queue its decisions and confirmations  *)
(* travel through, and the procedures (or scripts) that carry a goal out.  *)
(*                                                                         *)
(* A rule posts a decision; delivering the decision calls                  *)
(* GoalsEngine_ActivateGoal, which starts the goal, or queues it as a      *)
(* message conditional on a lock (the set of active goals it waits for),   *)
(* or first cancels what is in its way.  A procedure answers once, and the *)
(* answer clears the goal and releases the locks that mention it.          *)
(***************************************************************************)
EXTENDS Integers, FiniteSets

CONSTANTS
    Goals,         \* the goal ids of the table
    Rules,         \* the rule (decision message) ids
    GoalOf,        \* the goal each rule's decision asks for
    Contention,    \* goal -> "wait", "cancel" or "concurrent"
    Exclusive,     \* goal -> the goal it summarily cancels, or NoGoal
    Concurrent,    \* goal -> the goals it may run beside
    HandoverRules, \* the rules whose goal follows from HDMA's recommendation when
                   \* their decision is delivered: TWSTOP_PRIMARY_GOAL_HANDOVER_START
    Scripted,      \* the goals carried out by the (single) script engine
    AsyncCancel,   \* the goals whose procedure confirms a cancel only when
                   \* its outstanding answer arrives; the others confirm at once
    NumSlots,      \* INITIAL_GOAL_QUEUE_COUNT
    MaxDecisions,  \* bound: decisions the rules engine posts in a behaviour
    NoGoal, NoRule

(***************************************************************************)
(* What the goal table of tws_topology_goals.c guarantees.                 *)
(***************************************************************************)
ASSUME TableTypes ==
    /\ NoGoal \notin Goals /\ NoRule \notin Rules
    /\ GoalOf \in [Rules -> Goals]
    /\ Contention \in [Goals -> {"wait", "cancel", "concurrent"}]
    /\ Exclusive \in [Goals -> Goals \cup {NoGoal}]
    /\ Concurrent \in [Goals -> SUBSET Goals]
    /\ Scripted \subseteq Goals /\ AsyncCancel \subseteq Goals
    /\ HandoverRules \subseteq Rules

ASSUME Bounds == NumSlots \in Nat /\ NumSlots > 0 /\ MaxDecisions \in Nat

ASSUME ConcurrencyLists ==
    \A g \in Goals :
        /\ Contention[g] # "concurrent" => Concurrent[g] = {}
        /\ g \notin Concurrent[g]
        /\ \A h \in Concurrent[g] : g \in Concurrent[h]

ASSUME ScriptsRunAlone == \A g \in Scripted : Contention[g] # "concurrent"

\* Exclusive goals are never in each other's concurrency list, and a goal
\* that others cancel as exclusive is asked for by one rule only.
ASSUME ExclusiveGoals ==
    /\ \A g \in Goals : Exclusive[g] \notin Concurrent[g] \cup {g}
    /\ \A r, s \in Rules :
          (GoalOf[r] = GoalOf[s] /\ \E g \in Goals : Exclusive[g] = GoalOf[r]) => r = s

VARIABLES
    active,     \* active_goals_mask
    pending,    \* pending_goals[]: the slots of the pending goal queue
    count,      \* queue_msg_count
    msgs,       \* undelivered messages, each stamped with the time it was sent
    clock,      \* the stamp of the next message sent
    proc,       \* what the procedure (or script) of each goal is doing
    decisions,  \* decisions posted so far
    recommended,\* handover_info.reason: HDMA recommends a handover
    lost,       \* (history) queued messages taken from the queue since it was last
                \* flushed, but not from its count
    panicked    \* Panic() has been called

vars == <<active, pending, count, msgs, clock, proc, decisions, recommended, lost, panicked>>

Slots == 1..NumSlots
FreeSlot == [id |-> NoGoal, rule |-> NoRule, lock |-> {}]
EmptyQueue == [s \in Slots |-> FreeSlot]

SlotType == [id : Goals \cup {NoGoal}, rule : Rules \cup {NoRule}, lock : SUBSET Goals]

Message ==
    [kind : {"decision", "queued"}, rule : Rules, goal : Goals, slot : Slots, at : Nat]
      \cup [kind : {"response", "cancelled"}, rule : {NoRule}, goal : Goals, slot : Slots, at : Nat]

Msg(kind, rule, goal, slot, at) ==
    [kind |-> kind, rule |-> rule, goal |-> goal, slot |-> slot, at |-> at]

QueuedIn(q) == {m \in q : m.kind = "queued"}

(***************************************************************************)
(* Delivery.  The scheduler hands out the oldest message whose condition   *)
(* is clear; a queued decision's condition is the lock of its slot.        *)
(***************************************************************************)
Blocked(m) == m.kind = "queued" /\ pending[m.slot].lock # {}

Deliverable(m) ==
    /\ ~Blocked(m)
    /\ \A n \in msgs : ~Blocked(n) => m.at =< n.at

(***************************************************************************)
(* Cancelling the goals in D (goalsEngine_CancelGoal for each of them).    *)
(* CancelScript cancels whatever script is running and refuses when none   *)
(* is.  A procedure that cancels at once stops, withdraws its answer and   *)
(* posts a confirmation every time it is asked, even twice.                *)
(***************************************************************************)
AtOnce(D) == D \ (Scripted \cup AsyncCancel)

\* Fault: a procedure that confirms at once goes on until it has been answered.
ProcsGoOn(D) ==
    [g \in Goals |-> IF g \in D /\ proc[g] = "running" THEN "cancelling" ELSE proc[g]]

ProcsAfterCancel(D) ==
    [g \in Goals |->
        IF g \in AtOnce(D) THEN "idle"
        ELSE IF /\ proc[g] = "running"
                /\ IF g \in Scripted THEN D \cap Scripted # {} ELSE g \in D
             THEN "cancelling"
             ELSE proc[g]]

\* Fault: the cancellation is not confirmed.
MsgsUnconfirmed(q, D) == {m \in q : ~(m.kind = "response" /\ m.goal \in AtOnce(D))}

MsgsAfterCancel(q, D) ==
    {m \in q : ~(m.kind = "response" /\ m.goal \in AtOnce(D))}
      \cup {Msg("cancelled", NoRule, g, 1, clock) : g \in AtOnce(D)}

(***************************************************************************)
(* The pending goal queue.                                                 *)
(***************************************************************************)
HasSlot(pend, g) == \E s \in Slots : pend[s].id = g
IsFree(pend, s) == pend[s].id = NoGoal

\* Fault: the slot a goal already has is not looked for.
IsFirstFreeSlot(pend, g, s) == IsFree(pend, s) /\ \A t \in Slots : IsFree(pend, t) => s =< t

\* the slot goalsEngine_QueueGoal picks: the goal's own, else the first free one
IsSlotFor(pend, g, s) ==
    IF HasSlot(pend, g)
    THEN pend[s].id = g /\ \A t \in Slots : pend[t].id = g => s =< t
    ELSE IsFree(pend, s) /\ \A t \in Slots : IsFree(pend, t) => s =< t

\* what goalsEngine_UpdateQueueMasks makes of the locks when act are active
Relocked(pend, act) ==
    [s \in Slots |->
        IF pend[s].rule = NoRule THEN pend[s]
        ELSE [pend[s] EXCEPT !.lock =
                IF Contention[pend[s].id] = "concurrent"
                THEN act \ Concurrent[pend[s].id] ELSE act]]

\* Fault: the queue is reset while decisions are still queued.
ResetAlways(pend, n) == EmptyQueue

\* goalsEngine_ResetPendingQueueIfEmpty
ResetIfEmpty(pend, n) == IF n = 0 THEN EmptyQueue ELSE pend

\* Fault: every queued decision is dropped with the excluded goal's.
DequeuedAll(q, pend, D) == IF D = {} THEN {} ELSE QueuedIn(q)

\* goalsEngine_DequeGoal: by the rule id of the slot, for each goal of D
Dequeued(q, pend, D) ==
    {m \in q : m.kind = "queued" /\ \E s \in Slots : pend[s].id \in D /\ pend[s].rule = m.rule}

SlotsAfterDeque(pend, D) == [s \in Slots |-> IF pend[s].id \in D THEN FreeSlot ELSE pend[s]]

(***************************************************************************)
(* The tail of GoalsEngine_ActivateGoal, from a queue pend of n messages,  *)
(* undelivered messages q and procedures procs.                            *)
(***************************************************************************)
StartGoal(g, q, pend, n, procs) ==
    /\ active' = active \cup {g}
    /\ proc' = [procs EXCEPT ![g] = "running"]
    /\ panicked' = (g \in Scripted /\ \E h \in Scripted : procs[h] # "idle")
    /\ pending' = ResetIfEmpty(Relocked(pend, active \cup {g}), n)
    /\ count' = n
    /\ msgs' = q
    /\ clock' = clock + 1
    /\ UNCHANGED <<decisions, recommended>>

QueueGoal(g, r, wait, q, pend, n, procs) ==
    \E s \in Slots :
        /\ IsSlotFor(pend, g, s)
        /\ pending' = [pend EXCEPT ![s] = [id |-> g, rule |-> r, lock |-> wait]]
        /\ count' = n + 1
        /\ msgs' = q \cup {Msg("queued", r, g, s, clock + 1)}
        /\ clock' = clock + 2
        /\ proc' = procs
        /\ UNCHANGED <<active, decisions, recommended, panicked>>

(***************************************************************************)
(* GoalsEngine_ActivateGoal, by the branch it takes for message m.         *)
(***************************************************************************)
IsDecision(m) == m.kind \in {"decision", "queued"}
QueueSize(m) == IF m.kind = "queued" THEN count - 1 ELSE count
\* Faults: decisions that wait their turn, or active goals, are not looked at.
CanRunWhenIdle(m) == active = {}
CanRunWhenQueueEmpty(m) == QueueSize(m) = 0 \/ m.kind = "queued"

CanRunNow(m) == active = {} /\ (QueueSize(m) = 0 \/ m.kind = "queued")
Duplicate(m) == Contention[m.goal] = "cancel" /\ m.goal \in active

IgnoreDuplicate(m) ==
    /\ Duplicate(m)
    /\ msgs' = (msgs \ {m}) \ QueuedIn(msgs)
    /\ pending' = EmptyQueue
    /\ count' = 0 /\ lost' = 0
    /\ UNCHANGED <<active, clock, proc, decisions, recommended, panicked>>

RunNow(m) ==
    /\ CanRunNow(m) /\ ~Duplicate(m)
    /\ StartGoal(m.goal, msgs \ {m}, pending, QueueSize(m), proc)
    /\ UNCHANGED lost

\* A cancel goal flushes the queue, cancels everything active and waits.
FlushAndRun(m) ==
    /\ ~CanRunNow(m) /\ ~Duplicate(m)
    /\ Contention[m.goal] = "cancel"
    /\ active = {}
    /\ StartGoal(m.goal, (msgs \ {m}) \ QueuedIn(msgs), EmptyQueue, 0, proc)
    /\ lost' = 0

FlushCancelAndWait(m) ==
    /\ ~CanRunNow(m) /\ ~Duplicate(m)
    /\ Contention[m.goal] = "cancel"
    /\ active # {}
    /\ QueueGoal(m.goal, m.rule, active,
                 MsgsAfterCancel((msgs \ {m}) \ QueuedIn(msgs), active),
                 EmptyQueue, 0, ProcsAfterCancel(active))
    /\ lost' = 0

\* The other goals wait for the active goals they cannot run beside, and
\* dequeue and cancel an active goal they exclude.
\* Fault: a concurrent goal waits for nobody.
WaitForNoneIfConcurrent(g) == IF Contention[g] = "concurrent" THEN {} ELSE active

WaitFor(g) == IF Contention[g] = "concurrent" THEN active \ Concurrent[g] ELSE active
Excluded(g) == {Exclusive[g]} \cap active

RunBeside(m) ==
    /\ ~CanRunNow(m)
    /\ Contention[m.goal] = "concurrent"
    /\ WaitFor(m.goal) = {}
    /\ StartGoal(m.goal, msgs \ {m}, pending, QueueSize(m), proc)
    /\ UNCHANGED lost

MustWait(m) ==
    /\ ~CanRunNow(m)
    /\ Contention[m.goal] # "cancel"
    /\ Contention[m.goal] = "concurrent" => WaitFor(m.goal) # {}

WaitInQueue(m) ==
    LET out == Dequeued(msgs \ {m}, pending, Excluded(m.goal))
    IN  /\ MustWait(m)
        /\ QueueGoal(m.goal, m.rule, WaitFor(m.goal),
                     MsgsAfterCancel((msgs \ {m}) \ out, Excluded(m.goal)),
                     SlotsAfterDeque(pending, Excluded(m.goal)),
                     QueueSize(m) - Cardinality(out),
                     ProcsAfterCancel(Excluded(m.goal)))
        /\ UNCHANGED lost

\* All slots taken by other goals: goalsEngine_QueueGoal panics.
SlotsExhausted(m) ==
    /\ MustWait(m)
    /\ ~HasSlot(SlotsAfterDeque(pending, Excluded(m.goal)), m.goal)
    /\ \A s \in Slots : ~IsFree(SlotsAfterDeque(pending, Excluded(m.goal)), s)
    /\ panicked' = TRUE
    /\ UNCHANGED <<active, pending, count, msgs, clock, proc, decisions, recommended, lost>>

\* twsTopology_GetHandoverGoal: the goal of a handover decision is looked up when
\* the decision is delivered, also from the queue, and is none by then when the
\* recommendation has been withdrawn.
IsForNone(m) == m.rule \in HandoverRules /\ ~recommended

\* A decision that is ignored before it is taken from the count.
Ignore(m) ==
    /\ msgs' = msgs \ {m}
    /\ lost' = IF m.kind = "queued" THEN lost + 1 ELSE lost
    /\ UNCHANGED <<active, pending, count, clock, proc, decisions, recommended, panicked>>

IgnoreNone(m) == IsForNone(m) /\ Ignore(m)

ActivateGoal(m) ==
    /\ IsDecision(m)
    /\ \/ IgnoreNone(m)
       \/ /\ ~IsForNone(m)
          /\ \/ IgnoreDuplicate(m)
             \/ RunNow(m)
             \/ FlushAndRun(m)
             \/ FlushCancelAndWait(m)
             \/ RunBeside(m)
             \/ WaitInQueue(m)
             \/ SlotsExhausted(m)

(***************************************************************************)
(* GoalsEngine_ClearGoal, called when a goal's procedure completes         *)
(* (twsTopology_GoalProcComplete) or confirms its cancellation             *)
(* (twsTopology_GoalProcCancelCfm).                                        *)
(***************************************************************************)
\* Fault: the goal's bit is left set in the locks of the queue.
ClearGoalKeepLocks(g) == active' = active \ {g} /\ UNCHANGED pending

ClearGoal(g) ==
    /\ active' = active \ {g}
    /\ pending' = [s \in Slots |->
                     IF pending[s].id = NoGoal THEN pending[s]
                     ELSE [pending[s] EXCEPT !.lock = @ \ {g}]]

ConfirmCancel(m) ==
    /\ m.kind = "cancelled"
    /\ ClearGoal(m.goal)
    /\ msgs' = msgs \ {m}
    /\ UNCHANGED <<count, clock, proc, decisions, recommended, lost, panicked>>

\* The answer a procedure was waiting for completes it, or confirms its
\* cancellation if it has been cancelled meanwhile.
TakeAnswer(m) ==
    /\ m.kind = "response"
    /\ ClearGoal(m.goal)
    /\ proc' = [proc EXCEPT ![m.goal] = "idle"]
    /\ msgs' = msgs \ {m}
    /\ UNCHANGED <<count, decisions, recommended, lost, panicked>>

FinishProcedure(m) == TakeAnswer(m) /\ UNCHANGED clock

Deliver ==
    /\ ~panicked
    /\ \E m \in msgs :
        /\ Deliverable(m)
        /\ ActivateGoal(m) \/ ConfirmCancel(m) \/ FinishProcedure(m)

(***************************************************************************)
(* The environment: rules decide, services answer procedures, and HDMA     *)
(* recommends a handover and takes it back.                                *)
(***************************************************************************)
Decide(r) ==
    /\ ~panicked
    /\ decisions < MaxDecisions
    /\ r \in HandoverRules => recommended
    /\ decisions' = decisions + 1
    /\ msgs' = msgs \cup {Msg("decision", r, GoalOf[r], 1, clock)}
    /\ clock' = clock + 1
    /\ UNCHANGED <<active, pending, count, proc, recommended, lost, panicked>>

Respond(g) ==
    /\ ~panicked
    /\ proc[g] # "idle"
    /\ ~\E m \in msgs : m.kind = "response" /\ m.goal = g
    /\ msgs' = msgs \cup {Msg("response", NoRule, g, 1, clock)}
    /\ clock' = clock + 1
    /\ UNCHANGED <<active, pending, count, proc, decisions, recommended, lost, panicked>>

Recommend(yes) ==
    /\ ~panicked /\ HandoverRules # {}
    /\ recommended' = yes
    /\ UNCHANGED <<active, pending, count, clock, proc, decisions, lost, panicked>>

HandleHDMARequest == Recommend(TRUE) /\ UNCHANGED msgs

IsHandoverDecision(m) == m.kind = "decision" /\ m.rule \in HandoverRules

\* MessageCancelFirst for the goal task takes back the oldest decision that is on
\* its way to the engine, and none that is in the engine's queue.
HandleHDMACancelHandover ==
    /\ Recommend(FALSE)
    /\ msgs' = {m \in msgs :
                  IsHandoverDecision(m) => \E n \in msgs : IsHandoverDecision(n) /\ n.at < m.at}

\* twsTopology_CreateHdma forgets the recommendation of the HDMA before.
CreateHdma == Recommend(FALSE) /\ UNCHANGED msgs

Init ==
    /\ active = {}
    /\ pending = EmptyQueue
    /\ count = 0
    /\ msgs = {}
    /\ clock = 0
    /\ proc = [g \in Goals |-> "idle"]
    /\ decisions = 0
    /\ recommended = FALSE /\ lost = 0
    /\ panicked = FALSE

Next ==
    \/ Deliver
    \/ \E r \in Rules : Decide(r)
    \/ \E g \in Goals : Respond(g)
    \/ HandleHDMARequest \/ HandleHDMACancelHandover \/ CreateHdma

Spec == Init /\ [][Next]_vars

\* The scheduler keeps delivering, and services keep answering.
FairSpec == Spec /\ WF_vars(Deliver) /\ \A g \in Goals : WF_vars(Respond(g))

(***************************************************************************)
(* Correctness.                                                            *)
(***************************************************************************)
\* Every variable stays in its type; queue_msg_count never wraps below zero.
TypeOK ==
    /\ active \in SUBSET Goals
    /\ pending \in [Slots -> SlotType]
    /\ count \in Nat
    /\ msgs \in SUBSET Message
    /\ clock \in Nat
    /\ proc \in [Goals -> {"idle", "running", "cancelling"}]
    /\ decisions \in Nat
    /\ recommended \in BOOLEAN
    /\ lost \in Nat
    /\ panicked \in BOOLEAN

\* A queued goal never waits for a goal that is not active: nobody would
\* ever clear that bit of its lock (ClearGoal against UpdateQueueMasks).
LocksHeldByActive == \A s \in Slots : pending[s].lock \subseteq active

\* queue_msg_count is the number of queued messages, and of those that were queued
\* handovers whose recommendation had been withdrawn (which stay counted until a
\* cancel goal flushes the queue); every queued message is conditional on the lock
\* of its own goal's slot, not of a slot that was reset or given to another goal
\* while the message was still queued.
QueueAccounted ==
    /\ count = Cardinality(QueuedIn(msgs)) + lost
    /\ \A m \in QueuedIn(msgs) : pending[m.slot].id = m.goal

\* Goals that are active together list each other as concurrent; a scripted
\* goal is active alone (ActivateGoal's three ways to start a goal).
GoalsCompatible == \A g, h \in active : g # h => h \in Concurrent[g]

\* The engine forgets nothing it has started: an active goal has a procedure that
\* will answer or a cancellation on its way to be confirmed.
ActiveIsExecuting ==
    \A g \in active : proc[g] # "idle" \/ \E m \in msgs : m.kind = "cancelled" /\ m.goal = g

\* Nor does it lose what executes: a goal whose procedure executes is active.  It
\* takes a table in which a goal that confirms its cancellation at once waits its
\* turn: any other can run again between the confirmations of two cancellations,
\* and the second one clears it while it runs (see CancelGoalRunsAlone).
ExecutingIsActive == \A g \in Goals : proc[g] # "idle" => g \in active

\* A goal has one slot at most, however often it is queued and dequeued before
\* the slots are given back: they can only run out to as many different goals.
OneSlotPerGoal ==
    \A s, t \in Slots : pending[s].id = pending[t].id => s = t \/ IsFree(pending, s)

\* The engine panics for want of a slot only, never because it starts a script
\* while another one runs or is being cancelled.
PanicOnlyWhenFull == panicked => \A s \in Slots : ~IsFree(pending, s)

\* A goal that waits its turn is never overtaken by another that waits: a new
\* decision starts one only when no other is queued, and a queued decision only
\* when it is the oldest (the run-now condition, the relocking of the queue and
\* the delivery order between them).
WaitersInOrder ==
    [][\A m \in msgs \ msgs' :
          IsDecision(m) /\ Contention[m.goal] = "wait" /\ m.goal \in active' \ active =>
            \A n \in QueuedIn(msgs') :
                Contention[n.goal] = "wait" => m.kind = "queued" /\ n.at > m.at]_vars

\* Every queued goal is eventually taken from the queue: its lock is released
\* by goals that complete, however they were queued, cancelled and relocked, and
\* whatever handover the count still holds.
QueueDrains == (QueuedIn(msgs) # {}) ~> (QueuedIn(msgs) = {} \/ panicked)

\* The engine implements what GoalScheduling promises.
DecisionsOf(r) == {m \in msgs : IsDecision(m) /\ m.rule = r}
Asked == [r \in Rules |-> Cardinality(DecisionsOf(r))]
Executing == {g \in Goals : proc[g] # "idle"}

Scheduling == INSTANCE GoalScheduling WITH asked <- Asked, executing <- Executing

ImplementsScheduling == Scheduling!Spec

(***************************************************************************)
(* Statements of the source that the code does not keep.                   *)
(***************************************************************************)
\* goals_engine.h: a cancel goal is run once no goals are active.  No procedure
\* of another goal still executes while one does.
CancelGoalRunsAlone ==
    \A g \in Goals : Contention[g] = "cancel" /\ proc[g] # "idle" =>
        \A h \in Goals \ {g} : proc[h] = "idle"

\* goals_engine.h: GoalsEngine_IsAnyGoalPending checks if there are any pending
\* goals (the topology vetoes a handover while it says so).
IsAnyGoalPending == count # 0
PendingGoalsAreQueued == IsAnyGoalPending => QueuedIn(msgs) # {}
=============================================================================
