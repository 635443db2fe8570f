------------------------- MODULE GoalsEngineProofs -------------------------
(***************************************************************************)
(* Proofs about the goals engine, for every goal table that satisfies the  *)
(* assumptions of GoalsEngine and for every number of decisions.           *)
(*                                                                         *)
(* The engine's operations compute a queue, its messages and its size from *)
(* intermediate ones (flushed, dequeued, relocked), so the parts of the    *)
(* inductive invariant are stated about an arbitrary queue.                *)
(***************************************************************************)
EXTENDS GoalsEngine, FiniteSetTheorems, TLAPS

\* A slot is free, with nothing in it, or holds a rule that decides on its
\* goal, which has no other slot, and it waits for active goals only.
SlotsOK(pend, act) ==
    /\ pend \in [Slots -> SlotType]
    /\ \A s, t \in Slots : pend[s].id = pend[t].id => s = t \/ pend[s].id = NoGoal
    /\ \A s \in Slots :
        /\ pend[s].lock \subseteq act
        /\ IF pend[s].id = NoGoal THEN pend[s] = FreeSlot
           ELSE pend[s].rule \in Rules /\ GoalOf[pend[s].rule] = pend[s].id

\* Messages are stamped with a time before now; a decision is for its rule's goal.
MsgsOK(q, now) ==
    /\ q \in SUBSET Message
    /\ \A m \in q : m.at < now /\ (IsDecision(m) => GoalOf[m.rule] = m.goal)

\* The queue, of which l messages were ignored and still count, has the size n, and
\* each message is tied to the slot of its goal.
Accounted(pend, q, n, l) ==
    /\ IsFiniteSet(QueuedIn(q))
    /\ l \in Nat /\ n = Cardinality(QueuedIn(q)) + l
    /\ \A m \in QueuedIn(q) : pend[m.slot].id = m.goal

ProcsOK(procs) == procs \in [Goals -> {"idle", "running", "cancelling"}]

RestOK ==
    /\ active \in SUBSET Goals
    /\ clock \in Nat
    /\ ProcsOK(proc)
    /\ decisions \in Nat
    /\ recommended \in BOOLEAN
    /\ panicked \in BOOLEAN

IInv ==
    /\ RestOK
    /\ SlotsOK(pending, active)
    /\ MsgsOK(msgs, clock)
    /\ Accounted(pending, msgs, count, lost)
    /\ GoalsCompatible

(***************************************************************************)
(* Lemmas about the helpers.                                               *)
(***************************************************************************)
LEMMA SlotsType ==
    /\ Slots \subseteq Int
    /\ 1 \in Slots
    /\ FreeSlot \in SlotType
BY Bounds DEF Slots, FreeSlot, SlotType

LEMMA EmptyQueueOK == ASSUME NEW act PROVE SlotsOK(EmptyQueue, act)
BY SlotsType DEF SlotsOK, EmptyQueue, FreeSlot

\* What is left of the queued messages when all, or some, are taken out.
LEMMA NoneQueued ==
    ASSUME NEW q, NEW pend, QueuedIn(q) = {}
    PROVE  Accounted(pend, q, 0, 0)
BY FS_EmptySet DEF Accounted

LEMMA SizeIsNat ==
    ASSUME NEW pend, NEW q, NEW n, NEW l, Accounted(pend, q, n, l)
    PROVE  n \in Nat /\ (n = 0 => QueuedIn(q) = {} /\ l = 0)
<1>1. /\ IsFiniteSet(QueuedIn(q)) /\ l \in Nat /\ n = Cardinality(QueuedIn(q)) + l
      /\ Cardinality(QueuedIn(q)) \in Nat
  BY FS_CardinalityType DEF Accounted
<1>2. n \in Nat /\ (n = 0 => Cardinality(QueuedIn(q)) = 0 /\ l = 0) BY <1>1
<1> QED BY <1>1, <1>2, FS_EmptySet

LEMMA SubsetOK ==
    ASSUME NEW q, NEW now, MsgsOK(q, now), NEW r \in SUBSET q
    PROVE  MsgsOK(r, now)
BY DEF MsgsOK

LEMMA LaterOK ==
    ASSUME NEW q, NEW now \in Nat, NEW later \in Nat, now =< later, MsgsOK(q, now)
    PROVE  MsgsOK(q, later)
<1>1. ASSUME NEW m \in q PROVE m.at < later
  <2>1. m \in Message /\ m.at < now BY DEF MsgsOK
  <2>2. m.at \in Nat BY <2>1 DEF Message
  <2> QED BY <2>1, <2>2
<1> QED BY <1>1 DEF MsgsOK

\* goalsEngine_UpdateQueueMasks keeps the slots well formed.
LEMMA RelockedOK ==
    ASSUME NEW pend, NEW act \in SUBSET Goals, NEW old \in SUBSET act, SlotsOK(pend, old)
    PROVE  /\ SlotsOK(Relocked(pend, act), act)
           /\ \A s \in Slots : Relocked(pend, act)[s].id = pend[s].id
<1> DEFINE new == Relocked(pend, act)
<1>1. ASSUME NEW s \in Slots
      PROVE  /\ new[s] \in SlotType
             /\ new[s].lock \subseteq act
             /\ new[s].id = pend[s].id
             /\ new[s].rule = pend[s].rule
             /\ pend[s].id = NoGoal => new[s] = FreeSlot
  <2>1. pend[s] \in SlotType BY DEF SlotsOK
  <2>2. CASE pend[s].rule = NoRule
    BY <2>1, <2>2 DEF Relocked, SlotsOK
  <2>3. CASE pend[s].rule # NoRule
    <3>1. PICK lock \in SUBSET act : new[s] = [pend[s] EXCEPT !.lock = lock]
      BY <2>3 DEF Relocked
    <3>2. pend[s].id # NoGoal BY <2>3 DEF SlotsOK, FreeSlot
    <3> QED BY <2>1, <3>1, <3>2 DEF SlotType
  <2> QED BY <2>2, <2>3
<1>2. new \in [Slots -> SlotType] BY <1>1 DEF Relocked
<1> QED BY <1>1, <1>2 DEF SlotsOK

\* goalsEngine_ResetPendingQueueIfEmpty resets an empty queue only.
LEMMA ResetOK ==
    ASSUME NEW pend, NEW act, NEW q, NEW n, NEW l, SlotsOK(pend, act), Accounted(pend, q, n, l)
    PROVE  SlotsOK(ResetIfEmpty(pend, n), act) /\ Accounted(ResetIfEmpty(pend, n), q, n, l)
<1>1. CASE n = 0
  <2>1. QueuedIn(q) = {} /\ l = 0 BY <1>1, SizeIsNat
  <2>2. Accounted(EmptyQueue, q, 0, 0) BY <2>1, NoneQueued
  <2> QED BY <1>1, <2>1, <2>2, EmptyQueueOK DEF ResetIfEmpty
<1>2. CASE n # 0
  BY <1>2 DEF ResetIfEmpty
<1> QED BY <1>1, <1>2

\* Cancelling keeps the queued messages and adds confirmations stamped now.
LEMMA CancelOK ==
    ASSUME NEW q, NEW D \in SUBSET Goals, MsgsOK(q, clock), clock \in Nat, ProcsOK(proc)
    PROVE  /\ MsgsOK(MsgsAfterCancel(q, D), clock + 1)
           /\ QueuedIn(MsgsAfterCancel(q, D)) = QueuedIn(q)
           /\ ProcsOK(ProcsAfterCancel(D))
<1> DEFINE cfms == {Msg("cancelled", NoRule, g, 1, clock) : g \in AtOnce(D)}
           kept == {m \in q : ~(m.kind = "response" /\ m.goal \in AtOnce(D))}
<1>1. MsgsAfterCancel(q, D) = kept \cup cfms BY DEF MsgsAfterCancel
<1>2. ASSUME NEW m \in cfms
      PROVE  m \in Message /\ m.kind = "cancelled" /\ m.at = clock
  <2>1. PICK g \in AtOnce(D) : m = Msg("cancelled", NoRule, g, 1, clock) OBVIOUS
  <2>2. g \in Goals BY DEF AtOnce
  <2> QED BY <2>1, <2>2, SlotsType DEF Msg, Message
<1>3. MsgsOK(kept, clock + 1) BY SubsetOK, LaterOK
<1>4. MsgsOK(MsgsAfterCancel(q, D), clock + 1)
  <2>1. kept \cup cfms \in SUBSET Message BY <1>2, <1>3 DEF MsgsOK
  <2>2. ASSUME NEW m \in cfms PROVE m.at < clock + 1 /\ ~IsDecision(m)
    BY <1>2 DEF IsDecision
  <2> QED BY <1>1, <1>3, <2>1, <2>2 DEF MsgsOK
<1>5. QueuedIn(MsgsAfterCancel(q, D)) = QueuedIn(q)
  BY <1>1, <1>2 DEF QueuedIn
<1>6. ProcsOK(ProcsAfterCancel(D))
  BY DEF ProcsOK, ProcsAfterCancel
<1> QED BY <1>4, <1>5, <1>6

(***************************************************************************)
(* The two ways ActivateGoal ends.                                         *)
(***************************************************************************)
LEMMA StartGoalStep ==
    ASSUME IInv, NEW g \in Goals, NEW q, NEW pend, NEW n, NEW procs,
           SlotsOK(pend, active), MsgsOK(q, clock), Accounted(pend, q, n, lost'), ProcsOK(procs),
           active \subseteq Concurrent[g],
           StartGoal(g, q, pend, n, procs)
    PROVE  IInv'
<1> DEFINE act == active \cup {g}
<1>1. active' = act /\ active \in SUBSET act /\ act \in SUBSET Goals /\ clock \in Nat /\ decisions \in Nat
      /\ recommended \in BOOLEAN
  BY DEF StartGoal, IInv, RestOK
<1>2. RestOK'
  BY <1>1 DEF StartGoal, RestOK, ProcsOK
<1>3. /\ SlotsOK(Relocked(pend, act), act)
      /\ \A s \in Slots : Relocked(pend, act)[s].id = pend[s].id
  BY <1>1, RelockedOK
<1>4. Accounted(Relocked(pend, act), q, n, lost')
  <2>1. \A m \in QueuedIn(q) : m.slot \in Slots BY DEF MsgsOK, QueuedIn, Message
  <2> QED BY <1>3, <2>1 DEF Accounted
<1>5. SlotsOK(pending, active)' /\ Accounted(pending, msgs, count, lost)'
  BY <1>1, <1>3, <1>4, ResetOK DEF StartGoal
<1>6. MsgsOK(msgs, clock)'
  <2>1. clock' = clock + 1 /\ msgs' = q BY DEF StartGoal
  <2> QED BY <1>1, <2>1, LaterOK
<1>7. GoalsCompatible'
  <2>1. \A h \in active : h \in Concurrent[g] /\ g \in Concurrent[h]
    BY <1>1, ConcurrencyLists
  <2> QED BY <1>1, <2>1 DEF IInv, GoalsCompatible
<1> QED BY <1>2, <1>5, <1>6, <1>7 DEF IInv

LEMMA QueueGoalStep ==
    ASSUME IInv, NEW r \in Rules, NEW wait \in SUBSET active,
           NEW q, NEW pend, NEW n, NEW procs,
           SlotsOK(pend, active), MsgsOK(q, clock + 1), Accounted(pend, q, n, lost'), ProcsOK(procs),
           QueueGoal(GoalOf[r], r, wait, q, pend, n, procs)
    PROVE  IInv'
<1> DEFINE g == GoalOf[r]
<1>1. PICK s \in Slots :
        /\ IsSlotFor(pend, g, s)
        /\ pending' = [pend EXCEPT ![s] = [id |-> g, rule |-> r, lock |-> wait]]
        /\ count' = n + 1
        /\ msgs' = q \cup {Msg("queued", r, g, s, clock + 1)}
        /\ clock' = clock + 2
        /\ proc' = procs
        /\ UNCHANGED <<active, decisions, recommended, panicked>>
  BY DEF QueueGoal
<1> DEFINE new == Msg("queued", r, g, s, clock + 1)
<1>2. g \in Goals /\ g # NoGoal /\ active \in SUBSET Goals /\ clock \in Nat
  BY TableTypes DEF IInv, RestOK
<1>3. RestOK' BY <1>1, <1>2 DEF IInv, RestOK
<1>4. SlotsOK(pending, active)'
  <2>1. [id |-> g, rule |-> r, lock |-> wait] \in SlotType BY <1>2 DEF SlotType
  <2>2. ASSUME NEW t \in Slots, t # s PROVE pend[t].id # g
    <3>1. CASE HasSlot(pend, g)
      BY <1>1, <1>2, <2>2, <3>1 DEF IsSlotFor, SlotsOK
    <3>2. CASE ~HasSlot(pend, g)
      BY <3>2 DEF HasSlot
    <3> QED BY <3>1, <3>2
  <2>3. /\ pending'[s] = [id |-> g, rule |-> r, lock |-> wait]
        /\ \A t \in Slots : t # s => pending'[t] = pend[t]
    BY <1>1 DEF SlotsOK
  <2>4. \A t, u \in Slots : pending'[t].id = pending'[u].id => t = u \/ pending'[t].id = NoGoal
    BY <2>2, <2>3 DEF SlotsOK
  <2>5. pending' \in [Slots -> SlotType] BY <1>1, <2>1 DEF SlotsOK
  <2>6. ASSUME NEW t \in Slots
        PROVE  /\ pending'[t].lock \subseteq active
               /\ IF pending'[t].id = NoGoal THEN pending'[t] = FreeSlot
                  ELSE pending'[t].rule \in Rules /\ GoalOf[pending'[t].rule] = pending'[t].id
    BY <1>2, <2>3 DEF SlotsOK
  <2> QED BY <1>1, <2>4, <2>5, <2>6 DEF SlotsOK
<1>5. MsgsOK(msgs, clock)'
  <2>1. new \in Message /\ new.at = clock + 1 /\ new.rule = r /\ new.goal = g
    BY <1>2 DEF Msg, Message
  <2>2. MsgsOK(q, clock + 2) BY <1>2, LaterOK
  <2> QED BY <1>1, <1>2, <2>1, <2>2 DEF MsgsOK
<1>6. Accounted(pending, msgs, count, lost)'
  <2>1. new \notin q
    <3>1. new.at = clock + 1 BY DEF Msg
    <3> QED BY <1>2, <3>1 DEF MsgsOK
  <2>2. QueuedIn(msgs') = QueuedIn(q) \cup {new} /\ new \notin QueuedIn(q)
    BY <1>1, <2>1 DEF QueuedIn, Msg
  <2>3. IsFiniteSet(QueuedIn(msgs')) /\ lost' \in Nat /\ count' = Cardinality(QueuedIn(msgs')) + lost'
    <3>1. /\ IsFiniteSet(QueuedIn(q)) /\ lost' \in Nat /\ n = Cardinality(QueuedIn(q)) + lost'
          /\ Cardinality(QueuedIn(q)) \in Nat
      BY FS_CardinalityType DEF Accounted
    <3>2. /\ IsFiniteSet(QueuedIn(q) \cup {new})
          /\ Cardinality(QueuedIn(q) \cup {new}) = Cardinality(QueuedIn(q)) + 1
      BY <2>2, <3>1, FS_AddElement
    <3>3. Cardinality(QueuedIn(msgs')) = Cardinality(QueuedIn(q)) + 1 BY <2>2, <3>2
    <3>4. count' = n + 1 BY <1>1
    <3> QED BY <2>2, <3>1, <3>2, <3>3, <3>4
  <2>4. ASSUME NEW m \in QueuedIn(q) PROVE pending'[m.slot].id = m.goal
    <3>1. m.slot \in Slots /\ m.goal \in Goals /\ pend[m.slot].id = m.goal
      BY DEF MsgsOK, QueuedIn, Message, Accounted
    <3>2. CASE m.slot = s
      BY <1>1, <3>1, <3>2, TableTypes DEF IsSlotFor, IsFree, SlotsOK
    <3>3. CASE m.slot # s
      BY <1>1, <3>1, <3>3 DEF SlotsOK
    <3> QED BY <3>2, <3>3
  <2>5. pending'[new.slot].id = new.goal
    BY <1>1 DEF Msg, SlotsOK
  <2> QED BY <2>2, <2>3, <2>4, <2>5 DEF Accounted
<1>7. GoalsCompatible' BY <1>1 DEF IInv, GoalsCompatible
<1> QED BY <1>3, <1>4, <1>5, <1>6, <1>7 DEF IInv

(***************************************************************************)
(* Delivering one message.                                                 *)
(***************************************************************************)
\* The message being handled leaves the queue, which shrinks with it.
LEMMA WithoutHandled ==
    ASSUME IInv, NEW m \in msgs, IsDecision(m)
    PROVE  /\ MsgsOK(msgs \ {m}, clock)
           /\ Accounted(pending, msgs \ {m}, QueueSize(m), lost)
<1>1. MsgsOK(msgs \ {m}, clock) BY SubsetOK DEF IInv
<1>2. /\ IsFiniteSet(QueuedIn(msgs)) /\ count = Cardinality(QueuedIn(msgs)) + lost /\ lost \in Nat
      /\ Cardinality(QueuedIn(msgs)) \in Nat
  BY FS_CardinalityType DEF IInv, Accounted
<1>3. CASE m.kind = "queued"
  <2>1. QueuedIn(msgs \ {m}) = QueuedIn(msgs) \ {m} /\ m \in QueuedIn(msgs)
    BY <1>3 DEF QueuedIn
  <2>2. /\ IsFiniteSet(QueuedIn(msgs) \ {m})
        /\ Cardinality(QueuedIn(msgs) \ {m}) = Cardinality(QueuedIn(msgs)) - 1
    BY <1>2, <2>1, FS_RemoveElement
  <2>3. QueueSize(m) = Cardinality(QueuedIn(msgs \ {m})) + lost
    <3>1. QueueSize(m) = count - 1 BY <1>3 DEF QueueSize
    <3>2. Cardinality(QueuedIn(msgs \ {m})) = Cardinality(QueuedIn(msgs)) - 1 BY <2>1, <2>2
    <3> QED BY <1>2, <3>1, <3>2
  <2> QED BY <1>1, <1>2, <2>1, <2>2, <2>3 DEF IInv, Accounted
<1>4. CASE m.kind # "queued"
  <2>1. QueuedIn(msgs \ {m}) = QueuedIn(msgs) BY <1>4 DEF QueuedIn
  <2> QED BY <1>1, <1>4, <2>1 DEF IInv, Accounted, QueueSize
<1> QED BY <1>3, <1>4

\* Flushing leaves no queued message.
LEMMA WithoutQueued ==
    ASSUME IInv, NEW m
    PROVE  /\ MsgsOK((msgs \ {m}) \ QueuedIn(msgs), clock)
           /\ Accounted(EmptyQueue, (msgs \ {m}) \ QueuedIn(msgs), 0, 0)
<1>1. MsgsOK((msgs \ {m}) \ QueuedIn(msgs), clock) BY SubsetOK DEF IInv
<1>2. QueuedIn((msgs \ {m}) \ QueuedIn(msgs)) = {} BY DEF QueuedIn
<1> QED BY <1>1, <1>2, NoneQueued

\* Dequeuing a goal that others exclude: the messages that go are those of the
\* slots that go, because such a goal has one rule (DequeGoal looks for the
\* rule of the slot).
LEMMA WithoutExcluded ==
    ASSUME IInv, NEW m \in msgs, IsDecision(m), NEW g \in Goals
    PROVE  LET rest == msgs \ {m}
               out  == Dequeued(rest, pending, Excluded(g))
               pend == SlotsAfterDeque(pending, Excluded(g))
           IN  /\ SlotsOK(pend, active)
               /\ MsgsOK(rest \ out, clock)
               /\ Accounted(pend, rest \ out, QueueSize(m) - Cardinality(out), lost)
<1> DEFINE rest == msgs \ {m}
           out  == Dequeued(rest, pending, Excluded(g))
           pend == SlotsAfterDeque(pending, Excluded(g))
<1>1. SlotsOK(pend, active)
  BY SlotsType DEF IInv, SlotsOK, SlotsAfterDeque, FreeSlot
<1>2. MsgsOK(rest, clock) /\ Accounted(pending, rest, QueueSize(m), lost) BY WithoutHandled
<1>3. MsgsOK(rest \ out, clock) BY <1>2, SubsetOK
<1>4. out \subseteq QueuedIn(rest) /\ QueuedIn(rest \ out) = QueuedIn(rest) \ out
  BY DEF Dequeued, QueuedIn
<1>5. /\ IsFiniteSet(QueuedIn(rest \ out))
      /\ lost \in Nat /\ QueueSize(m) - Cardinality(out) = Cardinality(QueuedIn(rest \ out)) + lost
  <2>1. /\ IsFiniteSet(QueuedIn(rest)) /\ QueueSize(m) = Cardinality(QueuedIn(rest)) + lost
        /\ lost \in Nat /\ Cardinality(QueuedIn(rest)) \in Nat
    BY <1>2, FS_CardinalityType DEF Accounted
  <2>2. IsFiniteSet(out) /\ Cardinality(out) \in Nat BY <1>4, <2>1, FS_Subset, FS_CardinalityType
  <2>3. QueuedIn(rest) \cap out = out BY <1>4
  <2>4. /\ IsFiniteSet(QueuedIn(rest) \ out)
        /\ Cardinality(QueuedIn(rest) \ out)
             = Cardinality(QueuedIn(rest)) - Cardinality(QueuedIn(rest) \cap out)
    BY <2>1, FS_Difference
  <2>5. Cardinality(QueuedIn(rest \ out)) = Cardinality(QueuedIn(rest)) - Cardinality(out)
    BY <1>4, <2>3, <2>4
  <2>6. IsFiniteSet(QueuedIn(rest \ out)) BY <1>4, <2>4
  <2> HIDE DEF rest, out
  <2> QED BY <2>1, <2>2, <2>5, <2>6
<1>6. ASSUME NEW n \in QueuedIn(rest \ out) PROVE pend[n.slot].id = n.goal
  <2>1. n \in QueuedIn(rest) /\ n \in rest /\ n \notin out /\ n.kind = "queued"
    BY DEF QueuedIn
  <2>2. n.slot \in Slots /\ n.goal \in Goals /\ n.rule \in Rules /\ n.goal = GoalOf[n.rule]
    BY <1>2, <2>1 DEF MsgsOK, Message, IsDecision
  <2>3. pending[n.slot].id = n.goal BY <1>2, <2>1 DEF Accounted
  <2>4. CASE n.goal \in Excluded(g)
    <3>1. n.goal = Exclusive[g] BY <2>4 DEF Excluded
    <3>2. pending[n.slot].rule \in Rules /\ GoalOf[pending[n.slot].rule] = n.goal
      BY <2>2, <2>3, TableTypes DEF IInv, SlotsOK
    <3>3. pending[n.slot].rule = n.rule BY <2>2, <3>1, <3>2, ExclusiveGoals
    <3>4. n \in out BY <2>1, <2>2, <2>3, <2>4, <3>3 DEF Dequeued
    <3> QED BY <2>1, <3>4
  <2>5. CASE n.goal \notin Excluded(g)
    BY <2>2, <2>3, <2>5 DEF SlotsAfterDeque
  <2> QED BY <2>4, <2>5
<1> HIDE DEF rest, out, pend
<1>7. Accounted(pend, rest \ out, QueueSize(m) - Cardinality(out), lost)
  BY <1>5, <1>6 DEF Accounted
<1> QED BY <1>1, <1>3, <1>7 DEF rest, out, pend

LEMMA DecisionFacts ==
    ASSUME IInv, NEW m \in msgs, IsDecision(m)
    PROVE  /\ m.rule \in Rules /\ m.goal \in Goals /\ m.goal = GoalOf[m.rule]
           /\ clock \in Nat /\ active \in SUBSET Goals
           /\ SlotsOK(pending, active) /\ ProcsOK(proc) /\ MsgsOK(msgs, clock)
BY DEF IInv, RestOK, MsgsOK, Message, IsDecision

\* GoalsEngine_ActivateGoal, one step per branch.
LEMMA ActivateGoalStep ==
    ASSUME IInv, NEW m \in msgs, ActivateGoal(m)
    PROVE  IInv'
<1>1. IsDecision(m) BY DEF ActivateGoal
<1> USE DecisionFacts, <1>1
<1>2. CASE IgnoreDuplicate(m)
  <2>1. /\ active' = active /\ clock' = clock
        /\ msgs' = (msgs \ {m}) \ QueuedIn(msgs) /\ pending' = EmptyQueue
        /\ count' = 0 /\ lost' = 0
    BY <1>2 DEF IgnoreDuplicate
  <2>2. MsgsOK(msgs, clock)' /\ Accounted(pending, msgs, count, lost)' BY <2>1, WithoutQueued
  <2>3. SlotsOK(pending, active)' BY <2>1, EmptyQueueOK
  <2>4. RestOK' /\ GoalsCompatible' BY <1>2 DEF IgnoreDuplicate, IInv, RestOK, GoalsCompatible
  <2> QED BY <2>2, <2>3, <2>4 DEF IInv
<1>3. CASE RunNow(m)
  <2>1. active = {} /\ StartGoal(m.goal, msgs \ {m}, pending, QueueSize(m), proc) /\ lost' = lost
    BY <1>3 DEF RunNow, CanRunNow
  <2> QED BY <2>1, WithoutHandled, StartGoalStep
<1>4. CASE FlushAndRun(m)
  <2>1. active = {} /\ StartGoal(m.goal, (msgs \ {m}) \ QueuedIn(msgs), EmptyQueue, 0, proc) /\ lost' = 0
    BY <1>4 DEF FlushAndRun
  <2> QED BY <2>1, WithoutQueued, EmptyQueueOK, StartGoalStep
<1>5. CASE FlushCancelAndWait(m)
  <2> DEFINE q == MsgsAfterCancel((msgs \ {m}) \ QueuedIn(msgs), active)
  <2>1. QueueGoal(m.goal, m.rule, active, q, EmptyQueue, 0, ProcsAfterCancel(active)) /\ lost' = 0
    BY <1>5 DEF FlushCancelAndWait
  <2>2. MsgsOK(q, clock + 1) /\ QueuedIn(q) = QueuedIn((msgs \ {m}) \ QueuedIn(msgs))
        /\ ProcsOK(ProcsAfterCancel(active))
    BY WithoutQueued, CancelOK
  <2>3. Accounted(EmptyQueue, q, 0, 0) BY <2>2, WithoutQueued DEF Accounted
  <2> HIDE DEF q
  <2> QED BY <2>1, <2>2, <2>3, EmptyQueueOK, QueueGoalStep
<1>6. CASE RunBeside(m)
  <2>1. active \subseteq Concurrent[m.goal]
        /\ StartGoal(m.goal, msgs \ {m}, pending, QueueSize(m), proc) /\ lost' = lost
    BY <1>6 DEF RunBeside, WaitFor
  <2> QED BY <2>1, WithoutHandled, StartGoalStep
<1>7. CASE WaitInQueue(m)
  <2> DEFINE out  == Dequeued(msgs \ {m}, pending, Excluded(m.goal))
             pend == SlotsAfterDeque(pending, Excluded(m.goal))
             q    == MsgsAfterCancel((msgs \ {m}) \ out, Excluded(m.goal))
             n    == QueueSize(m) - Cardinality(out)
  <2>1. QueueGoal(m.goal, m.rule, WaitFor(m.goal), q, pend, n, ProcsAfterCancel(Excluded(m.goal)))
        /\ lost' = lost
    BY <1>7 DEF WaitInQueue
  <2>2. WaitFor(m.goal) \in SUBSET active BY DEF WaitFor
  <2>3. Excluded(m.goal) \in SUBSET Goals BY DEF Excluded
  <2>4. /\ SlotsOK(pend, active)
        /\ MsgsOK((msgs \ {m}) \ out, clock)
        /\ Accounted(pend, (msgs \ {m}) \ out, n, lost)
    BY WithoutExcluded
  <2>5. MsgsOK(q, clock + 1) /\ QueuedIn(q) = QueuedIn((msgs \ {m}) \ out)
        /\ ProcsOK(ProcsAfterCancel(Excluded(m.goal)))
    BY <2>3, <2>4, CancelOK
  <2>6. Accounted(pend, q, n, lost) BY <2>4, <2>5 DEF Accounted
  <2> HIDE DEF q, pend, n
  <2> QED BY <2>1, <2>2, <2>4, <2>5, <2>6, QueueGoalStep
<1>8. CASE SlotsExhausted(m)
  BY <1>8 DEF SlotsExhausted, IInv, RestOK, GoalsCompatible
\* The ignored message leaves the queue, but not its count.
<1>9. CASE IgnoreNone(m)
  <2>1. /\ msgs' = msgs \ {m} /\ lost' = IF m.kind = "queued" THEN lost + 1 ELSE lost
        /\ UNCHANGED <<active, pending, count, clock, proc, decisions, recommended, panicked>>
    BY <1>9 DEF IgnoreNone, Ignore
  <2>2. MsgsOK(msgs \ {m}, clock) /\ Accounted(pending, msgs \ {m}, QueueSize(m), lost)
    BY WithoutHandled
  <2> DEFINE rest == QueuedIn(msgs \ {m})
  <2>3. lost \in Nat /\ QueueSize(m) = Cardinality(rest) + lost /\ Cardinality(rest) \in Nat
    BY <2>2, FS_CardinalityType DEF Accounted
  <2>6. count \in Nat BY SizeIsNat DEF IInv
  <2>7. lost' \in Nat /\ count = Cardinality(rest) + lost'
    BY <2>1, <2>3, <2>6 DEF QueueSize
  <2>4. Accounted(pending, msgs \ {m}, count, lost')
    BY <2>2, <2>7 DEF Accounted
  <2>5. RestOK' /\ GoalsCompatible' BY <2>1 DEF IInv, RestOK, ProcsOK, GoalsCompatible
  <2> QED BY <2>1, <2>2, <2>4, <2>5 DEF IInv
<1> QED BY <1>2, <1>3, <1>4, <1>5, <1>6, <1>7, <1>8, <1>9 DEF ActivateGoal

\* GoalsEngine_ClearGoal: the locks lose the goal together with the mask of
\* active goals.
LEMMA ClearGoalStep ==
    ASSUME IInv, NEW m \in msgs, ConfirmCancel(m) \/ FinishProcedure(m)
    PROVE  IInv'
<1> DEFINE g == m.goal
<1>1. /\ active' = active \ {g} /\ ClearGoal(g)
      /\ m.kind # "queued" /\ msgs' = msgs \ {m} /\ count' = count /\ clock' = clock
      /\ UNCHANGED <<decisions, recommended, lost, panicked>>
      /\ ProcsOK(proc')
  BY DEF ConfirmCancel, FinishProcedure, TakeAnswer, ClearGoal, IInv, RestOK, ProcsOK
<1>2. RestOK' BY <1>1 DEF IInv, RestOK
<1>3. SlotsOK(pending, active)' /\ \A s \in Slots : pending'[s].id = pending[s].id
  <2>1. ASSUME NEW s \in Slots
        PROVE  /\ pending'[s] \in SlotType
               /\ pending'[s].id = pending[s].id
               /\ pending'[s].rule = pending[s].rule
               /\ pending'[s].lock \subseteq active \ {g}
               /\ pending[s].id = NoGoal => pending'[s] = FreeSlot
    <3>1. pending[s] \in SlotType /\ pending[s].lock \subseteq active
      BY DEF IInv, SlotsOK
    <3>2. CASE pending[s].id = NoGoal
      <4>1. pending'[s] = pending[s] BY <1>1, <3>2 DEF ClearGoal
      <4>2. pending[s] = FreeSlot BY <3>2 DEF IInv, SlotsOK
      <4>3. pending[s].lock = {} BY <4>2 DEF FreeSlot
      <4> QED BY <3>1, <4>1, <4>2, <4>3
    <3>3. CASE pending[s].id # NoGoal
      <4>1. pending'[s] = [pending[s] EXCEPT !.lock = pending[s].lock \ {g}]
        BY <1>1, <3>3 DEF ClearGoal
      <4> QED BY <3>1, <3>3, <4>1 DEF SlotType
    <3> QED BY <3>2, <3>3
  <2>2. pending' \in [Slots -> SlotType] BY <1>1, <2>1 DEF ClearGoal
  <2> QED BY <1>1, <2>1, <2>2 DEF IInv, SlotsOK
<1>4. MsgsOK(msgs, clock)' BY <1>1, SubsetOK DEF IInv
<1>5. Accounted(pending, msgs, count, lost)'
  <2>1. QueuedIn(msgs') = QueuedIn(msgs) BY <1>1 DEF QueuedIn
  <2>2. \A n \in QueuedIn(msgs) : n.slot \in Slots BY DEF IInv, MsgsOK, QueuedIn, Message
  <2> QED BY <1>1, <1>3, <2>1, <2>2 DEF IInv, Accounted
<1>6. GoalsCompatible' BY <1>1 DEF IInv, GoalsCompatible
<1> QED BY <1>2, <1>3, <1>4, <1>5, <1>6 DEF IInv

\* A message that is not a queued decision is posted.
LEMMA PostStep ==
    ASSUME IInv, NEW m \in Message, m.kind # "queued", m.at = clock,
           IsDecision(m) => GoalOf[m.rule] = m.goal,
           msgs' = msgs \cup {m}, clock' = clock + 1, decisions' \in Nat,
           UNCHANGED <<active, pending, count, proc, recommended, lost, panicked>>
    PROVE  IInv'
<1>1. RestOK' /\ GoalsCompatible' BY DEF IInv, RestOK, GoalsCompatible
<1>2. SlotsOK(pending, active)' BY DEF IInv
<1>3. clock \in Nat BY DEF IInv, RestOK
<1>4. MsgsOK(msgs, clock + 1) BY <1>3, LaterOK DEF IInv
<1>5. MsgsOK(msgs, clock)' BY <1>3, <1>4 DEF MsgsOK
<1>6. QueuedIn(msgs') = QueuedIn(msgs) BY DEF QueuedIn
<1>7. Accounted(pending, msgs, count, lost)' BY <1>6 DEF IInv, Accounted
<1> QED BY <1>1, <1>2, <1>5, <1>7 DEF IInv

\* What HDMA does changes the recommendation, and can take back a decision that
\* is not in the engine's queue.
HdmaActs == HandleHDMARequest \/ HandleHDMACancelHandover \/ CreateHdma

LEMMA HdmaFacts ==
    ASSUME HdmaActs
    PROVE  /\ recommended' \in BOOLEAN /\ ~panicked
           /\ msgs' \subseteq msgs /\ \A m \in msgs : m.kind # "decision" => m \in msgs'
           /\ UNCHANGED <<active, pending, count, clock, proc, decisions, lost, panicked>>
BY DEF HdmaActs, HandleHDMARequest, HandleHDMACancelHandover, CreateHdma, Recommend, IsHandoverDecision

LEMMA HdmaStep ==
    ASSUME IInv, HdmaActs
    PROVE  IInv'
<1> USE HdmaFacts
<1>1. RestOK' /\ GoalsCompatible' BY DEF IInv, RestOK, ProcsOK, GoalsCompatible
<1>2. SlotsOK(pending, active)' BY DEF IInv
<1>3. MsgsOK(msgs, clock)' BY DEF IInv, MsgsOK
<1>4. QueuedIn(msgs') = QueuedIn(msgs) BY DEF QueuedIn
<1>5. Accounted(pending, msgs, count, lost)' BY <1>4 DEF IInv, Accounted
<1> QED BY <1>1, <1>2, <1>3, <1>5 DEF IInv

LEMMA NextStep == IInv /\ [Next]_vars => IInv'
<1> SUFFICES ASSUME IInv, [Next]_vars PROVE IInv'
  OBVIOUS
<1>1. CASE Deliver
  <2>1. PICK m \in msgs : ActivateGoal(m) \/ ConfirmCancel(m) \/ FinishProcedure(m)
    BY <1>1 DEF Deliver
  <2> QED BY <2>1, ActivateGoalStep, ClearGoalStep
<1>2. ASSUME NEW r \in Rules, Decide(r) PROVE IInv'
  <2> DEFINE m == Msg("decision", r, GoalOf[r], 1, clock)
  <2>1. m \in Message /\ m.kind = "decision" /\ m.at = clock /\ GoalOf[m.rule] = m.goal
    BY TableTypes, SlotsType DEF IInv, RestOK, Msg, Message
  <2>2. decisions' \in Nat BY <1>2 DEF Decide, IInv, RestOK
  <2> HIDE DEF m
  <2>3. msgs' = msgs \cup {m} /\ clock' = clock + 1
        /\ UNCHANGED <<active, pending, count, proc, recommended, lost, panicked>>
    BY <1>2 DEF Decide, m
  <2> QED BY <2>1, <2>2, <2>3, PostStep
<1>3. ASSUME NEW g \in Goals, Respond(g) PROVE IInv'
  <2> DEFINE m == Msg("response", NoRule, g, 1, clock)
  <2>1. m \in Message /\ m.kind = "response" /\ m.at = clock
    BY SlotsType DEF IInv, RestOK, Msg, Message
  <2>2. ~IsDecision(m) BY DEF IsDecision, Msg
  <2> HIDE DEF m
  <2>3. msgs' = msgs \cup {m} /\ clock' = clock + 1 /\ decisions' \in Nat
        /\ UNCHANGED <<active, pending, count, proc, recommended, lost, panicked>>
    BY <1>3 DEF Respond, m, IInv, RestOK
  <2> QED BY <2>1, <2>2, <2>3, PostStep
<1>4. CASE UNCHANGED vars
  BY <1>4 DEF vars, IInv, RestOK, ProcsOK, SlotsOK, MsgsOK, Accounted, GoalsCompatible
<1>5. CASE HdmaActs BY <1>5, HdmaStep
<1> QED BY <1>1, <1>2, <1>3, <1>4, <1>5 DEF Next, HdmaActs

LEMMA InitStep == Init => IInv
<1> SUFFICES ASSUME Init PROVE IInv
  OBVIOUS
<1>1. RestOK /\ GoalsCompatible BY DEF Init, RestOK, ProcsOK, GoalsCompatible
<1>2. SlotsOK(pending, active) BY EmptyQueueOK DEF Init
<1>3. MsgsOK(msgs, clock) BY DEF Init, MsgsOK
<1>4. QueuedIn(msgs) = {} BY DEF Init, QueuedIn
<1>5. Accounted(pending, msgs, count, lost) BY <1>4, NoneQueued DEF Init
<1> QED BY <1>1, <1>2, <1>3, <1>5 DEF IInv

(***************************************************************************)
(* The theorems.                                                           *)
(***************************************************************************)
\* The inductive invariant holds: whatever is decided, cancelled and answered,
\* slots, messages and the queue's size stay consistent with each other.
THEOREM Inductive == Spec => []IInv
BY InitStep, NextStep, PTL DEF Spec

\* Every variable stays in its type, and queue_msg_count never wraps below zero.
THEOREM TypeCorrect == Spec => []TypeOK
<1>1. IInv => TypeOK
  BY SizeIsNat DEF IInv, RestOK, ProcsOK, SlotsOK, MsgsOK, Accounted, TypeOK
<1> QED BY <1>1, Inductive, PTL

\* No queued goal waits for a goal that is not active, so ClearGoal will
\* eventually have released every bit of its lock.
THEOREM NoStaleLock == Spec => []LocksHeldByActive
<1>1. IInv => LocksHeldByActive BY DEF IInv, SlotsOK, LocksHeldByActive
<1> QED BY <1>1, Inductive, PTL

\* queue_msg_count counts the queued messages and the queued handovers that were
\* ignored since the last flush, and each message is conditional on the slot of its
\* own goal, however the queue was flushed, dequeued and reset.
THEOREM QueueIsAccounted == Spec => []QueueAccounted
<1>1. IInv => QueueAccounted BY DEF IInv, Accounted, QueueAccounted
<1> QED BY <1>1, Inductive, PTL

\* A goal never takes a second slot of the pending queue.
THEOREM NoSecondSlot == Spec => []OneSlotPerGoal
<1>1. IInv => OneSlotPerGoal BY DEF IInv, SlotsOK, OneSlotPerGoal, IsFree
<1> QED BY <1>1, Inductive, PTL

\* Goals are only active together when the table lists them as concurrent.
THEOREM Compatible == Spec => []GoalsCompatible
<1>1. IInv => GoalsCompatible BY DEF IInv
<1> QED BY <1>1, Inductive, PTL

(***************************************************************************)
(* What is executed.                                                       *)
(***************************************************************************)
ConfirmsLate(g) == g \in Scripted \cup AsyncCancel

Confirming(q, g) == \E m \in q : m.kind = "cancelled" /\ m.goal = g

\* Of a goal that confirms late, or of any that runs, a procedure that is not
\* idle says as much as the mask; a confirmation is on its way for the others.
Executed(act, q, procs) ==
    /\ \A g \in act : procs[g] # "idle" \/ Confirming(q, g)
    /\ \A g \in Goals : ConfirmsLate(g) /\ procs[g] # "idle" => g \in act
    /\ \A m \in q : m.kind = "cancelled" => ~ConfirmsLate(m.goal)

\* No two decisions have the same stamp.
Stamps(q) == \A m, n \in q : IsDecision(m) /\ IsDecision(n) /\ m.at = n.at => m = n

Full(pend) == \A s \in Slots : ~IsFree(pend, s)

ExecInv ==
    /\ IInv
    /\ Executed(active, msgs, proc)
    /\ Stamps(msgs)
    /\ panicked => Full(pending)

(***************************************************************************)
(* Activating a goal, as far as execution and delivery are concerned: it   *)
(* starts, or it is queued after the goals of D have been cancelled.       *)
(***************************************************************************)
Started(m) ==
    /\ active' = active \cup {m.goal} /\ recommended' = recommended
    /\ proc' = [proc EXCEPT ![m.goal] = "running"]
    /\ panicked' = (m.goal \in Scripted /\ \E h \in Scripted : proc[h] # "idle")
    /\ msgs' \subseteq msgs \ {m}
    /\ \A n \in msgs : ~IsDecision(n) => n \in msgs'
    /\ \/ active = {} /\ (QueuedIn(msgs) = {} \/ m.kind = "queued") /\ msgs' = msgs \ {m}
       \/ active = {} /\ Contention[m.goal] = "cancel"
       \/ active \subseteq Concurrent[m.goal] /\ Contention[m.goal] = "concurrent" /\ msgs' = msgs \ {m}

Queued(m, D) ==
    /\ active' = active /\ panicked' = panicked /\ recommended' = recommended
    /\ proc' = ProcsAfterCancel(D)
    /\ \E new \in msgs' :
          /\ new.kind = "queued" /\ new.goal = m.goal /\ new.rule = m.rule /\ new.at = clock + 1
          /\ \A n \in msgs' :
                \/ n = new
                \/ n \in msgs \ {m} /\ (n.kind = "queued" => n.goal \notin D)
                     /\ (n.kind = "response" => n.goal \notin AtOnce(D))
                \/ n.kind = "cancelled" /\ n.goal \in AtOnce(D) /\ n.at = clock
    /\ \A n \in msgs : ~IsDecision(n) => n \in msgs' \/ (n.kind = "response" /\ n.goal \in AtOnce(D))
    /\ \A g \in AtOnce(D) : Confirming(msgs', g)
    /\ \/ Contention[m.goal] = "cancel"
       \/ /\ D = Excluded(m.goal)
          /\ \A n \in msgs \ {m} : IsDecision(n) /\ n.goal \notin D => n \in msgs'

LEMMA QueuedAfterCancel ==
    ASSUME IInv, NEW m \in msgs, IsDecision(m), NEW D \in SUBSET Goals, NEW wait, NEW pend, NEW n,
           NEW q \in SUBSET (msgs \ {m}), \A o \in msgs : ~IsDecision(o) => o \in q,
           \A o \in QueuedIn(q) : o.goal \notin D,
           \/ Contention[m.goal] = "cancel"
           \/ D = Excluded(m.goal) /\ \A o \in msgs \ {m} : IsDecision(o) /\ o.goal \notin D => o \in q,
           QueueGoal(m.goal, m.rule, wait, MsgsAfterCancel(q, D), pend, n, ProcsAfterCancel(D))
    PROVE  Queued(m, D)
<1> DEFINE cfms == {Msg("cancelled", NoRule, g, 1, clock) : g \in AtOnce(D)}
           kept == {o \in q : ~(o.kind = "response" /\ o.goal \in AtOnce(D))}
<1>1. PICK s \in Slots : msgs' = MsgsAfterCancel(q, D) \cup {Msg("queued", m.rule, m.goal, s, clock + 1)}
  BY DEF QueueGoal
<1> DEFINE new == Msg("queued", m.rule, m.goal, s, clock + 1)
<1>2. active' = active /\ panicked' = panicked /\ recommended' = recommended /\ proc' = ProcsAfterCancel(D)
  BY DEF QueueGoal
<1>3. msgs' = kept \cup cfms \cup {new} BY <1>1 DEF MsgsAfterCancel
<1>4. new.kind = "queued" /\ new.goal = m.goal /\ new.rule = m.rule /\ new.at = clock + 1
  BY DEF Msg
<1>5. \A c \in cfms : c.kind = "cancelled" /\ c.goal \in AtOnce(D) /\ c.at = clock BY DEF Msg
<1>6. ASSUME NEW g \in AtOnce(D) PROVE \E c \in cfms : c.goal = g
  <2>1. Msg("cancelled", NoRule, g, 1, clock) \in cfms OBVIOUS
  <2> QED BY <2>1 DEF Msg
<1>7. ASSUME NEW o \in kept
      PROVE  /\ o \in msgs \ {m} /\ (o.kind = "queued" => o.goal \notin D)
             /\ o.kind = "response" => o.goal \notin AtOnce(D)
  BY DEF QueuedIn
<1>8. \A o \in q : o \in kept \/ (o.kind = "response" /\ o.goal \in AtOnce(D)) OBVIOUS
<1> HIDE DEF new, cfms, kept
<1>9. \A g \in AtOnce(D) : Confirming(msgs', g)
  <2> TAKE g \in AtOnce(D)
  <2>1. PICK c \in cfms : c.goal = g BY <1>6
  <2> QED BY <1>3, <1>5, <2>1 DEF Confirming
<1>10. \A o \in msgs : ~IsDecision(o) => o \in msgs' \/ (o.kind = "response" /\ o.goal \in AtOnce(D))
  BY <1>3, <1>8
<1>11. new \in msgs' /\ \A o \in msgs' : o = new \/ o \in kept \/ o \in cfms BY <1>3
<1>12. \A o \in q : IsDecision(o) => o \in msgs' BY <1>3, <1>8 DEF IsDecision
<1> QED BY <1>2, <1>4, <1>5, <1>7, <1>9, <1>10, <1>11, <1>12 DEF Queued

LEMMA ActivateCases ==
    ASSUME IInv, NEW m \in msgs, ActivateGoal(m)
    PROVE  \/ IgnoreNone(m)
           \/ IgnoreDuplicate(m) /\ ~IsForNone(m)
           \/ Started(m) /\ ~IsForNone(m)
           \/ (\E D \in SUBSET active : Queued(m, D)) /\ ~IsForNone(m)
           \/ SlotsExhausted(m)
<1> SUFFICES ASSUME ~IgnoreNone(m), ~IsForNone(m)
             PROVE  \/ IgnoreDuplicate(m)
                    \/ Started(m)
                    \/ \E D \in SUBSET active : Queued(m, D)
                    \/ SlotsExhausted(m)
  BY DEF ActivateGoal
<1>1. IsDecision(m) BY DEF ActivateGoal
<1> USE DecisionFacts, <1>1
<1>2. \A o \in QueuedIn(msgs) : IsDecision(o) BY DEF QueuedIn, IsDecision
<1>3. CASE RunNow(m)
  <2>1. active = {} /\ StartGoal(m.goal, msgs \ {m}, pending, QueueSize(m), proc)
        /\ (QueueSize(m) = 0 \/ m.kind = "queued")
    BY <1>3 DEF RunNow, CanRunNow
  <2>2. m.kind # "queued" /\ QueueSize(m) = 0 => QueuedIn(msgs) = {}
    BY SizeIsNat DEF QueueSize, IInv
  <2> QED BY <2>1, <2>2 DEF StartGoal, Started
<1>4. CASE FlushAndRun(m)
  <2>1. active = {} /\ StartGoal(m.goal, (msgs \ {m}) \ QueuedIn(msgs), EmptyQueue, 0, proc)
        /\ Contention[m.goal] = "cancel"
    BY <1>4 DEF FlushAndRun
  <2> QED BY <1>2, <2>1 DEF StartGoal, Started
<1>5. CASE RunBeside(m)
  <2>1. active \subseteq Concurrent[m.goal] /\ Contention[m.goal] = "concurrent"
        /\ StartGoal(m.goal, msgs \ {m}, pending, QueueSize(m), proc)
    BY <1>5 DEF RunBeside, WaitFor
  <2> QED BY <2>1 DEF StartGoal, Started
<1>6. CASE FlushCancelAndWait(m)
  <2> DEFINE q == (msgs \ {m}) \ QueuedIn(msgs)
  <2>1. /\ QueueGoal(m.goal, m.rule, active, MsgsAfterCancel(q, active), EmptyQueue, 0,
                     ProcsAfterCancel(active))
        /\ Contention[m.goal] = "cancel"
    BY <1>6 DEF FlushCancelAndWait
  <2>2. q \in SUBSET (msgs \ {m}) /\ QueuedIn(q) = {} BY DEF QueuedIn
  <2>3. \A o \in msgs : ~IsDecision(o) => o \in q BY <1>2
  <2> HIDE DEF q
  <2>4. Queued(m, active) BY <2>1, <2>2, <2>3, QueuedAfterCancel
  <2> QED BY <2>4
<1>7. CASE WaitInQueue(m)
  <2> DEFINE D    == Excluded(m.goal)
             out  == Dequeued(msgs \ {m}, pending, D)
             pend == SlotsAfterDeque(pending, D)
             q    == (msgs \ {m}) \ out
             n    == QueueSize(m) - Cardinality(out)
  <2>1. QueueGoal(m.goal, m.rule, WaitFor(m.goal), MsgsAfterCancel(q, D), pend, n, ProcsAfterCancel(D))
    BY <1>7 DEF WaitInQueue
  <2>2. Accounted(pend, q, n, lost) /\ MsgsOK(q, clock) BY WithoutExcluded
  <2>3. ASSUME NEW o \in QueuedIn(q), o.goal \in D PROVE FALSE
    <3>1. pend[o.slot].id = o.goal /\ o.slot \in Slots /\ o.goal \in Goals
      BY <2>2 DEF Accounted, MsgsOK, QueuedIn, Message
    <3> QED BY <2>3, <3>1, TableTypes DEF SlotsAfterDeque, FreeSlot
  <2>4. \A o \in msgs : ~IsDecision(o) => o \in q BY DEF Dequeued, IsDecision
  <2>5. D \in SUBSET active /\ D \in SUBSET Goals /\ D = Excluded(m.goal) BY DEF Excluded
  <2>6. q \in SUBSET (msgs \ {m}) OBVIOUS
  <2>7. ASSUME NEW o \in msgs \ {m}, IsDecision(o), o.goal \notin D PROVE o \in q
    <3>1. ASSUME NEW s \in Slots, pending[s].id \in D, pending[s].rule = o.rule PROVE FALSE
      <4>1. pending[s].id \in Goals /\ GoalOf[o.rule] = o.goal
        BY <2>5, <2>7, <3>1 DEF MsgsOK
      <4>2. GoalOf[pending[s].rule] = pending[s].id BY <4>1, TableTypes DEF SlotsOK
      <4> QED BY <2>7, <3>1, <4>1, <4>2
    <3> QED BY <2>7, <3>1 DEF Dequeued
  <2> HIDE DEF D, q, pend, n
  <2>8. Queued(m, D) BY <2>1, <2>3, <2>4, <2>5, <2>6, <2>7, QueuedAfterCancel
  <2> QED BY <2>5, <2>8
<1> QED BY <1>3, <1>4, <1>5, <1>6, <1>7 DEF ActivateGoal

\* Who is idle after a cancellation: those that confirm at once, and nobody else.
LEMMA IdleAfterCancel ==
    ASSUME NEW D \in SUBSET Goals, NEW g \in Goals, ProcsOK(proc)
    PROVE  ProcsAfterCancel(D)[g] = "idle" <=> g \in AtOnce(D) \/ proc[g] = "idle"
BY DEF ProcsAfterCancel, ProcsOK

(***************************************************************************)
(* What is executed stays accounted for.                                   *)
(***************************************************************************)
LEMMA StampedBefore ==
    ASSUME IInv
    PROVE  clock \in Nat /\ \A m \in msgs : m.at \in Nat /\ m.at < clock /\ m.goal \in Goals
BY DEF IInv, RestOK, MsgsOK, Message

LEMMA ExecStarted ==
    ASSUME ExecInv, NEW m \in msgs, Started(m)
    PROVE  Executed(active', msgs', proc') /\ Stamps(msgs') /\ ~panicked'
<1>1. m.goal \in Goals /\ ProcsOK(proc) /\ active \in SUBSET Goals
  BY StampedBefore DEF ExecInv, IInv, RestOK
<1>2. /\ active' = active \cup {m.goal} /\ proc' = [proc EXCEPT ![m.goal] = "running"]
      /\ msgs' \subseteq msgs /\ \A n \in msgs : n.kind = "cancelled" => n \in msgs'
  BY DEF Started, IsDecision
<1>3. ~panicked'
  <2>1. m.goal \in Scripted => active = {} BY ScriptsRunAlone DEF Started
  <2>2. ASSUME NEW h \in Scripted, proc[h] # "idle" PROVE h \in active
    BY <2>2, TableTypes DEF ExecInv, Executed, ConfirmsLate
  <2> QED BY <2>1, <2>2 DEF Started
<1>4. ASSUME NEW h \in active' PROVE proc'[h] # "idle" \/ Confirming(msgs', h)
  <2>1. CASE h = m.goal BY <1>1, <1>2, <2>1 DEF ProcsOK
  <2>2. CASE h # m.goal
    <3>1. h \in active /\ proc'[h] = proc[h] BY <1>1, <1>2, <2>2 DEF ProcsOK
    <3> QED BY <1>2, <3>1 DEF ExecInv, Executed, Confirming
  <2> QED BY <2>1, <2>2
<1>5. \A h \in Goals : ConfirmsLate(h) /\ proc'[h] # "idle" => h \in active'
  BY <1>1, <1>2 DEF ExecInv, Executed, ProcsOK
<1>6. Stamps(msgs') BY <1>2 DEF ExecInv, Stamps
<1> QED BY <1>2, <1>3, <1>4, <1>5, <1>6 DEF ExecInv, Executed

LEMMA ExecQueued ==
    ASSUME ExecInv, NEW m \in msgs, NEW D \in SUBSET active, Queued(m, D)
    PROVE  Executed(active', msgs', proc') /\ Stamps(msgs')
<1>1. D \in SUBSET Goals /\ ProcsOK(proc) /\ active \in SUBSET Goals /\ clock \in Nat
  BY DEF ExecInv, IInv, RestOK
<1>2. \A g \in Goals : proc'[g] = "idle" <=> g \in AtOnce(D) \/ proc[g] = "idle"
  BY <1>1, IdleAfterCancel DEF Queued
<1>3. \A g \in AtOnce(D) : ~ConfirmsLate(g) BY DEF AtOnce, ConfirmsLate
<1>4. ASSUME NEW g \in active' PROVE proc'[g] # "idle" \/ Confirming(msgs', g)
  <2>1. g \in active /\ g \in Goals BY <1>1 DEF Queued
  <2>2. CASE g \in AtOnce(D) BY <2>2 DEF Queued
  <2>3. CASE g \notin AtOnce(D)
    <3>1. proc[g] # "idle" \/ Confirming(msgs, g) BY <2>1 DEF ExecInv, Executed
    <3>2. Confirming(msgs, g) => Confirming(msgs', g) BY DEF Confirming, Queued, IsDecision
    <3> QED BY <1>2, <2>1, <2>3, <3>1, <3>2
  <2> QED BY <2>2, <2>3
<1>5. \A g \in Goals : ConfirmsLate(g) /\ proc'[g] # "idle" => g \in active'
  BY <1>2 DEF ExecInv, Executed, Queued
<1>6. \A n \in msgs' : n.kind = "cancelled" => ~ConfirmsLate(n.goal)
  BY <1>3 DEF Queued, ExecInv, Executed
<1>7. Stamps(msgs')
  <2>1. PICK new \in msgs' :
          /\ new.at = clock + 1
          /\ \A n \in msgs' : n = new \/ n \in msgs \/ n.kind = "cancelled"
    BY DEF Queued
  <2>2. \A n \in msgs' : IsDecision(n) => n = new \/ n \in msgs BY <2>1 DEF IsDecision
  <2>3. \A n \in msgs : n.at < clock /\ n.at \in Nat BY StampedBefore DEF ExecInv
  <2>5. ASSUME NEW n \in msgs', NEW o \in msgs', IsDecision(n), IsDecision(o), n.at = o.at PROVE n = o
    <3>1. CASE n \in msgs /\ o \in msgs BY <2>5, <3>1 DEF ExecInv, Stamps
    <3>2. CASE n = new /\ o = new BY <3>2
    <3>3. CASE n \in msgs /\ o = new
      <4>1. n.at < clock /\ n.at \in Nat BY <2>3, <3>3
      <4> QED BY <1>1, <2>1, <2>5, <3>3, <4>1
    <3>4. CASE o \in msgs /\ n = new
      <4>1. o.at < clock /\ o.at \in Nat BY <2>3, <3>4
      <4> QED BY <1>1, <2>1, <2>5, <3>4, <4>1
    <3> QED BY <2>2, <2>5, <3>1, <3>2, <3>3, <3>4
  <2> QED BY <2>5 DEF Stamps
<1> QED BY <1>4, <1>5, <1>6, <1>7 DEF Executed

LEMMA ExecStep == ExecInv /\ [Next]_vars => ExecInv'
<1> SUFFICES ASSUME ExecInv, [Next]_vars PROVE ExecInv'
  OBVIOUS
<1>1. IInv' BY NextStep DEF ExecInv
<1>2. CASE Deliver
  <2>1. PICK m \in msgs : ActivateGoal(m) \/ ConfirmCancel(m) \/ FinishProcedure(m)
    BY <1>2 DEF Deliver
  <2>2. ~panicked BY <1>2 DEF Deliver
  <2>3. CASE ActivateGoal(m)
    <3>1. IsDecision(m) BY <2>3 DEF ActivateGoal
    <3>2. CASE IgnoreDuplicate(m) \/ IgnoreNone(m)
      <4>1. /\ UNCHANGED <<active, proc, panicked>> /\ msgs' \subseteq msgs
            /\ \A n \in msgs : n.kind = "cancelled" => n \in msgs'
        BY <3>1, <3>2 DEF IgnoreDuplicate, IgnoreNone, Ignore, QueuedIn, IsDecision
      <4>2. Executed(active', msgs', proc') /\ Stamps(msgs')
        BY <4>1 DEF ExecInv, Executed, Confirming, Stamps
      <4> QED BY <1>1, <2>2, <4>1, <4>2 DEF ExecInv
    <3>3. CASE Started(m) BY <1>1, <3>3, ExecStarted DEF ExecInv
    <3>4. CASE \E D \in SUBSET active : Queued(m, D)
      <4>1. PICK D \in SUBSET active : Queued(m, D) BY <3>4
      <4>2. panicked' = panicked BY <4>1 DEF Queued
      <4> QED BY <1>1, <2>2, <4>1, <4>2, ExecQueued DEF ExecInv
    <3>5. CASE SlotsExhausted(m)
      <4>1. /\ \A s \in Slots : ~IsFree(SlotsAfterDeque(pending, Excluded(m.goal)), s)
            /\ UNCHANGED <<active, pending, msgs, proc>>
        BY <3>5 DEF SlotsExhausted
      <4>2. Full(pending)' BY <4>1 DEF Full, IsFree, SlotsAfterDeque, FreeSlot
      <4>3. Executed(active', msgs', proc') /\ Stamps(msgs') BY <4>1 DEF ExecInv
      <4> QED BY <1>1, <4>2, <4>3 DEF ExecInv
    <3> QED BY <2>3, <3>2, <3>3, <3>4, <3>5, ActivateCases DEF ExecInv
  <2>4. CASE ConfirmCancel(m) \/ FinishProcedure(m)
    <3>1. /\ active' = active \ {m.goal} /\ msgs' = msgs \ {m} /\ panicked' = panicked
          /\ \/ m.kind = "cancelled" /\ proc' = proc
             \/ m.kind = "response" /\ proc' = [proc EXCEPT ![m.goal] = "idle"]
      BY <2>4 DEF ConfirmCancel, FinishProcedure, TakeAnswer, ClearGoal
    <3>2. m.goal \in Goals /\ ProcsOK(proc) BY StampedBefore DEF ExecInv, IInv, RestOK
    <3>3. \A g \in Goals : g # m.goal => proc'[g] = proc[g] /\ (Confirming(msgs, g) => Confirming(msgs', g))
      BY <3>1, <3>2 DEF ProcsOK, Confirming
    <3>4. m.kind = "response" => proc'[m.goal] = "idle" BY <3>1, <3>2 DEF ProcsOK
    <3>5. active \in SUBSET Goals BY DEF ExecInv, IInv, RestOK
    <3>6. Executed(active', msgs', proc') BY <3>1, <3>2, <3>3, <3>4, <3>5 DEF ExecInv, Executed
    <3>7. Stamps(msgs') BY <3>1 DEF ExecInv, Stamps
    <3> QED BY <1>1, <2>2, <3>1, <3>6, <3>7 DEF ExecInv
  <2> QED BY <2>1, <2>3, <2>4
<1>3. CASE (\E r \in Rules : Decide(r)) \/ (\E g \in Goals : Respond(g))
  <2> DEFINE Sent(m) == /\ m.kind \in {"decision", "response"} /\ m.at = clock
                        /\ msgs' = msgs \cup {m}
  <2>5. ~panicked /\ UNCHANGED <<active, proc, panicked>> BY <1>3 DEF Decide, Respond
  <2>1. PICK m : Sent(m)
    <3>1. ASSUME NEW r \in Rules, Decide(r)
          PROVE  Sent(Msg("decision", r, GoalOf[r], 1, clock))
      BY <3>1 DEF Decide, Msg
    <3>2. ASSUME NEW g \in Goals, Respond(g)
          PROVE  Sent(Msg("response", NoRule, g, 1, clock))
      BY <3>2 DEF Respond, Msg
    <3> HIDE DEF Sent
    <3> QED BY <1>3, <3>1, <3>2
  <2>2. Executed(active', msgs', proc')
    BY <2>1, <2>5 DEF ExecInv, Executed, Confirming
  <2>3. \A n \in msgs : n.at # clock BY StampedBefore DEF ExecInv
  <2>4. Stamps(msgs') BY <2>1, <2>3 DEF ExecInv, Stamps
  <2> QED BY <1>1, <2>2, <2>4, <2>5 DEF ExecInv
<1>6. CASE HdmaActs
  <2>1. Executed(active', msgs', proc') /\ Stamps(msgs')
    BY <1>6, HdmaFacts DEF ExecInv, Executed, Confirming, Stamps
  <2> QED BY <1>1, <1>6, <2>1, HdmaFacts DEF ExecInv
<1>4. CASE UNCHANGED vars
  BY <1>1, <1>4 DEF vars, ExecInv, Full, IsFree
<1> QED BY <1>2, <1>3, <1>4, <1>6 DEF Next, HdmaActs

LEMMA ExecInit == Init => ExecInv
BY InitStep, TableTypes DEF Init, ExecInv, Executed, Stamps

\* Whatever is cancelled, twice or while it completes: an active goal has a
\* procedure that will answer or a confirmation on its way, a goal that confirms
\* late is active while its procedure executes, queued decisions have an order,
\* and only a full queue panics.
THEOREM ExecInductive == Spec => []ExecInv
BY ExecInit, ExecStep, PTL DEF Spec

\* No active goal is forgotten by its procedure.
THEOREM ActiveAnswers == Spec => []ActiveIsExecuting
<1>1. ExecInv => ActiveIsExecuting BY DEF ExecInv, Executed, Confirming, ActiveIsExecuting
<1> QED BY <1>1, ExecInductive, PTL

\* The engine never starts a script beside another; it panics for want of a slot.
THEOREM PanicsForSlotsOnly == Spec => []PanicOnlyWhenFull
<1>1. ExecInv => PanicOnlyWhenFull BY DEF ExecInv, Full, PanicOnlyWhenFull
<1> QED BY <1>1, ExecInductive, PTL

\* Goals that wait their turn start in the order in which they were queued, and a
\* new decision does not start one while another is queued.
THEOREM WaitersKeepOrder == Spec => WaitersInOrder
<1> DEFINE InOrder ==
      \A m \in msgs \ msgs' :
          IsDecision(m) /\ Contention[m.goal] = "wait" /\ m.goal \in active' \ active =>
            \A n \in QueuedIn(msgs') :
                Contention[n.goal] = "wait" => m.kind = "queued" /\ n.at > m.at
<1>1. ExecInv /\ [Next]_vars => [InOrder]_vars
  <2> SUFFICES ASSUME ExecInv, Next,
                      NEW m \in msgs \ msgs', Contention[m.goal] = "wait", m.goal \in active' \ active,
                      NEW n \in QueuedIn(msgs')
               PROVE  m.kind = "queued" /\ n.at > m.at
    OBVIOUS
  <2>1. Deliver
    <3>1. ~HdmaActs BY HdmaFacts
    <3> QED BY <3>1 DEF Next, HdmaActs, Decide, Respond
  <2>2. PICK o \in msgs : Deliverable(o) /\ (ActivateGoal(o) \/ ConfirmCancel(o) \/ FinishProcedure(o))
    BY <2>1 DEF Deliver
  <2>3. ~ConfirmCancel(o) /\ ~FinishProcedure(o) BY DEF ConfirmCancel, FinishProcedure, TakeAnswer, ClearGoal
  <2>4. Started(o)
    BY <2>2, <2>3, ActivateCases DEF IgnoreNone, Ignore, IgnoreDuplicate, Queued, SlotsExhausted, ExecInv
  <2>5. active = {} /\ (QueuedIn(msgs) = {} \/ o.kind = "queued") /\ msgs' = msgs \ {o}
    BY <2>4 DEF Started
  <2>6. m = o BY <2>5
  <2>7. n \in QueuedIn(msgs) /\ n # m BY <2>5, <2>6 DEF QueuedIn
  <2>8. m \in QueuedIn(msgs) BY <2>5, <2>6, <2>7 DEF QueuedIn
  <2>9. ~Blocked(n)
    <3>1. n.slot \in Slots BY <2>7 DEF ExecInv, IInv, MsgsOK, Message, QueuedIn
    <3> QED BY <2>5, <3>1 DEF ExecInv, IInv, SlotsOK, Blocked
  <2>10. m.at =< n.at BY <2>2, <2>6, <2>7, <2>9 DEF Deliverable, QueuedIn
  <2>11. m.at # n.at BY <2>7, <2>8 DEF ExecInv, Stamps, QueuedIn, IsDecision
  <2>12. m.at \in Nat /\ n.at \in Nat BY <2>7, StampedBefore DEF ExecInv, QueuedIn
  <2> QED BY <2>8, <2>10, <2>11, <2>12 DEF QueuedIn
<1> QED BY <1>1, ExecInductive, PTL DEF Spec, WaitersInOrder

(***************************************************************************)
(* What a second confirmation of a cancellation can do, and what not.      *)
(***************************************************************************)
\* A procedure gives one answer, while it is not idle.
OneAnswer ==
    /\ \A m \in msgs : m.kind = "response" => proc[m.goal] # "idle"
    /\ \A m, n \in msgs : m.kind = "response" /\ n.kind = "response" /\ m.goal = n.goal => m = n

AnswerInv == ExecInv /\ ExecutingIsActive /\ OneAnswer

\* No goal runs again while a confirmation of its cancellation is on its way.
\* Not so in every behaviour: a goal that is cancelled twice, at once each time,
\* is confirmed twice and may run again in between (GoalsEngineStaleCancel.cfg).
NoneStale == \A c \in msgs : c.kind = "cancelled" => proc[c.goal] = "idle"

LEMMA AnswersStarted ==
    ASSUME AnswerInv, NEW m \in msgs, Started(m)
    PROVE  ExecutingIsActive' /\ OneAnswer'
<1>1. m.goal \in Goals /\ ProcsOK(proc) /\ active \in SUBSET Goals
  BY StampedBefore DEF AnswerInv, ExecInv, IInv, RestOK
<1>2. /\ active' = active \cup {m.goal} /\ msgs' \subseteq msgs
      /\ proc'[m.goal] = "running" /\ \A g \in Goals : g # m.goal => proc'[g] = proc[g]
  BY <1>1 DEF Started, ProcsOK
<1>3. ExecutingIsActive' BY <1>1, <1>2 DEF AnswerInv, ExecutingIsActive
<1>4. \A n \in msgs : n.goal \in Goals BY StampedBefore DEF AnswerInv, ExecInv
<1>5. OneAnswer' BY <1>1, <1>2, <1>4 DEF AnswerInv, OneAnswer
<1> QED BY <1>3, <1>5

LEMMA AnswersQueued ==
    ASSUME AnswerInv, NEW m \in msgs, NEW D \in SUBSET active, Queued(m, D)
    PROVE  ExecutingIsActive' /\ OneAnswer'
<1>1. D \in SUBSET Goals /\ ProcsOK(proc) BY DEF AnswerInv, ExecInv, IInv, RestOK
<1>2. active' = active /\ \A g \in Goals : proc'[g] = "idle" <=> g \in AtOnce(D) \/ proc[g] = "idle"
  BY <1>1, IdleAfterCancel DEF Queued
<1>3. \A n \in msgs' : n.kind = "response" => n \in msgs /\ n.goal \notin AtOnce(D)
  BY DEF Queued
<1>4. \A n \in msgs : n.goal \in Goals BY StampedBefore DEF AnswerInv, ExecInv
<1>5. ExecutingIsActive' BY <1>2 DEF AnswerInv, ExecutingIsActive
<1>6. OneAnswer' BY <1>2, <1>3, <1>4 DEF AnswerInv, OneAnswer
<1> QED BY <1>5, <1>6

LEMMA AnswersCleared ==
    ASSUME AnswerInv, NoneStale, NEW m \in msgs, ConfirmCancel(m) \/ FinishProcedure(m)
    PROVE  /\ ExecutingIsActive' /\ OneAnswer'
           /\ proc'[m.goal] = "idle" /\ \A g \in Goals : g # m.goal => proc'[g] = proc[g]
<1>1. /\ active' = active \ {m.goal} /\ msgs' = msgs \ {m}
      /\ \/ m.kind = "cancelled" /\ proc' = proc
         \/ m.kind = "response" /\ proc' = [proc EXCEPT ![m.goal] = "idle"]
  BY DEF ConfirmCancel, FinishProcedure, TakeAnswer, ClearGoal
<1>2. ProcsOK(proc) /\ \A n \in msgs : n.goal \in Goals
  BY StampedBefore DEF AnswerInv, ExecInv, IInv, RestOK
<1>3. m.kind = "cancelled" => proc[m.goal] = "idle" BY DEF NoneStale
<1>4. proc'[m.goal] = "idle" /\ \A g \in Goals : g # m.goal => proc'[g] = proc[g]
  BY <1>1, <1>2, <1>3 DEF ProcsOK
<1>5. ExecutingIsActive' BY <1>1, <1>4 DEF AnswerInv, ExecutingIsActive
<1>6. ASSUME NEW n \in msgs', n.kind = "response" PROVE proc'[n.goal] # "idle"
  <2>1. n \in msgs /\ n # m /\ proc[n.goal] # "idle" BY <1>1, <1>6 DEF AnswerInv, OneAnswer
  <2>2. n.goal # m.goal BY <1>1, <1>3, <1>6, <2>1 DEF AnswerInv, OneAnswer
  <2> QED BY <1>2, <1>4, <2>1, <2>2
<1>7. OneAnswer' BY <1>1, <1>6 DEF AnswerInv, OneAnswer
<1> QED BY <1>4, <1>5, <1>7

\* What the rules and the procedures post.
Posted(m) ==
    /\ m \in Message /\ m.kind \in {"decision", "response"} /\ m.at = clock
    /\ m.kind = "response" =>
         proc[m.goal] # "idle" /\ ~\E n \in msgs : n.kind = "response" /\ n.goal = m.goal
    /\ msgs' = msgs \cup {m} /\ UNCHANGED <<active, proc>>

LEMMA EnvironmentPosts ==
    ASSUME AnswerInv, (\E r \in Rules : Decide(r)) \/ (\E g \in Goals : Respond(g))
    PROVE  \E m : Posted(m)
<1>1. ASSUME NEW r \in Rules, Decide(r) PROVE \E m : Posted(m)
  <2> DEFINE m == Msg("decision", r, GoalOf[r], 1, clock)
  <2>1. m \in Message /\ m.kind = "decision" /\ m.at = clock
    BY TableTypes, SlotsType DEF AnswerInv, ExecInv, IInv, RestOK, Msg, Message
  <2>2. msgs' = msgs \cup {m} /\ UNCHANGED <<active, proc>> BY <1>1 DEF Decide
  <2> HIDE DEF m
  <2> QED BY <2>1, <2>2 DEF Posted
<1>2. ASSUME NEW g \in Goals, Respond(g) PROVE \E m : Posted(m)
  <2> DEFINE m == Msg("response", NoRule, g, 1, clock)
  <2>1. m \in Message /\ m.kind = "response" /\ m.at = clock /\ m.goal = g
    BY SlotsType DEF AnswerInv, ExecInv, IInv, RestOK, Msg, Message
  <2>2. /\ msgs' = msgs \cup {m} /\ UNCHANGED <<active, proc>>
        /\ proc[g] # "idle" /\ ~\E n \in msgs : n.kind = "response" /\ n.goal = g
    BY <1>2 DEF Respond
  <2> HIDE DEF m
  <2> QED BY <2>1, <2>2 DEF Posted
<1> QED BY <1>1, <1>2

LEMMA AnswerStep ==
    ASSUME AnswerInv, NoneStale, [Next]_vars
    PROVE  AnswerInv'
<1>1. ExecInv' BY ExecStep DEF AnswerInv
<1>2. CASE Deliver
  <2>1. PICK m \in msgs : ActivateGoal(m) \/ ConfirmCancel(m) \/ FinishProcedure(m)
    BY <1>2 DEF Deliver
  <2>2. CASE ActivateGoal(m)
    <3>1. CASE Started(m) BY <1>1, <3>1, AnswersStarted DEF AnswerInv
    <3>2. CASE \E D \in SUBSET active : Queued(m, D) BY <1>1, <3>2, AnswersQueued DEF AnswerInv
    <3>3. CASE IgnoreNone(m) \/ IgnoreDuplicate(m) \/ SlotsExhausted(m)
      <4>1. UNCHANGED <<active, proc>> /\ msgs' \subseteq msgs
        BY <3>3 DEF IgnoreNone, Ignore, IgnoreDuplicate, SlotsExhausted
      <4> QED BY <1>1, <4>1 DEF AnswerInv, OneAnswer, ExecutingIsActive
    <3> QED BY <2>2, <3>1, <3>2, <3>3, ActivateCases DEF AnswerInv, ExecInv
  <2>3. CASE ConfirmCancel(m) \/ FinishProcedure(m) BY <1>1, <2>3, AnswersCleared DEF AnswerInv
  <2> QED BY <2>1, <2>2, <2>3
<1>3. CASE (\E r \in Rules : Decide(r)) \/ (\E g \in Goals : Respond(g))
  <2>1. PICK m : Posted(m) BY <1>3, EnvironmentPosts
  <2>2. ExecutingIsActive' /\ OneAnswer'
    BY <2>1 DEF Posted, AnswerInv, OneAnswer, ExecutingIsActive
  <2> QED BY <1>1, <2>2 DEF AnswerInv
<1>4. CASE UNCHANGED vars
  BY <1>1, <1>4 DEF vars, AnswerInv, OneAnswer, ExecutingIsActive
<1>5. CASE HdmaActs
  BY <1>1, <1>5, HdmaFacts DEF AnswerInv, OneAnswer, ExecutingIsActive
<1> QED BY <1>2, <1>3, <1>4, <1>5 DEF Next, HdmaActs

LEMMA AnswerInit == Init => AnswerInv
BY ExecInit, TableTypes DEF Init, AnswerInv, ExecutingIsActive, OneAnswer

\* A goal whose procedure executes is active, in every table: ClearGoal never
\* clears it under its procedure, unless by the confirmation of an earlier
\* cancellation that comes after it was started again.
THEOREM ExecutingStaysActive == Spec /\ []NoneStale => []ExecutingIsActive
<1>1. AnswerInv /\ NoneStale /\ [Next]_vars => AnswerInv' BY AnswerStep
<1>2. AnswerInv => ExecutingIsActive BY DEF AnswerInv
<1> QED BY <1>1, <1>2, AnswerInit, PTL DEF Spec

(***************************************************************************)
(* The engine implements the abstract scheduling.                          *)
(***************************************************************************)
FiniteDecisions == IsFiniteSet({m \in msgs : IsDecision(m)})

LEMMA FiniteStep ==
    ASSUME ExecInv, FiniteDecisions, [Next]_vars
    PROVE  FiniteDecisions'
<1> DEFINE old == {m \in msgs : IsDecision(m)}
           now == {m \in msgs' : IsDecision(m)}
<1>1. \E x : now \subseteq old \cup {x}
  <2>1. CASE Deliver
    <3>1. PICK m \in msgs : ActivateGoal(m) \/ ConfirmCancel(m) \/ FinishProcedure(m)
      BY <2>1 DEF Deliver
    <3>2. CASE ActivateGoal(m)
      <4>1. CASE \E D \in SUBSET active : Queued(m, D)
        BY <4>1 DEF Queued, IsDecision
      <4>2. CASE ~\E D \in SUBSET active : Queued(m, D)
        <5>1. IgnoreNone(m) \/ IgnoreDuplicate(m) \/ Started(m) \/ SlotsExhausted(m)
          BY <3>2, <4>2, ActivateCases DEF ExecInv
        <5>2. msgs' \subseteq msgs BY <5>1 DEF IgnoreNone, Ignore, IgnoreDuplicate, Started, SlotsExhausted
        <5> QED BY <5>2
      <4> QED BY <4>1, <4>2
    <3>3. CASE ConfirmCancel(m) \/ FinishProcedure(m)
      <4>1. msgs' \subseteq msgs BY <3>3 DEF ConfirmCancel, FinishProcedure, TakeAnswer
      <4> QED BY <4>1
    <3> QED BY <3>1, <3>2, <3>3
  <2>2. CASE (\E r \in Rules : Decide(r)) \/ (\E g \in Goals : Respond(g))
    <3>1. PICK x : msgs' = msgs \cup {x} BY <2>2 DEF Decide, Respond
    <3> QED BY <3>1
  <2>3. CASE UNCHANGED vars BY <2>3 DEF vars
  <2>4. CASE HdmaActs BY <2>4, HdmaFacts
  <2> QED BY <2>1, <2>2, <2>3, <2>4 DEF Next, HdmaActs
<1>2. PICK x : now \subseteq old \cup {x} BY <1>1
<1>3. IsFiniteSet(old \cup {x}) BY FS_AddElement DEF FiniteDecisions
<1>4. IsFiniteSet(now) BY <1>2, <1>3, FS_Subset
<1> QED BY <1>4 DEF FiniteDecisions

\* What the counts of the abstract scheduling are.
LEMMA Counts ==
    ASSUME FiniteDecisions, NEW r \in Rules
    PROVE  /\ IsFiniteSet(DecisionsOf(r))
           /\ Asked[r] = Cardinality(DecisionsOf(r)) /\ Asked[r] \in Nat
           /\ DecisionsOf(r) # {} => Asked[r] > 0
<1>1. IsFiniteSet(DecisionsOf(r)) BY FS_Subset DEF FiniteDecisions, DecisionsOf
<1>2. Asked[r] = Cardinality(DecisionsOf(r)) BY DEF Asked
<1> QED BY <1>1, <1>2, FS_CardinalityType, FS_EmptySet

LEMMA CountsNext ==
    ASSUME FiniteDecisions', NEW r \in Rules
    PROVE  /\ IsFiniteSet(DecisionsOf(r)')
           /\ Asked'[r] = Cardinality(DecisionsOf(r)') /\ Asked'[r] \in Nat
           /\ DecisionsOf(r)' # {} => Asked'[r] > 0
<1>1. IsFiniteSet(DecisionsOf(r)') BY FS_Subset DEF FiniteDecisions, DecisionsOf
<1>2. Asked'[r] = Cardinality(DecisionsOf(r)') BY DEF Asked
<1> QED BY <1>1, <1>2, FS_CardinalityType, FS_EmptySet

LEMMA AskedType == FiniteDecisions' => Asked' \in [Rules -> Nat]
BY CountsNext DEF Asked

LEMMA SameCount ==
    ASSUME NEW r \in Rules, DecisionsOf(r)' = DecisionsOf(r)
    PROVE  Asked'[r] = Asked[r]
BY DEF Asked

LEMMA FewerCount ==
    ASSUME FiniteDecisions, FiniteDecisions', NEW r \in Rules, DecisionsOf(r)' \subseteq DecisionsOf(r)
    PROVE  Asked'[r] =< Asked[r]
BY Counts, CountsNext, FS_Subset

LEMMA OneLessCount ==
    ASSUME FiniteDecisions, FiniteDecisions', NEW m \in msgs, IsDecision(m), m.rule \in Rules
    PROVE  /\ msgs' = msgs \ {m} => Asked'[m.rule] = Asked[m.rule] - 1
           /\ msgs' \subseteq msgs \ {m} => Asked'[m.rule] < Asked[m.rule]
<1> DEFINE r == m.rule
<1>1. m \in DecisionsOf(r) BY DEF DecisionsOf
<1>2. /\ IsFiniteSet(DecisionsOf(r) \ {m})
      /\ Cardinality(DecisionsOf(r) \ {m}) = Asked[r] - 1 /\ Asked[r] \in Nat
  BY <1>1, Counts, FS_RemoveElement
<1>3. ASSUME msgs' \subseteq msgs \ {m} PROVE Asked'[r] =< Asked[r] - 1
  <2>1. DecisionsOf(r)' \subseteq DecisionsOf(r) \ {m} BY <1>3 DEF DecisionsOf
  <2> QED BY <1>2, <2>1, CountsNext, FS_Subset
<1>4. ASSUME msgs' = msgs \ {m} PROVE Asked'[r] = Asked[r] - 1
  <2>1. DecisionsOf(r)' = DecisionsOf(r) \ {m} BY <1>4 DEF DecisionsOf
  <2> QED BY <1>2, <2>1, CountsNext
<1>5. Asked'[r] \in Nat BY CountsNext
<1> QED BY <1>2, <1>3, <1>4, <1>5

LEMMA OneDecisionLess ==
    ASSUME FiniteDecisions, FiniteDecisions', NEW m \in msgs, IsDecision(m), m.rule \in Rules,
           msgs' = msgs \ {m}
    PROVE  Asked' = [Asked EXCEPT ![m.rule] = @ - 1]
<1>1. \A s \in Rules : s # m.rule => DecisionsOf(s)' = DecisionsOf(s) BY DEF DecisionsOf
<1>2. \A s \in Rules : s # m.rule => Asked'[s] = Asked[s] BY <1>1, SameCount
<1>3. Asked'[m.rule] = Asked[m.rule] - 1 BY OneLessCount
<1> QED BY <1>2, <1>3 DEF Asked

\* A decision that takes the place of m.
LEMMA ReplacedCount ==
    ASSUME FiniteDecisions, FiniteDecisions', NEW m \in msgs, IsDecision(m), m.rule \in Rules,
           NEW new \in msgs', IsDecision(new), new.rule = m.rule, new \notin msgs,
           \A n \in msgs' : IsDecision(n) => n = new \/ n \in msgs \ {m}
    PROVE  /\ Asked'[m.rule] > 0
           /\ \A s \in Rules : Asked'[s] =< Asked[s]
           /\ \A s \in Rules : (\A n \in DecisionsOf(s) \ {m} : n \in msgs') => Asked'[s] = Asked[s]
<1> DEFINE r == m.rule
<1>1. m \in DecisionsOf(r) /\ new \notin DecisionsOf(r) BY DEF DecisionsOf
<1>2. new \in DecisionsOf(r)' BY DEF DecisionsOf
<1>3. /\ IsFiniteSet(DecisionsOf(r) \ {m})
      /\ Cardinality(DecisionsOf(r) \ {m}) = Asked[r] - 1 /\ Asked[r] \in Nat
  BY <1>1, Counts, FS_RemoveElement
<1>4. /\ IsFiniteSet((DecisionsOf(r) \ {m}) \cup {new})
      /\ Cardinality((DecisionsOf(r) \ {m}) \cup {new}) = Asked[r]
  <2> DEFINE rest == DecisionsOf(r) \ {m}
  <2>1. IsFiniteSet(rest) /\ Cardinality(rest) = Asked[r] - 1 /\ new \notin rest BY <1>1, <1>3
  <2> HIDE DEF rest
  <2>2. IsFiniteSet(rest \cup {new}) /\ Cardinality(rest \cup {new}) = Cardinality(rest) + 1
    BY <2>1, FS_AddElement
  <2> QED BY <1>3, <2>1, <2>2 DEF rest
<1>5. DecisionsOf(r)' \subseteq (DecisionsOf(r) \ {m}) \cup {new} BY DEF DecisionsOf
<1>6. ASSUME NEW s \in Rules, s # r
      PROVE  /\ DecisionsOf(s)' \subseteq DecisionsOf(s) /\ m \notin DecisionsOf(s)
             /\ (\A n \in DecisionsOf(s) \ {m} : n \in msgs') => DecisionsOf(s)' = DecisionsOf(s)
  BY <1>6 DEF DecisionsOf
<1>7. Asked'[r] =< Asked[r] BY <1>4, <1>5, CountsNext, FS_Subset
<1>8. ASSUME \A n \in DecisionsOf(r) \ {m} : n \in msgs' PROVE Asked'[r] = Asked[r]
  <2>1. DecisionsOf(r)' = (DecisionsOf(r) \ {m}) \cup {new} BY <1>2, <1>5, <1>8 DEF DecisionsOf
  <2> QED BY <1>4, <2>1, CountsNext
<1>9. \A s \in Rules : s # r => Asked'[s] =< Asked[s] BY <1>6, FewerCount
<1>10. ASSUME NEW s \in Rules, s # r, \A n \in DecisionsOf(s) \ {m} : n \in msgs'
       PROVE  Asked'[s] = Asked[s]
  <2>1. DecisionsOf(s)' = DecisionsOf(s) BY <1>6, <1>10
  <2> QED BY <2>1, SameCount
<1>11. Asked'[r] > 0 BY <1>2, CountsNext
<1> QED BY <1>7, <1>8, <1>9, <1>10, <1>11

LEMMA ExecutingIsActiveSet ==
    ASSUME AnswerInv
    PROVE  Executing \subseteq active /\ Executing \subseteq Goals
BY DEF AnswerInv, ExecutingIsActive, Executing

LEMMA SchedulingStarted ==
    ASSUME AnswerInv, FiniteDecisions, FiniteDecisions', NEW m \in msgs, IsDecision(m), ~IsForNone(m), Started(m)
    PROVE  Scheduling!Next
<1> DEFINE r == m.rule
<1>1. r \in Rules /\ m.goal = GoalOf[r] /\ m.goal \in Goals /\ ProcsOK(proc)
  BY DecisionFacts DEF AnswerInv, ExecInv
<1>2. Asked[r] > 0 /\ Scheduling!Stands(r) /\ recommended' = recommended
  BY <1>1, Counts DEF DecisionsOf, IsForNone, Scheduling!Stands, Started, Queued
<1>3. Executing' = Executing \cup {GoalOf[r]}
  <2>1. proc'[m.goal] = "running" /\ \A g \in Goals : g # m.goal => proc'[g] = proc[g]
    BY <1>1 DEF Started, ProcsOK
  <2> QED BY <1>1, <2>1 DEF Executing
<1>4. ASSUME msgs' = msgs \ {m}, active \subseteq Concurrent[m.goal] PROVE Scheduling!Begin(r)
  <2>3. Asked' = [Asked EXCEPT ![r] = @ - 1] BY <1>1, <1>4, OneDecisionLess
  <2>4. Executing \subseteq Concurrent[GoalOf[r]] BY <1>1, <1>4, ExecutingIsActiveSet
  <2> QED BY <1>2, <1>3, <2>3, <2>4 DEF Scheduling!Begin, Scheduling!Fits
<1>5. ASSUME active = {}, Contention[m.goal] = "cancel" PROVE Scheduling!TakeOver(r)
  <2>1. msgs' \subseteq msgs \ {m} BY DEF Started
  <2>2. \A s \in Rules : Asked'[s] =< Asked[s]
    <3>1. \A s \in Rules : DecisionsOf(s)' \subseteq DecisionsOf(s) BY <2>1 DEF DecisionsOf
    <3> QED BY <3>1, FewerCount
  <2>3. Asked'[r] < Asked[r] BY <1>1, <2>1, OneLessCount
  <2>4. Executing = {} BY <1>5, ExecutingIsActiveSet
  <2> QED BY <1>1, <1>2, <1>3, <1>5, <2>2, <2>3, <2>4, AskedType DEF Scheduling!TakeOver, Scheduling!OthersDropped
<1> QED BY <1>1, <1>4, <1>5 DEF Started, Scheduling!Next

LEMMA SchedulingQueued ==
    ASSUME AnswerInv, FiniteDecisions, FiniteDecisions', NEW m \in msgs, IsDecision(m), ~IsForNone(m),
           NEW D \in SUBSET active, Queued(m, D)
    PROVE  Scheduling!Next
<1> DEFINE r == m.rule
<1>1. r \in Rules /\ m.goal = GoalOf[r] /\ m.goal \in Goals /\ ProcsOK(proc) /\ D \in SUBSET Goals
      /\ clock \in Nat
  BY DecisionFacts DEF AnswerInv, ExecInv
<1>2. Asked[r] > 0 /\ Scheduling!Stands(r) /\ recommended' = recommended
  BY <1>1, Counts DEF DecisionsOf, IsForNone, Scheduling!Stands, Started, Queued
<1>3. Executing' = Executing \ AtOnce(D)
  <2>1. \A g \in Goals : proc'[g] = "idle" <=> g \in AtOnce(D) \/ proc[g] = "idle"
    BY <1>1, IdleAfterCancel DEF Queued
  <2> QED BY <2>1 DEF Executing
<1>4. PICK new \in msgs' :
        /\ new.kind = "queued" /\ new.rule = m.rule /\ new.at = clock + 1
        /\ \A n \in msgs' : n = new \/ n \in msgs \ {m} \/ n.kind = "cancelled"
  BY DEF Queued
<1>5. new \notin msgs /\ IsDecision(new)
  <2>1. \A n \in msgs : n.at \in Nat /\ n.at < clock BY StampedBefore DEF AnswerInv, ExecInv
  <2> QED BY <1>1, <1>4, <2>1 DEF IsDecision
<1>6. \A n \in msgs' : IsDecision(n) => n = new \/ n \in msgs \ {m} BY <1>4 DEF IsDecision
<1>7. /\ Asked'[r] > 0
      /\ \A s \in Rules : Asked'[s] =< Asked[s]
      /\ \A s \in Rules : (\A n \in DecisionsOf(s) \ {m} : n \in msgs') => Asked'[s] = Asked[s]
  BY <1>1, <1>4, <1>5, <1>6, ReplacedCount
<1>8. CASE Contention[m.goal] = "cancel"
  <2>1. Scheduling!Supersede(r)
    BY <1>1, <1>2, <1>3, <1>7, <1>8, AskedType DEF Scheduling!Supersede, Scheduling!OthersDropped
  <2> QED BY <1>1, <2>1 DEF Scheduling!Next
<1>9. CASE /\ D = Excluded(m.goal)
           /\ \A n \in msgs \ {m} : IsDecision(n) /\ n.goal \notin D => n \in msgs'
  <2>1. ASSUME NEW s \in Rules, GoalOf[s] # Exclusive[GoalOf[r]] PROVE Asked'[s] = Asked[s]
    <3>1. ASSUME NEW n \in DecisionsOf(s) \ {m} PROVE n \in msgs'
      <4>1. n \in msgs \ {m} /\ IsDecision(n) /\ n.goal = GoalOf[s]
        BY DecisionFacts DEF DecisionsOf, AnswerInv, ExecInv
      <4>2. n.goal \notin D BY <1>1, <1>9, <2>1, <4>1 DEF Excluded
      <4> QED BY <1>9, <4>1, <4>2
    <3> QED BY <1>7, <3>1
  <2>2. AtOnce(D) = {} \/ AtOnce(D) = {Exclusive[GoalOf[r]]}
    BY <1>1, <1>9 DEF AtOnce, Excluded
  <2>3. Executing' \in {Executing, Executing \ {Exclusive[GoalOf[r]]}} BY <1>3, <2>2
  <2>4. Scheduling!Displace(r)
    BY <1>2, <1>7, <2>1, <2>3, AskedType DEF Scheduling!Displace, Scheduling!OthersDropped
  <2> QED BY <1>1, <2>4 DEF Scheduling!Next
<1> QED BY <1>8, <1>9 DEF Queued

\* The oldest decision on the recommendation goes with it: no other has its stamp.
LEMMA SchedulingRecommend ==
    ASSUME AnswerInv, FiniteDecisions, FiniteDecisions', HdmaActs
    PROVE  Scheduling!Next
<1> USE HdmaFacts
<1>1. Executing' = Executing BY DEF Executing
<1>2. CASE msgs' = msgs
  <2>1. Asked' = Asked BY <1>2 DEF Asked, DecisionsOf
  <2> QED BY <1>1, <2>1 DEF Scheduling!Next, Scheduling!Recommend
<1>3. CASE msgs' # msgs
  <2>1. HandleHDMACancelHandover BY <1>3 DEF HdmaActs, HandleHDMARequest, CreateHdma
  <2>2. ~recommended' BY <2>1 DEF HandleHDMACancelHandover, Recommend
  <2>3. PICK m \in msgs : m \notin msgs' BY <1>3
  <2>4. \A n \in msgs \ msgs' :
          IsHandoverDecision(n) /\ ~\E o \in msgs : IsHandoverDecision(o) /\ o.at < n.at
    BY <2>1 DEF HandleHDMACancelHandover
  <2>5. ASSUME NEW n \in msgs \ msgs' PROVE n = m
    <3>1. n.at \in Nat /\ m.at \in Nat BY StampedBefore DEF AnswerInv, ExecInv
    <3>2. n.at = m.at BY <2>3, <2>4, <3>1
    <3> QED BY <2>3, <2>4, <3>2 DEF AnswerInv, ExecInv, Stamps, IsHandoverDecision, IsDecision
  <2>6. msgs' = msgs \ {m} BY <2>3, <2>5
  <2>7. IsDecision(m) /\ m.rule \in HandoverRules /\ m.rule \in Rules
    BY <2>3, <2>4, TableTypes DEF IsHandoverDecision, IsDecision
  <2>8. Asked' = [Asked EXCEPT ![m.rule] = @ - 1] /\ Asked[m.rule] > 0
    BY <2>6, <2>7, OneDecisionLess, Counts DEF DecisionsOf
  <2> QED BY <1>1, <2>2, <2>7, <2>8 DEF Scheduling!Next, Scheduling!Recommend
<1> QED BY <1>2, <1>3

\* A goal that cancels the others confirms its own cancellation late; all such
\* goals of tws_topology_goals.c are scripts (SCRIPT_GOAL_CANCEL...).
CancelGoalsConfirmLate == \A g \in Goals : Contention[g] = "cancel" => ConfirmsLate(g)

LEMMA SchedulingStep ==
    ASSUME CancelGoalsConfirmLate, AnswerInv, FiniteDecisions, FiniteDecisions', [Next]_vars
    PROVE  [Scheduling!Next]_(Scheduling!vars)
<1>1. CASE Deliver
  <2>1. PICK m \in msgs : ActivateGoal(m) \/ ConfirmCancel(m) \/ FinishProcedure(m)
    BY <1>1 DEF Deliver
  <2>2. CASE ActivateGoal(m)
    <3>1. IsDecision(m) BY <2>2 DEF ActivateGoal
    <3>2. m.rule \in Rules /\ m.goal = GoalOf[m.rule] /\ m.goal \in Goals
      BY <3>1, DecisionFacts DEF AnswerInv, ExecInv
    <3>3. CASE IgnoreDuplicate(m) /\ ~IsForNone(m)
      <4>1. /\ Contention[m.goal] = "cancel" /\ m.goal \in active
            /\ proc' = proc /\ msgs' \subseteq msgs /\ recommended' = recommended
        BY <3>3 DEF IgnoreDuplicate, Duplicate
      <4>2. Asked[m.rule] > 0 /\ Scheduling!Stands(m.rule)
        BY <3>1, <3>2, <3>3, Counts DEF DecisionsOf, IsForNone, Scheduling!Stands
      <4>3. \A s \in Rules : DecisionsOf(s)' \subseteq DecisionsOf(s) BY <4>1 DEF DecisionsOf
      <4>4. m.goal \in Executing
        <5>1. ~Confirming(msgs, m.goal)
          BY <3>2, <4>1 DEF Confirming, CancelGoalsConfirmLate, AnswerInv, ExecInv, Executed
        <5> QED BY <3>2, <4>1, <5>1 DEF AnswerInv, ExecInv, Executed, Executing
      <4>5. Executing' = Executing BY <4>1 DEF Executing
      <4>6. Scheduling!Supersede(m.rule)
        BY <3>2, <4>1, <4>2, <4>3, <4>4, <4>5, FewerCount, AskedType
        DEF Scheduling!Supersede, Scheduling!OthersDropped
      <4> QED BY <3>2, <4>6 DEF Scheduling!Next
    <3>4. CASE Started(m) /\ ~IsForNone(m) BY <3>1, <3>4, SchedulingStarted
    <3>5. CASE (\E D \in SUBSET active : Queued(m, D)) /\ ~IsForNone(m) BY <3>1, <3>5, SchedulingQueued
    <3>6. CASE SlotsExhausted(m)
      BY <3>6 DEF SlotsExhausted, Scheduling!vars, Asked, DecisionsOf, Executing
    <3>7. CASE IgnoreNone(m)
      <4>1. /\ msgs' = msgs \ {m} /\ proc' = proc /\ recommended' = recommended
            /\ ~Scheduling!Stands(m.rule)
        BY <3>7 DEF IgnoreNone, Ignore, IsForNone, Scheduling!Stands
      <4>2. Asked[m.rule] > 0 BY <3>1, <3>2, Counts DEF DecisionsOf
      <4>3. Asked' = [Asked EXCEPT ![m.rule] = @ - 1] BY <3>1, <3>2, <4>1, OneDecisionLess
      <4>4. Executing' = Executing BY <4>1 DEF Executing
      <4>5. Scheduling!Forget(m.rule) BY <4>1, <4>2, <4>3, <4>4 DEF Scheduling!Forget
      <4> QED BY <3>2, <4>5 DEF Scheduling!Next
    <3> QED BY <2>2, <3>3, <3>4, <3>5, <3>6, <3>7, ActivateCases DEF AnswerInv, ExecInv
  <2>3. CASE ConfirmCancel(m) \/ FinishProcedure(m)
    <3>1. ~IsDecision(m) /\ msgs' = msgs \ {m}
      BY <2>3 DEF ConfirmCancel, FinishProcedure, TakeAnswer, IsDecision
    <3>2. \A r : DecisionsOf(r)' = DecisionsOf(r) BY <3>1 DEF DecisionsOf
    <3>3. Asked' = Asked BY <3>2 DEF Asked
    <3>4. CASE ConfirmCancel(m)
      BY <3>3, <3>4 DEF ConfirmCancel, Scheduling!vars, Executing
    <3>5. CASE FinishProcedure(m)
      <4>1. m.kind = "response" /\ m.goal \in Goals /\ ProcsOK(proc)
        BY <3>5, StampedBefore DEF FinishProcedure, TakeAnswer, AnswerInv, ExecInv, IInv, RestOK
      <4>2. m.goal \in Executing BY <4>1 DEF AnswerInv, OneAnswer, Executing
      <4>3. proc'[m.goal] = "idle" /\ \A g \in Goals : g # m.goal => proc'[g] = proc[g]
        BY <3>5, <4>1 DEF FinishProcedure, TakeAnswer, ProcsOK
      <4>4. Executing' = Executing \ {m.goal} BY <4>3 DEF Executing
      <4>5. recommended' = recommended BY <3>5 DEF FinishProcedure, TakeAnswer
      <4> QED BY <3>3, <4>2, <4>4, <4>5 DEF Scheduling!Next, Scheduling!End
    <3> QED BY <2>3, <3>4, <3>5
  <2> QED BY <2>1, <2>2, <2>3
<1>2. ASSUME NEW r \in Rules, Decide(r) PROVE Scheduling!Next
  <2> DEFINE m == Msg("decision", r, GoalOf[r], 1, clock)
  <2>1. IsDecision(m) /\ m.rule = r /\ m.at = clock BY DEF Msg, IsDecision
  <2>2. msgs' = msgs \cup {m} /\ proc' = proc BY <1>2 DEF Decide
  <2>3. m \notin msgs
    <3>1. \A n \in msgs : n.at \in Nat /\ n.at < clock /\ clock \in Nat
      BY StampedBefore DEF AnswerInv, ExecInv
    <3> QED BY <2>1, <3>1
  <2> HIDE DEF m
  <2>4. \A s \in Rules : s # r => DecisionsOf(s)' = DecisionsOf(s) BY <2>1, <2>2 DEF DecisionsOf
  <2>5. DecisionsOf(r)' = DecisionsOf(r) \cup {m} /\ m \notin DecisionsOf(r)
    BY <2>1, <2>2, <2>3 DEF DecisionsOf
  <2>6. Asked'[r] = Asked[r] + 1 BY <2>5, Counts, CountsNext, FS_AddElement
  <2>7. Asked' = [Asked EXCEPT ![r] = @ + 1] BY <2>4, <2>6, SameCount DEF Asked
  <2>8. Executing' = Executing /\ recommended' = recommended BY <1>2, <2>2 DEF Executing, Decide
  <2> QED BY <2>7, <2>8 DEF Scheduling!Next, Scheduling!Ask
<1>3. ASSUME NEW g \in Goals, Respond(g) PROVE UNCHANGED Scheduling!vars
  <2>1. PICK m : ~IsDecision(m) /\ msgs' = msgs \cup {m} /\ UNCHANGED <<proc, recommended>>
    BY <1>3 DEF Respond, IsDecision, Msg
  <2>2. \A r : DecisionsOf(r)' = DecisionsOf(r) BY <2>1 DEF DecisionsOf
  <2> QED BY <2>1, <2>2 DEF Asked, Executing, Scheduling!vars
<1>4. CASE UNCHANGED vars
  BY <1>4 DEF vars, Scheduling!vars, Asked, DecisionsOf, Executing
<1>5. CASE HdmaActs BY <1>5, SchedulingRecommend
<1> QED BY <1>1, <1>2, <1>3, <1>4, <1>5 DEF Next, HdmaActs

\* The engine, its queue, its locks and its messages implement the abstract
\* scheduling: a goal only executes beside goals it is concurrent with, and no
\* decision is lost but to a cancel goal, to an excluding one or with HDMA's
\* recommendation, unless a goal runs again before the confirmation of its
\* cancellation has come.
THEOREM SchedulingImplemented ==
    ASSUME CancelGoalsConfirmLate
    PROVE  Spec /\ []NoneStale => ImplementsScheduling
<1>1. Init => Scheduling!Init
  BY FS_EmptySet, TableTypes DEF Init, Scheduling!Init, Asked, DecisionsOf, Executing
<1>2. Init => AnswerInv /\ FiniteDecisions
  BY AnswerInit, FS_EmptySet DEF Init, FiniteDecisions
<1>3. AnswerInv /\ FiniteDecisions /\ NoneStale /\ [Next]_vars
        => (AnswerInv /\ FiniteDecisions)' /\ [Scheduling!Next]_(Scheduling!vars)
  BY AnswerStep, FiniteStep, SchedulingStep DEF AnswerInv
<1> QED BY <1>1, <1>2, <1>3, PTL DEF Spec, ImplementsScheduling, Scheduling!Spec
=============================================================================
