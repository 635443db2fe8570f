-------------------------- MODULE RulesEngineProofs --------------------------
(***************************************************************************)
(* Proofs about RulesEngine, for any table of rules.                       *)
(***************************************************************************)
EXTENDS RulesEngine, WellFoundedInduction, TLAPS

(* What the tables of the repository have in common but for one event (see *)
(* README.md): a rule that may defer is the last of its event, and no two  *)
(* rules of an event decide the same.                                      *)
TableInOrder ==
    \A q, r \in Rules : EventOf[q] = EventOf[r] =>
        /\ q < r => "defer" \notin Answers[q]
        /\ MessageOf[q] = MessageOf[r] => q = r

-----------------------------------------------------------------------------
(* The inductive invariants, of a rule set, the decisions posted and the   *)
(* answers counted, which hold of a pass over the table as well.           *)

Statuses == {"not_done", "in_progress", "complete", "deferred"}
RuleSet == [events : SUBSET Events, status : [Rules -> Statuses]]
Unanswered == {"not_done", "deferred"}

(* A rule in progress has its decision on the way, or lost (in L). *)
OnItsWay(rs, posted, L) ==
    \A r \in Rules : rs.status[r] = "in_progress" =>
        MessageOf[r] \in L \/ \E i \in DOMAIN posted : posted[i] = MessageOf[r]

(* The rules of an event that is not set wait for it, and have had their   *)
(* answers; those of a set event are answered in the order of the table,   *)
(* once each, and one of them is not complete.                             *)
InOrder(rs, counts) ==
    /\ \A r \in Rules : EventOf[r] \notin rs.events =>
          rs.status[r] = "not_done" /\ counts[r] = 1
    /\ \A r \in Rules : EventOf[r] \in rs.events =>
          counts[r] = IF rs.status[r] \in Unanswered THEN 0 ELSE 1
    /\ \A q, r \in Rules : EventOf[q] = EventOf[r] /\ q < r /\ rs.status[r] # "not_done" =>
          rs.status[q] = "complete"
    /\ \A e \in rs.events : \E r \in Rules : EventOf[r] = e /\ rs.status[r] # "complete"

WayInv == TypeOK /\ OnItsWay(set, msgs, lost)
OrderInv == TypeOK /\ InOrder(set, answered)
-----------------------------------------------------------------------------
(* A pass over the table.  RunRules is a recursive function on the table:  *)
(* that there is one, and what holds at its end, is by induction on it.    *)

(* Every set of numbers that is not empty has a least one. *)
LEMMA LeastNumber ==
    ASSUME NEW S \in SUBSET Nat, S # {}
    PROVE  \E m \in S : \A k \in S : m <= k
  <1>1. \E m \in S : \A k \in S : ~(<<k, m>> \in OpToRel(<, Nat))
    BY WFMin, NatLessThanWellFounded
  <1>2. PICK m \in S : \A k \in S : ~(<<k, m>> \in OpToRel(<, Nat))
    BY <1>1
  <1>3. ASSUME NEW k \in S PROVE m <= k
    <2>1. ~(k < m)
      BY <1>2, <1>3 DEF OpToRel
    <2> QED  BY <2>1
  <1> QED  BY <1>3

(* The passes that the first n rules of the table can lead to. *)
IsAfter(f, pass, n) ==
    f = [r \in 0 .. n |-> IF r = 0 THEN {pass} ELSE UNION {Visit(p, r) : p \in f[r - 1]}]

LEMMA AfterExists ==
    ASSUME NEW pass, NEW n \in Nat
    PROVE  \E f : IsAfter(f, pass, n)
  <1> DEFINE S == {k \in Nat : ~ \E f : IsAfter(f, pass, k)}
  <1>1. SUFFICES S = {}
    OBVIOUS
  <1>2. SUFFICES ASSUME S # {} PROVE FALSE
    OBVIOUS
  <1>3. PICK m \in S : \A k \in S : m <= k
    <2> HIDE DEF S
    <2>1. S \in SUBSET Nat
      BY DEF S
    <2> QED  BY <1>2, <2>1, LeastNumber
  <1>4. m # 0
    <2> DEFINE g == [r \in 0 .. 0 |-> {pass}]
    <2>1. IsAfter(g, pass, 0)
      BY DEF IsAfter
    <2> QED  BY <2>1
  <1>5. PICK f : IsAfter(f, pass, m - 1)
    <2>1. m - 1 \in Nat /\ ~(m <= m - 1)
      BY <1>4
    <2>2. m - 1 \notin S
      BY <1>3, <2>1
    <2> QED  BY <2>1, <2>2
  <1> DEFINE g == [r \in 0 .. m |-> IF r = m THEN UNION {Visit(p, r) : p \in f[m - 1]} ELSE f[r]]
  <1>6. IsAfter(g, pass, m)
    <2>1. m \in Nat
      OBVIOUS
    <2> HIDE DEF S
    <2>2. ASSUME NEW r \in 0 .. m
          PROVE  g[r] = IF r = 0 THEN {pass} ELSE UNION {Visit(p, r) : p \in g[r - 1]}
      <3>1. CASE r = m
        <4>1. g[m] = UNION {Visit(p, m) : p \in f[m - 1]} /\ g[m - 1] = f[m - 1]
          BY <1>4, <2>1
        <4> HIDE DEF g
        <4> QED  BY <1>4, <3>1, <4>1
      <3>2. CASE r # m
        <4>1. r \in 0 .. m - 1 /\ g[r] = f[r] /\ (r # 0 => g[r - 1] = f[r - 1])
          BY <2>1, <2>2, <3>2
        <4> HIDE DEF g
        <4>2. f[r] = IF r = 0 THEN {pass} ELSE UNION {Visit(p, r) : p \in f[r - 1]}
          BY <1>5, <4>1 DEF IsAfter
        <4> QED  BY <4>1, <4>2
      <3> QED  BY <3>1, <3>2
    <2> HIDE DEF g
    <2>3. g = [r \in 0 .. m |-> g[r]]
      BY DEF g
    <2> QED  BY <2>2, <2>3 DEF IsAfter
  <1> QED  BY <1>3, <1>6

LEMMA RunRulesRuns ==
    ASSUME NEW pass
    PROVE  \E f : IsAfter(f, pass, NumRules) /\ RunRules(pass) = f[NumRules]
  <1> DEFINE f == CHOOSE f : IsAfter(f, pass, NumRules)
  <1>1. IsAfter(f, pass, NumRules)
    BY AfterExists, RuleTable
  <1>2. RunRules(pass) = f[NumRules]
    BY DEF RunRules, IsAfter
  <1> QED  BY <1>1, <1>2

(* What holds before the pass, and of every visit, holds at its end. *)
LEMMA PassInduction ==
    ASSUME NEW I, NEW pass \in I[0],
           \A r \in Rules : \A p \in I[r - 1] : Visit(p, r) \subseteq I[r]
    PROVE  RunRules(pass) \subseteq I[NumRules]
  <1>1. PICK f : IsAfter(f, pass, NumRules) /\ RunRules(pass) = f[NumRules]
    BY RunRulesRuns
  <1>2. f[0] = {pass} /\ \A r \in Rules : f[r] = UNION {Visit(p, r) : p \in f[r - 1]}
    <2>1. 0 \in 0 .. NumRules /\ \A r \in Rules : r \in 0 .. NumRules /\ r # 0
      BY RuleTable DEF Rules
    <2> QED  BY <1>1, <2>1 DEF IsAfter
  <1> DEFINE S == {k \in 0 .. NumRules : ~(f[k] \subseteq I[k])}
  <1>3. SUFFICES ASSUME S # {} PROVE FALSE
    BY <1>1, RuleTable
  <1>4. PICK m \in S : \A k \in S : m <= k
    <2>1. S \in SUBSET Nat
      OBVIOUS
    <2> HIDE DEF S
    <2> QED  BY <1>3, <2>1, LeastNumber
  <1>5. m # 0
    BY <1>2
  <1>6. m \in Rules /\ m - 1 \in 0 .. NumRules /\ ~(m <= m - 1)
    BY <1>5, RuleTable DEF Rules
  <1>7. f[m - 1] \subseteq I[m - 1]
    BY <1>4, <1>6
  <1>8. f[m] \subseteq I[m]
    BY <1>2, <1>6, <1>7
  <1> QED  BY <1>8
-----------------------------------------------------------------------------
(* What the operations on a rule set do. *)

Updated(rs, message, from, E) ==
    {r \in Rules : EventOf[r] \in E /\ MessageOf[r] = message /\ rs.status[r] = from}

(* The events that completing the rules U clears. *)
Done(rs, U) ==
    {e \in {EventOf[r] : r \in U} :
        \A r \in Rules : EventOf[r] = e => r \in U \/ rs.status[r] = "complete"}

LEMMA TableTypes ==
    /\ \A r \in Rules : EventOf[r] \in Events /\ MessageOf[r] \in Messages /\ r \in Nat
    /\ \A r \in Rules : Answers[r] \subseteq {"run", "settled", "defer"}
    /\ \A e \in Events : \E r \in Rules : EventOf[r] = e
  BY RuleTable DEF Rules, Messages

LEMMA ResetMeans ==
    ASSUME NEW rs \in RuleSet, NEW E
    PROVE  /\ Reset(rs, E) \in RuleSet
           /\ Reset(rs, E).events = rs.events \ E
           /\ \A r \in Rules :
                 Reset(rs, E).status[r] = IF EventOf[r] \in E THEN "not_done" ELSE rs.status[r]
  BY DEF Reset, RuleSet, Statuses

LEMMA CompleteMeans ==
    ASSUME NEW rs \in RuleSet, NEW message, NEW from, NEW E
    PROVE  LET after == Complete(rs, message, from, E)
               U == Updated(rs, message, from, E)
               D == Done(rs, U)
           IN  /\ after \in RuleSet
               /\ after.events = rs.events \ D
               /\ \A r \in Rules : after.status[r] =
                     IF EventOf[r] \in D THEN "not_done"
                     ELSE IF r \in U THEN "complete" ELSE rs.status[r]
  <1> DEFINE U == Updated(rs, message, from, E)
             D == Done(rs, U)
             status == [r \in Rules |-> IF r \in U THEN "complete" ELSE rs.status[r]]
             done == {e \in {EventOf[r] : r \in U} : \A r \in RulesFor({e}) : status[r] = "complete"}
             mid == [rs EXCEPT !.status = status]
  <1>1. U = {r \in RulesFor(E) : MessageOf[r] = message /\ rs.status[r] = from}
    BY DEF Updated, RulesFor
  <1>2. Complete(rs, message, from, E) = Reset(mid, done)
    BY <1>1 DEF Complete
  <1>3. done = D
    BY DEF Done, RulesFor
  <1>4. mid \in RuleSet /\ mid.events = rs.events /\ mid.status = status
    BY DEF RuleSet, Statuses
  <1>5. \A r \in Rules : mid.status[r] = IF r \in U THEN "complete" ELSE rs.status[r]
    BY <1>4
  <1> HIDE DEF mid, D, U, done, status
  <1>6. /\ Reset(mid, D) \in RuleSet /\ Reset(mid, D).events = rs.events \ D
        /\ \A r \in Rules : Reset(mid, D).status[r] = IF EventOf[r] \in D THEN "not_done" ELSE mid.status[r]
    BY <1>4, ResetMeans
  <1>7. Complete(rs, message, from, E) = Reset(mid, D)
    BY <1>2, <1>3
  <1> QED  BY <1>5, <1>6, <1>7 DEF U, D

PassType == [set : RuleSet, local : SUBSET Events, msgs : Seq(Messages), answered : [Rules -> 0 .. 2]]

Counted(counts, r) == [counts EXCEPT ![r] = IF @ = 0 THEN 1 ELSE 2]

(* What a rule of the table can do to a pass. *)
LEMMA VisitCases ==
    ASSUME NEW pass \in PassType, NEW r \in Rules, NEW x \in Visit(pass, r)
    PROVE  \/ /\ x = pass
              /\ EventOf[r] \notin pass.local \/ pass.set.status[r] = "complete"
           \/ /\ x = [pass EXCEPT !.local = @ \ {EventOf[r]}]
              /\ pass.set.status[r] = "in_progress"
           \/ /\ EventOf[r] \in pass.local /\ pass.set.status[r] \in Unanswered
              /\ \/ x = Run(pass, r)
                 \/ x = Settle(pass, r)
                 \/ x = Defer(pass, r) /\ "defer" \in Answers[r]
  <1>1. pass.set.status[r] \in Statuses
    BY DEF PassType, RuleSet
  <1>2. CASE EventOf[r] \notin pass.local \/ pass.set.status[r] = "complete"
    BY <1>2 DEF Visit
  <1>3. CASE EventOf[r] \in pass.local /\ pass.set.status[r] = "in_progress"
    BY <1>3 DEF Visit
  <1>4. CASE EventOf[r] \in pass.local /\ pass.set.status[r] \in Unanswered
    <2>1. x \in Evaluate(pass, r)
      BY <1>4 DEF Visit, Unanswered
    <2>2. PICK answer \in Answers[r] : x = CASE answer = "run"     -> Run(pass, r)
                                             [] answer = "settled" -> Settle(pass, r)
                                             [] answer = "defer"   -> Defer(pass, r)
      BY <2>1 DEF Evaluate
    <2>3. answer \in {"run", "settled", "defer"}
      BY TableTypes
    <2> QED  BY <1>4, <2>2, <2>3
  <1> QED  BY <1>1, <1>2, <1>3, <1>4 DEF Statuses, Unanswered

LEMMA CountedType ==
    ASSUME NEW counts \in [Rules -> 0 .. 2], NEW r \in Rules
    PROVE  /\ Counted(counts, r) \in [Rules -> 0 .. 2]
           /\ counts[r] = 0 => Counted(counts, r)[r] = 1
           /\ \A q \in Rules : q # r => Counted(counts, r)[q] = counts[q]
  BY DEF Counted

LEMMA RunMeans ==
    ASSUME NEW pass \in PassType, NEW r \in Rules
    PROVE  LET x == Run(pass, r)
           IN  /\ x \in PassType
               /\ x.set.events = pass.set.events
               /\ x.set.status = [pass.set.status EXCEPT ![r] = "in_progress"]
               /\ x.msgs = Append(pass.msgs, MessageOf[r])
               /\ x.local = pass.local \ {EventOf[r]}
               /\ x.answered = Counted(pass.answered, r)
  <1> DEFINE c == CountAnswer(pass, r)
  <1>1. /\ c \in PassType /\ c.set = pass.set /\ c.local = pass.local /\ c.msgs = pass.msgs
        /\ c.answered = Counted(pass.answered, r)
    BY CountedType DEF CountAnswer, Counted, PassType
  <1>2. MessageOf[r] \in Messages
    BY TableTypes
  <1>3. Run(pass, r) = [c EXCEPT !.set.status[r] = "in_progress",
                                 !.msgs = Append(@, MessageOf[r]),
                                 !.local = @ \ {EventOf[r]}]
    BY DEF Run
  <1> HIDE DEF c
  <1>4. /\ Append(c.msgs, MessageOf[r]) \in Seq(Messages)
        /\ [c.set EXCEPT !.status[r] = "in_progress"] \in RuleSet
        /\ [c.set EXCEPT !.status[r] = "in_progress"].events = c.set.events
        /\ [c.set EXCEPT !.status[r] = "in_progress"].status = [c.set.status EXCEPT ![r] = "in_progress"]
    BY <1>1, <1>2 DEF PassType, RuleSet, Statuses
  <1>5. Run(pass, r) = [c EXCEPT !.set = [c.set EXCEPT !.status[r] = "in_progress"],
                                 !.msgs = Append(c.msgs, MessageOf[r]),
                                 !.local = c.local \ {EventOf[r]}]
    BY <1>1, <1>3 DEF PassType
  <1> QED  BY <1>1, <1>4, <1>5 DEF PassType

LEMMA SettleMeans ==
    ASSUME NEW pass \in PassType, NEW r \in Rules
    PROVE  LET x == Settle(pass, r)
           IN  /\ x \in PassType
               /\ x.set = Complete(pass.set, MessageOf[r], pass.set.status[r], {EventOf[r]})
               /\ x.msgs = pass.msgs /\ x.local = pass.local
               /\ x.answered = Counted(pass.answered, r)
  <1> DEFINE x == [set |-> Complete(pass.set, MessageOf[r], pass.set.status[r], {EventOf[r]}),
                   local |-> pass.local,
                   msgs |-> pass.msgs,
                   answered |-> Counted(pass.answered, r)]
  <1>0. pass = [set |-> pass.set, local |-> pass.local, msgs |-> pass.msgs, answered |-> pass.answered]
    BY DEF PassType
  <1>1. Settle(pass, r) = x
    <2>1. CountAnswer(pass, r) = [set |-> pass.set, local |-> pass.local, msgs |-> pass.msgs,
                                  answered |-> Counted(pass.answered, r)]
      BY <1>0 DEF CountAnswer, Counted
    <2> QED  BY <2>1 DEF Settle
  <1>2. /\ pass.set \in RuleSet /\ pass.local \in SUBSET Events /\ pass.msgs \in Seq(Messages)
        /\ pass.answered \in [Rules -> 0 .. 2]
    BY DEF PassType
  <1>3. x.set \in RuleSet /\ x.answered \in [Rules -> 0 .. 2]
    BY <1>2, CompleteMeans, CountedType
  <1> QED  BY <1>1, <1>2, <1>3 DEF PassType

LEMMA DeferMeans ==
    ASSUME NEW pass \in PassType, NEW r \in Rules
    PROVE  LET x == Defer(pass, r)
           IN  /\ x \in PassType
               /\ x.set.events = pass.set.events
               /\ x.set.status = [pass.set.status EXCEPT ![r] = "deferred"]
               /\ x.msgs = pass.msgs /\ x.local = pass.local /\ x.answered = pass.answered
  BY DEF Defer, PassType, RuleSet, Statuses
-----------------------------------------------------------------------------
(* A pass over the table keeps the invariants. *)

WayPass(L) == {p \in PassType : OnItsWay(p.set, p.msgs, L)}

LEMMA CompleteOnItsWay ==
    ASSUME NEW rs \in RuleSet, NEW message, NEW from, NEW E, NEW posted, NEW L,
           \A r \in Rules : rs.status[r] = "in_progress" =>
              \/ r \in Updated(rs, message, from, E)
              \/ MessageOf[r] \in L \/ \E i \in DOMAIN posted : posted[i] = MessageOf[r]
    PROVE  OnItsWay(Complete(rs, message, from, E), posted, L)
  BY CompleteMeans DEF OnItsWay

LEMMA VisitOnItsWay ==
    ASSUME NEW L, NEW r \in Rules, NEW pass \in WayPass(L), NEW x \in Visit(pass, r)
    PROVE  x \in WayPass(L)
  <1>1. pass \in PassType /\ OnItsWay(pass.set, pass.msgs, L)
    BY DEF WayPass
  <1>2. CASE x = pass
    BY <1>2
  <1>3. CASE x = [pass EXCEPT !.local = @ \ {EventOf[r]}]
    BY <1>1, <1>3 DEF WayPass, PassType
  <1>4. CASE x = Run(pass, r)
    <2>1. /\ x \in PassType /\ x.msgs = Append(pass.msgs, MessageOf[r])
          /\ x.set.status = [pass.set.status EXCEPT ![r] = "in_progress"]
      BY <1>1, <1>4, RunMeans
    <2>2. pass.msgs \in Seq(Messages) /\ pass.set.status \in [Rules -> Statuses]
      BY <1>1 DEF PassType, RuleSet
    <2>3. ASSUME NEW q \in Rules, x.set.status[q] = "in_progress", MessageOf[q] \notin L
          PROVE  \E i \in DOMAIN x.msgs : x.msgs[i] = MessageOf[q]
      <3>1. CASE q = r
        <4>1. Len(pass.msgs) + 1 \in DOMAIN x.msgs /\ x.msgs[Len(pass.msgs) + 1] = MessageOf[r]
          BY <2>1, <2>2
        <4> QED  BY <3>1, <4>1
      <3>2. CASE q # r
        <4>1. PICK i \in DOMAIN pass.msgs : pass.msgs[i] = MessageOf[q]
          BY <1>1, <2>1, <2>2, <2>3, <3>2 DEF OnItsWay
        <4>2. i \in DOMAIN x.msgs /\ x.msgs[i] = MessageOf[q]
          BY <2>1, <2>2, <4>1
        <4> QED  BY <4>2
      <3> QED  BY <3>1, <3>2
    <2> QED  BY <2>1, <2>3 DEF WayPass, OnItsWay
  <1>5. CASE x = Settle(pass, r)
    <2>1. /\ x \in PassType /\ x.msgs = pass.msgs
          /\ x.set = Complete(pass.set, MessageOf[r], pass.set.status[r], {EventOf[r]})
      BY <1>1, <1>5, SettleMeans
    <2>2. pass.set \in RuleSet
      BY <1>1 DEF PassType
    <2>3. OnItsWay(x.set, x.msgs, L)
      <3>1. \A q \in Rules : pass.set.status[q] = "in_progress" =>
              MessageOf[q] \in L \/ \E i \in DOMAIN pass.msgs : pass.msgs[i] = MessageOf[q]
        BY <1>1 DEF OnItsWay
      <3>2. OnItsWay(Complete(pass.set, MessageOf[r], pass.set.status[r], {EventOf[r]}), pass.msgs, L)
        BY <2>2, <3>1, CompleteOnItsWay
      <3> QED  BY <2>1, <3>2
    <2> QED  BY <2>1, <2>3 DEF WayPass
  <1>6. CASE x = Defer(pass, r)
    <2>1. /\ x \in PassType /\ x.msgs = pass.msgs
          /\ x.set.status = [pass.set.status EXCEPT ![r] = "deferred"]
      BY <1>1, <1>6, DeferMeans
    <2>2. pass.set.status \in [Rules -> Statuses]
      BY <1>1 DEF PassType, RuleSet
    <2> QED  BY <1>1, <2>1, <2>2 DEF WayPass, OnItsWay
  <1> QED  BY <1>1, <1>2, <1>3, <1>4, <1>5, <1>6, VisitCases

(* The rules of a table in order that the pass has been through, of an     *)
(* event it still goes through, are complete but for one that defers; the  *)
(* event is cleared only when they were the last of it.                    *)
OrderPass(n) ==
    {p \in PassType :
        /\ InOrder(p.set, p.answered)
        /\ \A q \in Rules : EventOf[q] \in p.local =>
              IF EventOf[q] \in p.set.events
              THEN q <= n => p.set.status[q] = "complete" \/ "defer" \in Answers[q]
              ELSE q <= n}

LEMMA CompleteInOrder ==
    ASSUME NEW rs \in RuleSet, NEW message, NEW from, NEW E, NEW before, NEW counts,
           InOrder(rs, before),
           \A r \in Rules : counts[r] = IF r \in Updated(rs, message, from, E) THEN 1 ELSE before[r],
           \A r \in Updated(rs, message, from, E) :
              /\ EventOf[r] \in rs.events
              /\ \A q \in Rules : EventOf[q] = EventOf[r] /\ q < r => rs.status[q] = "complete"
    PROVE  InOrder(Complete(rs, message, from, E), counts)
  <1> DEFINE U == Updated(rs, message, from, E)
             D == Done(rs, U)
             x == Complete(rs, message, from, E)
  <1>1. /\ x \in RuleSet /\ x.events = rs.events \ D
        /\ \A r \in Rules : x.status[r] =
              IF EventOf[r] \in D THEN "not_done" ELSE IF r \in U THEN "complete" ELSE rs.status[r]
    BY CompleteMeans
  <1>2. /\ \A r \in U : r \in Rules /\ EventOf[r] \in rs.events
        /\ \A r \in Rules : counts[r] = IF r \in U THEN 1 ELSE before[r]
        /\ \A r \in U, q \in Rules : EventOf[q] = EventOf[r] /\ q < r => rs.status[q] = "complete"
    BY DEF Updated
  <1>3. \A r \in Rules : EventOf[r] \in D => EventOf[r] \in rs.events /\ (r \in U \/ rs.status[r] = "complete")
    BY <1>2 DEF Done
  <1>4. \A e \in rs.events \ D : \E r \in Rules : EventOf[r] = e /\ r \notin U /\ rs.status[r] # "complete"
    <2>1. SUFFICES ASSUME NEW e \in rs.events \ D
                   PROVE  \E r \in Rules : EventOf[r] = e /\ r \notin U /\ rs.status[r] # "complete"
      OBVIOUS
    <2>2. CASE \E r \in U : EventOf[r] = e
      BY <2>1, <2>2 DEF Done
    <2>3. CASE ~ \E r \in U : EventOf[r] = e
      BY <2>1, <2>3 DEF InOrder
    <2> QED  BY <2>2, <2>3
  <1> HIDE DEF U, D, x
  <1>5. \A r \in Rules : EventOf[r] \notin x.events => x.status[r] = "not_done" /\ counts[r] = 1
    BY <1>1, <1>2, <1>3 DEF InOrder, Unanswered
  <1>6. \A r \in Rules : EventOf[r] \in x.events =>
          counts[r] = IF x.status[r] \in Unanswered THEN 0 ELSE 1
    BY <1>1, <1>2 DEF InOrder, Unanswered
  <1>7. \A q, r \in Rules : EventOf[q] = EventOf[r] /\ q < r /\ x.status[r] # "not_done" =>
          x.status[q] = "complete"
    BY <1>1, <1>2 DEF InOrder
  <1>8. \A e \in x.events : \E r \in Rules : EventOf[r] = e /\ x.status[r] # "complete"
    BY <1>1, <1>4
  <1> QED  BY <1>5, <1>6, <1>7, <1>8 DEF InOrder, x
(* A rule that is visited while its event is still gone through. *)
LEMMA VisitedInTurn ==
    ASSUME TableInOrder, NEW r \in Rules, NEW pass \in OrderPass(r - 1),
           EventOf[r] \in pass.local, pass.set.status[r] \in Unanswered
    PROVE  /\ EventOf[r] \in pass.set.events
           /\ pass.answered[r] = 0
           /\ \A q \in Rules : EventOf[q] = EventOf[r] /\ q < r => pass.set.status[q] = "complete"
           /\ \A q \in Rules : EventOf[q] = EventOf[r] /\ r < q => pass.set.status[q] = "not_done"
           /\ Updated(pass.set, MessageOf[r], pass.set.status[r], {EventOf[r]}) = {r}
  <1>1. /\ InOrder(pass.set, pass.answered)
        /\ \A q \in Rules : EventOf[q] \in pass.local =>
              IF EventOf[q] \in pass.set.events
              THEN q <= r - 1 => pass.set.status[q] = "complete" \/ "defer" \in Answers[q]
              ELSE q <= r - 1
    BY DEF OrderPass
  <1>2. r \in Nat /\ \A q \in Rules : q \in Nat
    BY TableTypes
  <1>3. EventOf[r] \in pass.set.events
    BY <1>1, <1>2
  <1>4. pass.answered[r] = 0
    BY <1>1, <1>3 DEF InOrder
  <1>5. ASSUME NEW q \in Rules, EventOf[q] = EventOf[r], q < r
        PROVE  pass.set.status[q] = "complete"
    <2>1. "defer" \notin Answers[q]
      BY <1>5 DEF TableInOrder
    <2>2. q <= r - 1
      BY <1>2, <1>5
    <2> QED  BY <1>1, <1>3, <1>5, <2>1, <2>2
  <1>6. ASSUME NEW q \in Rules, EventOf[q] = EventOf[r], r < q
        PROVE  pass.set.status[q] = "not_done"
    BY <1>1, <1>6 DEF InOrder, Unanswered
  <1>7. Updated(pass.set, MessageOf[r], pass.set.status[r], {EventOf[r]}) = {r}
    BY DEF Updated, TableInOrder
  <1> QED  BY <1>3, <1>4, <1>5, <1>6, <1>7

LEMMA VisitInOrder ==
    ASSUME TableInOrder, NEW r \in Rules, NEW pass \in OrderPass(r - 1), NEW x \in Visit(pass, r)
    PROVE  x \in OrderPass(r)
  <1>1. pass \in PassType /\ InOrder(pass.set, pass.answered)
    BY DEF OrderPass
  <1>2. \A q \in Rules : EventOf[q] \in pass.local =>
           IF EventOf[q] \in pass.set.events
           THEN q < r => pass.set.status[q] = "complete" \/ "defer" \in Answers[q]
           ELSE q < r
    BY TableTypes DEF OrderPass
  <1>3. /\ pass.set.status \in [Rules -> Statuses] /\ pass.answered \in [Rules -> 0 .. 2]
        /\ pass.set \in RuleSet /\ r \in Nat /\ \A q \in Rules : q \in Nat
    BY <1>1, TableTypes DEF PassType, RuleSet
  <1>a. CASE x = pass /\ (EventOf[r] \notin pass.local \/ pass.set.status[r] = "complete")
    <2>1. \A q \in Rules : EventOf[q] \in x.local =>
             IF EventOf[q] \in x.set.events
             THEN q <= r => x.set.status[q] = "complete" \/ "defer" \in Answers[q]
             ELSE q <= r
      BY <1>2, <1>3, <1>a
    <2> QED  BY <1>1, <1>a, <2>1 DEF OrderPass
  <1>b. CASE x = [pass EXCEPT !.local = @ \ {EventOf[r]}]
    <2>1. x \in PassType /\ x.set = pass.set /\ x.answered = pass.answered /\ x.local = pass.local \ {EventOf[r]}
      BY <1>1, <1>b DEF PassType
    <2>2. \A q \in Rules : EventOf[q] \in x.local =>
             IF EventOf[q] \in x.set.events
             THEN q <= r => x.set.status[q] = "complete" \/ "defer" \in Answers[q]
             ELSE q <= r
      BY <1>2, <1>3, <2>1
    <2> QED  BY <1>1, <2>1, <2>2 DEF OrderPass
  <1>c. ASSUME EventOf[r] \in pass.local, pass.set.status[r] \in Unanswered,
               \/ x = Run(pass, r)
               \/ x = Settle(pass, r)
               \/ x = Defer(pass, r) /\ "defer" \in Answers[r]
        PROVE  x \in OrderPass(r)
    <2>1. /\ EventOf[r] \in pass.set.events /\ pass.answered[r] = 0
          /\ \A q \in Rules : EventOf[q] = EventOf[r] /\ q < r => pass.set.status[q] = "complete"
          /\ \A q \in Rules : EventOf[q] = EventOf[r] /\ r < q => pass.set.status[q] = "not_done"
          /\ Updated(pass.set, MessageOf[r], pass.set.status[r], {EventOf[r]}) = {r}
      BY <1>c, VisitedInTurn
    <2>2. /\ Counted(pass.answered, r)[r] = 1
          /\ \A q \in Rules : q # r => Counted(pass.answered, r)[q] = pass.answered[q]
      <3>1. pass.answered \in [Rules -> 0 .. 2] /\ r \in Rules /\ pass.answered[r] = 0
        BY <1>3, <2>1
      <3> QED  BY <3>1, CountedType
    <2>a. CASE x = Run(pass, r)
      <3>1. /\ x \in PassType /\ x.set.events = pass.set.events
            /\ x.set.status = [pass.set.status EXCEPT ![r] = "in_progress"]
            /\ x.local = pass.local \ {EventOf[r]}
            /\ x.answered = Counted(pass.answered, r)
        BY <1>1, <2>a, RunMeans
      <3>2. InOrder(x.set, x.answered)
        BY <1>1, <1>3, <2>1, <2>2, <3>1 DEF InOrder, Unanswered
      <3>3. \A q \in Rules : EventOf[q] \in x.local =>
               IF EventOf[q] \in x.set.events
               THEN q <= r => x.set.status[q] = "complete" \/ "defer" \in Answers[q]
               ELSE q <= r
        BY <1>2, <1>3, <3>1
      <3> QED  BY <3>1, <3>2, <3>3 DEF OrderPass
    <2>b. CASE x = Settle(pass, r)
      <3> DEFINE after == Complete(pass.set, MessageOf[r], pass.set.status[r], {EventOf[r]})
                 D == Done(pass.set, {r})
      <3>1. /\ x \in PassType /\ x.set = after /\ x.local = pass.local
            /\ x.answered = Counted(pass.answered, r)
        BY <1>1, <2>b, SettleMeans
      <3>2. InOrder(after, Counted(pass.answered, r))
        <4> DEFINE counts == Counted(pass.answered, r)
                   from == pass.set.status[r]
                   E == {EventOf[r]}
                   U == Updated(pass.set, MessageOf[r], from, E)
        <4>1. /\ \A q \in Rules : counts[q] = IF q \in U THEN 1 ELSE pass.answered[q]
              /\ \A q \in U : /\ EventOf[q] \in pass.set.events
                             /\ \A k \in Rules : EventOf[k] = EventOf[q] /\ k < q => pass.set.status[k] = "complete"
          BY <2>1, <2>2
        <4> HIDE DEF counts, from, E
        <4>2. InOrder(Complete(pass.set, MessageOf[r], from, E), counts)
          BY <1>1, <1>3, <4>1, CompleteInOrder
        <4> QED  BY <4>2 DEF counts, from, E
      <3>3. /\ after.events = pass.set.events \ D
            /\ \A q \in Rules : after.status[q] =
                  IF EventOf[q] \in D THEN "not_done"
                  ELSE IF q \in {r} THEN "complete" ELSE pass.set.status[q]
        <4>1. pass.set \in RuleSet /\ Updated(pass.set, MessageOf[r], pass.set.status[r], {EventOf[r]}) = {r}
          BY <1>3, <2>1
        <4> QED  BY <4>1, CompleteMeans
      <3>4. \A e \in D : e = EventOf[r] /\ \A q \in Rules : EventOf[q] = e => q <= r
        <4>1. \A e \in D : e = EventOf[r] /\ \A q \in Rules : EventOf[q] = e => q = r \/ pass.set.status[q] = "complete"
          BY DEF Done
        <4> QED  BY <1>3, <2>1, <4>1
      <3>5. \A q \in Rules : EventOf[q] \in x.local =>
               IF EventOf[q] \in x.set.events
               THEN q <= r => x.set.status[q] = "complete" \/ "defer" \in Answers[q]
               ELSE q <= r
        <4> HIDE DEF after, D
        <4> QED  BY <1>2, <1>3, <3>1, <3>3, <3>4
      <3> QED  BY <3>1, <3>2, <3>5 DEF OrderPass
    <2>c. CASE x = Defer(pass, r) /\ "defer" \in Answers[r]
      <3>1. /\ x \in PassType /\ x.set.events = pass.set.events
            /\ x.set.status = [pass.set.status EXCEPT ![r] = "deferred"]
            /\ x.local = pass.local /\ x.answered = pass.answered
        BY <1>1, <2>c, DeferMeans
      <3>2. InOrder(x.set, x.answered)
        BY <1>1, <1>3, <2>1, <3>1 DEF InOrder, Unanswered
      <3>3. \A q \in Rules : EventOf[q] \in x.local =>
               IF EventOf[q] \in x.set.events
               THEN q <= r => x.set.status[q] = "complete" \/ "defer" \in Answers[q]
               ELSE q <= r
        BY <1>2, <1>3, <2>c, <3>1
      <3> QED  BY <3>1, <3>2, <3>3 DEF OrderPass
    <2> QED  BY <1>c, <2>a, <2>b, <2>c
  <1> QED  BY <1>1, <1>a, <1>b, <1>c, VisitCases
(* The whole pass. *)
LEMMA PassBegins ==
    ASSUME NEW rs \in RuleSet, NEW posted \in Seq(Messages), NEW counts \in [Rules -> 0 .. 2]
    PROVE  LET p == Pass(rs, posted, counts)
           IN  /\ p \in PassType /\ p.set = rs /\ p.local = rs.events
               /\ p.msgs = posted /\ p.answered = counts
  BY DEF Pass, PassType, RuleSet

LEMMA CheckOnItsWay ==
    ASSUME NEW rs \in RuleSet, NEW posted \in Seq(Messages), NEW counts \in [Rules -> 0 .. 2],
           NEW L, OnItsWay(rs, posted, L), Check(rs, posted, counts)
    PROVE  /\ set' \in RuleSet /\ msgs' \in Seq(Messages) /\ answered' \in [Rules -> 0 .. 2]
           /\ OnItsWay(set', msgs', L)
  <1> DEFINE p == Pass(rs, posted, counts)
             I == [n \in 0 .. NumRules |-> WayPass(L)]
  <1>1. PICK pass \in RunRules(p) : set' = pass.set /\ msgs' = pass.msgs /\ answered' = pass.answered
    BY DEF Check
  <1>2. p \in WayPass(L)
    BY PassBegins DEF WayPass
  <1>3. \A n \in 0 .. NumRules : I[n] = WayPass(L)
    OBVIOUS
  <1>4. 0 \in 0 .. NumRules /\ NumRules \in 0 .. NumRules
        /\ \A r \in Rules : r \in 0 .. NumRules /\ r - 1 \in 0 .. NumRules
    BY RuleTable DEF Rules
  <1>5. p \in I[0] /\ \A r \in Rules : \A x \in I[r - 1] : Visit(x, r) \subseteq I[r]
    BY <1>2, <1>3, <1>4, VisitOnItsWay
  <1> HIDE DEF p, I
  <1>6. RunRules(p) \subseteq I[NumRules]
    BY <1>5, PassInduction
  <1>7. pass \in WayPass(L)
    BY <1>1, <1>3, <1>4, <1>6
  <1> QED  BY <1>1, <1>7 DEF WayPass, PassType

LEMMA CheckInOrder ==
    ASSUME TableInOrder,
           NEW rs \in RuleSet, NEW posted \in Seq(Messages), NEW counts \in [Rules -> 0 .. 2],
           InOrder(rs, counts), Check(rs, posted, counts)
    PROVE  InOrder(set', answered')
  <1> DEFINE p == Pass(rs, posted, counts)
             I == [n \in 0 .. NumRules |-> OrderPass(n)]
  <1>1. PICK pass \in RunRules(p) : set' = pass.set /\ msgs' = pass.msgs /\ answered' = pass.answered
    BY DEF Check
  <1>2. p \in OrderPass(0)
    <2>1. p \in PassType /\ p.set = rs /\ p.local = rs.events /\ p.answered = counts
      BY PassBegins
    <2>2. \A q \in Rules : ~(q <= 0)
      BY RuleTable DEF Rules
    <2> HIDE DEF p
    <2> QED  BY <2>1, <2>2 DEF OrderPass
  <1>3. \A n \in 0 .. NumRules : I[n] = OrderPass(n)
    OBVIOUS
  <1>4. 0 \in 0 .. NumRules /\ NumRules \in 0 .. NumRules
        /\ \A r \in Rules : r \in 0 .. NumRules /\ r - 1 \in 0 .. NumRules
    BY RuleTable DEF Rules
  <1>5. p \in I[0] /\ \A r \in Rules : \A x \in I[r - 1] : Visit(x, r) \subseteq I[r]
    <2> HIDE DEF I, p
    <2> QED  BY <1>2, <1>3, <1>4, VisitInOrder
  <1> HIDE DEF p, I
  <1>6. RunRules(p) \subseteq I[NumRules]
    BY <1>5, PassInduction
  <1>7. pass \in OrderPass(NumRules)
    BY <1>1, <1>3, <1>4, <1>6
  <1> QED  BY <1>1, <1>7 DEF OrderPass
-----------------------------------------------------------------------------
(* Every action keeps the invariants. *)

LEMMA SetInType == TypeOK => set \in RuleSet
  BY DEF TypeOK, RuleSet, Statuses

LEMMA OwedCounts ==
    ASSUME TypeOK, NEW e \in Events
    PROVE  /\ [set EXCEPT !.events = @ \cup {e}] \in RuleSet
           /\ [set EXCEPT !.events = @ \cup {e}].events = set.events \cup {e}
           /\ [set EXCEPT !.events = @ \cup {e}].status = set.status
           /\ [r \in Rules |-> IF EventOf[r] = e /\ e \notin set.events THEN 0 ELSE answered[r]]
                 \in [Rules -> 0 .. 2]
  BY SetInType DEF TypeOK, RuleSet

LEMMA SetEventOnItsWay ==
    ASSUME WayInv, NEW e \in Events, SetEvent(e)
    PROVE  WayInv'
  <1> DEFINE rs == [set EXCEPT !.events = @ \cup {e}]
             counts == [r \in Rules |-> IF EventOf[r] = e /\ e \notin set.events THEN 0 ELSE answered[r]]
  <1>1. Check(rs, msgs, counts) /\ sets < MaxSets /\ sets' = sets + 1 /\ UNCHANGED <<lost, drops>>
    BY DEF SetEvent
  <1>2. rs \in RuleSet /\ rs.status = set.status /\ counts \in [Rules -> 0 .. 2] /\ msgs \in Seq(Messages)
    BY OwedCounts DEF WayInv, TypeOK
  <1> HIDE DEF rs, counts
  <1>3. OnItsWay(rs, msgs, lost)
    BY <1>2 DEF WayInv, OnItsWay
  <1>4. /\ set' \in RuleSet /\ msgs' \in Seq(Messages) /\ answered' \in [Rules -> 0 .. 2]
        /\ OnItsWay(set', msgs', lost)
    BY <1>1, <1>2, <1>3, CheckOnItsWay
  <1>5. sets' \in 0 .. MaxSets
    BY <1>1, RuleTable DEF WayInv, TypeOK
  <1> QED  BY <1>1, <1>4, <1>5 DEF WayInv, TypeOK, RuleSet, Statuses, OnItsWay

LEMMA SetEventInOrder ==
    ASSUME TableInOrder, OrderInv, NEW e \in Events, SetEvent(e)
    PROVE  InOrder(set, answered)'
  <1> DEFINE rs == [set EXCEPT !.events = @ \cup {e}]
             counts == [r \in Rules |-> IF EventOf[r] = e /\ e \notin set.events THEN 0 ELSE answered[r]]
  <1>1. Check(rs, msgs, counts)
    BY DEF SetEvent
  <1>2. /\ rs \in RuleSet /\ rs.events = set.events \cup {e} /\ rs.status = set.status
        /\ counts \in [Rules -> 0 .. 2] /\ msgs \in Seq(Messages)
    BY OwedCounts DEF OrderInv, TypeOK
  <1>3. \A r \in Rules : counts[r] = IF EventOf[r] = e /\ e \notin set.events THEN 0 ELSE answered[r]
    OBVIOUS
  <1> HIDE DEF rs, counts
  <1>4. InOrder(set, answered)
    BY DEF OrderInv
  <1>5. InOrder(rs, counts)
    <2>1. \A r \in Rules : EventOf[r] \notin rs.events => rs.status[r] = "not_done" /\ counts[r] = 1
      BY <1>2, <1>3, <1>4 DEF InOrder
    <2>2. \A r \in Rules : EventOf[r] \in rs.events =>
            counts[r] = IF rs.status[r] \in Unanswered THEN 0 ELSE 1
      BY <1>2, <1>3, <1>4 DEF InOrder, Unanswered
    <2>3. \A d \in rs.events : \E r \in Rules : EventOf[r] = d /\ rs.status[r] # "complete"
      BY <1>2, <1>4, TableTypes DEF InOrder
    <2> QED  BY <1>2, <1>4, <2>1, <2>2, <2>3 DEF InOrder
  <1> QED  BY <1>1, <1>2, <1>5, CheckInOrder DEF InOrder
LEMMA ResetEventKeeps ==
    ASSUME TypeOK, NEW E \in SUBSET Events, ResetEvent(E)
    PROVE  /\ TypeOK'
           /\ OnItsWay(set, msgs, lost) => OnItsWay(set, msgs, lost)'
           /\ InOrder(set, answered) => InOrder(set, answered)'
  <1>1. /\ set' = Reset(set, E) /\ UNCHANGED <<msgs, sets, drops>>
        /\ answered' = [r \in Rules |-> IF EventOf[r] \in E THEN 1 ELSE answered[r]]
        /\ lost' = IF E = Events THEN {} ELSE lost
    BY DEF ResetEvent
  <1>2. /\ set' \in RuleSet /\ set'.events = set.events \ E
        /\ \A r \in Rules : set'.status[r] = IF EventOf[r] \in E THEN "not_done" ELSE set.status[r]
    BY <1>1, SetInType, ResetMeans
  <1>3. TypeOK'
    BY <1>1, <1>2 DEF TypeOK, RuleSet, Statuses
  <1>4. OnItsWay(set, msgs, lost) => OnItsWay(set, msgs, lost)'
    <2>1. SUFFICES ASSUME OnItsWay(set, msgs, lost), NEW r \in Rules, set'.status[r] = "in_progress"
                   PROVE  MessageOf[r] \in lost' \/ \E i \in DOMAIN msgs' : msgs'[i] = MessageOf[r]
      BY DEF OnItsWay
    <2>2. EventOf[r] \notin E /\ set.status[r] = "in_progress"
      BY <1>2, <2>1
    <2>3. E # Events
      BY <2>2, TableTypes
    <2> QED  BY <1>1, <2>1, <2>2, <2>3 DEF OnItsWay
  <1>5. InOrder(set, answered) => InOrder(set, answered)'
    <2>1. SUFFICES ASSUME InOrder(set, answered) PROVE InOrder(set, answered)'
      OBVIOUS
    <2>2. \A r \in Rules : answered'[r] = IF EventOf[r] \in E THEN 1 ELSE answered[r]
      BY <1>1
    <2>3. \A r \in Rules : EventOf[r] \notin set'.events => set'.status[r] = "not_done" /\ answered'[r] = 1
      BY <1>2, <2>1, <2>2 DEF InOrder
    <2>4. \A r \in Rules : EventOf[r] \in set'.events =>
            answered'[r] = IF set'.status[r] \in Unanswered THEN 0 ELSE 1
      BY <1>2, <2>1, <2>2 DEF InOrder
    <2>5. \A q, r \in Rules : EventOf[q] = EventOf[r] /\ q < r /\ set'.status[r] # "not_done" =>
            set'.status[q] = "complete"
      BY <1>2, <2>1 DEF InOrder
    <2>6. \A e \in set'.events : \E r \in Rules : EventOf[r] = e /\ set'.status[r] # "complete"
      BY <1>2, <2>1 DEF InOrder
    <2> QED  BY <2>3, <2>4, <2>5, <2>6 DEF InOrder
  <1> QED  BY <1>3, <1>4, <1>5

LEMMA RuleCompleteOnItsWay ==
    ASSUME WayInv, SetRuleComplete
    PROVE  WayInv'
  <1> DEFINE rs == Complete(set, Head(msgs), "in_progress", Events)
  <1>1. /\ msgs # <<>> /\ lost' = lost \ {Head(msgs)} /\ UNCHANGED <<sets, drops>>
        /\ Check(rs, Tail(msgs), answered)
    BY DEF SetRuleComplete
  <1>2. set \in RuleSet /\ msgs \in Seq(Messages) /\ answered \in [Rules -> 0 .. 2] /\ Tail(msgs) \in Seq(Messages)
    BY <1>1, SetInType DEF WayInv, TypeOK
  <1>3. rs \in RuleSet
    BY <1>2, CompleteMeans
  <1>4. OnItsWay(rs, Tail(msgs), lost')
    <2>1. ASSUME NEW r \in Rules, set.status[r] = "in_progress",
                 r \notin Updated(set, Head(msgs), "in_progress", Events)
          PROVE  MessageOf[r] \in lost' \/ \E i \in DOMAIN Tail(msgs) : Tail(msgs)[i] = MessageOf[r]
      <3>1. MessageOf[r] # Head(msgs)
        BY <2>1, TableTypes DEF Updated
      <3>2. CASE MessageOf[r] \in lost
        BY <1>1, <3>1, <3>2
      <3>3. CASE MessageOf[r] \notin lost
        <4>1. PICK i \in DOMAIN msgs : msgs[i] = MessageOf[r]
          BY <2>1, <3>3 DEF WayInv, OnItsWay
        <4>2. i # 1 /\ i \in 1 .. Len(msgs)
          BY <1>2, <3>1, <4>1
        <4>3. i - 1 \in DOMAIN Tail(msgs) /\ Tail(msgs)[i - 1] = msgs[i]
          BY <1>1, <1>2, <4>2
        <4> QED  BY <4>1, <4>3
      <3> QED  BY <3>2, <3>3
    <2> QED  BY <1>2, <2>1, CompleteOnItsWay
  <1> HIDE DEF rs
  <1>5. /\ set' \in RuleSet /\ msgs' \in Seq(Messages) /\ answered' \in [Rules -> 0 .. 2]
        /\ OnItsWay(set', msgs', lost')
    BY <1>1, <1>2, <1>3, <1>4, CheckOnItsWay
  <1> QED  BY <1>1, <1>5 DEF WayInv, TypeOK, RuleSet, Statuses, OnItsWay

LEMMA RuleCompleteInOrder ==
    ASSUME TableInOrder, OrderInv, SetRuleComplete
    PROVE  InOrder(set, answered)'
  <1> DEFINE U == Updated(set, Head(msgs), "in_progress", Events)
             rs == Complete(set, Head(msgs), "in_progress", Events)
  <1>1. msgs # <<>> /\ Check(rs, Tail(msgs), answered)
    BY DEF SetRuleComplete
  <1>2. set \in RuleSet /\ answered \in [Rules -> 0 .. 2] /\ Tail(msgs) \in Seq(Messages)
    BY <1>1, SetInType DEF OrderInv, TypeOK
  <1>3. InOrder(set, answered)
    BY DEF OrderInv
  <1>4. \A r \in U : r \in Rules /\ set.status[r] = "in_progress"
    BY DEF Updated
  <1>5. \A r \in U : EventOf[r] \in set.events /\ answered[r] = 1
    BY <1>3, <1>4 DEF InOrder, Unanswered
  <1>6. \A r \in U : \A q \in Rules : EventOf[q] = EventOf[r] /\ q < r => set.status[q] = "complete"
    BY <1>3, <1>4 DEF InOrder
  <1>7. \A r \in Rules : answered[r] = IF r \in U THEN 1 ELSE answered[r]
    BY <1>5
  <1>8. rs \in RuleSet /\ InOrder(rs, answered)
    BY <1>2, <1>3, <1>5, <1>6, <1>7, CompleteMeans, CompleteInOrder
  <1> HIDE DEF rs
  <1> QED  BY <1>1, <1>2, <1>8, CheckInOrder DEF InOrder

LEMMA DropOnItsWay ==
    ASSUME WayInv, DropDecision
    PROVE  WayInv'
  <1>1. /\ msgs # <<>> /\ drops < MaxDrops /\ drops' = drops + 1 /\ lost' = lost \cup {Head(msgs)}
        /\ msgs' = Tail(msgs) /\ UNCHANGED <<set, answered, sets>>
    BY DEF DropDecision
  <1>2. msgs \in Seq(Messages) /\ msgs' \in Seq(Messages) /\ Head(msgs) \in Messages
    BY <1>1 DEF WayInv, TypeOK
  <1>3. drops' \in 0 .. MaxDrops
    BY <1>1, RuleTable DEF WayInv, TypeOK
  <1>4. ASSUME NEW r \in Rules, set.status[r] = "in_progress", MessageOf[r] \notin lost'
        PROVE  \E i \in DOMAIN msgs' : msgs'[i] = MessageOf[r]
    <2>1. PICK i \in DOMAIN msgs : msgs[i] = MessageOf[r]
      BY <1>1, <1>4 DEF WayInv, OnItsWay
    <2>2. i # 1 /\ i \in 1 .. Len(msgs)
      BY <1>1, <1>2, <1>4, <2>1
    <2>3. i - 1 \in DOMAIN msgs' /\ msgs'[i - 1] = msgs[i]
      BY <1>1, <1>2, <2>2
    <2> QED  BY <2>1, <2>3
  <1> QED  BY <1>1, <1>2, <1>3, <1>4 DEF WayInv, TypeOK, OnItsWay

LEMMA InitWay == Init => WayInv /\ InOrder(set, answered)
  <1> SUFFICES ASSUME Init PROVE WayInv /\ InOrder(set, answered)
    OBVIOUS
  <1>1. TypeOK
    <2>1. 0 \in 0 .. MaxSets /\ 0 \in 0 .. MaxDrops /\ <<>> \in Seq(Messages)
      BY RuleTable
    <2> QED  BY <2>1 DEF Init, TypeOK
  <1>2. OnItsWay(set, msgs, lost) /\ InOrder(set, answered)
    BY DEF Init, OnItsWay, InOrder
  <1> QED  BY <1>1, <1>2 DEF WayInv

LEMMA StepOnItsWay == WayInv /\ [Next]_vars => WayInv'
  <1> SUFFICES ASSUME WayInv, [Next]_vars PROVE WayInv'
    OBVIOUS
  <1>1. ASSUME NEW e \in Events, SetEvent(e) PROVE WayInv'
    BY <1>1, SetEventOnItsWay
  <1>2. ASSUME NEW E \in SUBSET Events, ResetEvent(E) PROVE WayInv'
    BY <1>2, ResetEventKeeps DEF WayInv
  <1>3. ASSUME NEW e \in Events, ResetEvent({e}) PROVE WayInv'
    <2>1. {e} \in SUBSET Events
      OBVIOUS
    <2> QED  BY <1>2, <1>3, <2>1
  <1>4. CASE ResetEvent(Events)
    BY <1>2, <1>4
  <1>5. CASE SetRuleComplete
    BY <1>5, RuleCompleteOnItsWay
  <1>6. CASE DropDecision
    BY <1>6, DropOnItsWay
  <1>7. CASE UNCHANGED vars
    BY <1>7 DEF vars, WayInv, TypeOK, OnItsWay
  <1> QED  BY <1>1, <1>3, <1>4, <1>5, <1>6, <1>7 DEF Next

LEMMA StepInOrder ==
    ASSUME TableInOrder
    PROVE  TypeOK /\ TypeOK' /\ InOrder(set, answered) /\ [Next]_vars => InOrder(set, answered)'
  <1> SUFFICES ASSUME TypeOK, TypeOK', InOrder(set, answered), [Next]_vars PROVE InOrder(set, answered)'
    OBVIOUS
  <1>1. ASSUME NEW e \in Events, SetEvent(e) PROVE InOrder(set, answered)'
    BY <1>1, SetEventInOrder DEF OrderInv
  <1>2. ASSUME NEW E \in SUBSET Events, ResetEvent(E) PROVE InOrder(set, answered)'
    BY <1>2, ResetEventKeeps
  <1>3. ASSUME NEW e \in Events, ResetEvent({e}) PROVE InOrder(set, answered)'
    <2>1. {e} \in SUBSET Events
      OBVIOUS
    <2> QED  BY <1>2, <1>3, <2>1
  <1>4. CASE ResetEvent(Events)
    BY <1>2, <1>4
  <1>5. CASE SetRuleComplete
    BY <1>5, RuleCompleteInOrder DEF OrderInv
  <1>6. CASE DropDecision
    BY <1>6 DEF DropDecision, InOrder
  <1>7. CASE UNCHANGED vars
    BY <1>7 DEF vars, InOrder
  <1> QED  BY <1>1, <1>3, <1>4, <1>5, <1>6, <1>7 DEF Next
-----------------------------------------------------------------------------
(* The theorems. *)

(* Every variable stays in its type: the passes over the table, as deep as *)
(* the table is long, end in a rule set.                                   *)
THEOREM RulesTypes == Spec => []TypeOK
  <1>1. Spec => []WayInv
    BY InitWay, StepOnItsWay, PTL DEF Spec
  <1>2. WayInv => TypeOK
    BY DEF WayInv
  <1> QED  BY <1>1, <1>2, PTL

(* A rule in progress has its decision on the way to the client that will  *)
(* complete it, or the client threw it away: RulesEngine_RunRules marks no *)
(* rule without posting its decision, and RulesEngine_SetRuleComplete      *)
(* leaves no rule of the decision in progress, for any table at all.       *)
THEOREM DecisionsOnTheirWay == Spec => []InProgressOnItsWay
  <1>1. Spec => []WayInv
    BY InitWay, StepOnItsWay, PTL DEF Spec
  <1>2. WayInv => InProgressOnItsWay
    BY DEF WayInv, OnItsWay, InProgressOnItsWay
  <1> QED  BY <1>1, <1>2, PTL

(* The inductive invariant of a table in order: the rules of a set event   *)
(* are answered in the order of the table, once each.                      *)
THEOREM RulesInOrder ==
    ASSUME TableInOrder
    PROVE  Spec => []InOrder(set, answered)
  <1>1. Init => InOrder(set, answered)
    BY InitWay
  <1>2. TypeOK /\ TypeOK' /\ InOrder(set, answered) /\ [Next]_vars => InOrder(set, answered)'
    BY StepInOrder
  <1> QED  BY <1>1, <1>2, RulesTypes, PTL DEF Spec

(* The rules of an event are carried out one at a time: a deferred rule    *)
(* that is last cannot start beside one that it let pass.                  *)
THEOREM OneRuleRuns ==
    ASSUME TableInOrder
    PROVE  Spec => []OneRuleAtATime
  <1>1. TypeOK /\ InOrder(set, answered) => OneRuleAtATime
    <2>1. SUFFICES ASSUME InOrder(set, answered), NEW q \in Rules, NEW r \in Rules, EventOf[q] = EventOf[r],
                          set.status[q] = "in_progress", set.status[r] = "in_progress"
                   PROVE  q = r
      BY DEF OneRuleAtATime, RulesFor
    <2>2. ~(q < r) /\ ~(r < q)
      BY <2>1 DEF InOrder
    <2>3. q \in Nat /\ r \in Nat
      BY TableTypes
    <2> QED  BY <2>2, <2>3
  <1> QED  BY <1>1, RulesInOrder, RulesTypes, PTL

(* RulesEngine_UpdateRuleStatus clears an event neither before all of its  *)
(* rules have been answered nor later than with the last of them.          *)
THEOREM EventsInStep ==
    ASSUME TableInOrder
    PROVE  Spec => []EventsMatchRulesLeft
  <1>1. InOrder(set, answered) => EventsMatchRulesLeft
    BY DEF InOrder, EventsMatchRulesLeft, OwedRulesKeepTheirEvent, SetEventsHaveRulesLeft, RulesFor
  <1> QED  BY <1>1, RulesInOrder, PTL

(* No rule is answered, and so decided on, twice for one setting of its    *)
(* event.                                                                  *)
THEOREM RulesAnsweredOnce ==
    ASSUME TableInOrder
    PROVE  Spec => []AnsweredOnce
  <1>1. InOrder(set, answered) => AnsweredOnce
    BY DEF InOrder, AnsweredOnce
  <1> QED  BY <1>1, RulesInOrder, PTL
=============================================================================
