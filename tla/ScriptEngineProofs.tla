------------------------- MODULE ScriptEngineProofs -------------------------
(***************************************************************************)
(* Proofs about ScriptEngine.  The first part holds for procedures of every*)
(* kind, the second for those that end with their step.                    *)
(***************************************************************************)
EXTENDS ScriptEngine, TLAPS

-----------------------------------------------------------------------------
(* Types. *)

(* The client and the engine agree on what the engine does. *)
Agreed ==
    /\ ~panicked
    /\ state = "idle" <=> client = "idle"
    /\ state = "active" <=> client = "started"
    /\ state # "idle" => script \in Scripts

Callbacks == [Procs -> {"off", "complete", "cancel"}]

(* A step of a script in the table. *)
LEMMA StepOfScript ==
    ASSUME NEW sc \in Scripts
    PROVE  /\ sc \in Seq(Procs) /\ Len(sc) \in Nat /\ 1 \in 1 .. Len(sc)
           /\ \A i \in 1 .. Len(sc) : sc[i] \in Procs
  <1>1. sc \in Seq(Procs) /\ sc # <<>>
    BY ScriptTypes
  <1> QED  BY <1>1

LEMMA MsgType ==
    ASSUME NEW kind \in {"complete", "cancelled", "answer"}, NEW p \in Procs,
           NEW result \in Results, clock \in Nat
    PROVE  Msg(kind, p, result) \in Message
  BY DEF Msg, Message

LEMMA StartType ==
    ASSUME TypeOK, NEW p \in Procs, NEW q \in SUBSET Message, NEW arm \in Callbacks,
           StartProcedure(p, q, arm)
    PROVE  msgs' \in SUBSET Message /\ open' \in [Procs -> Nat] /\ armed' \in Callbacks
  <1>1. Msg("complete", p, "success") \in Message
    BY MsgType DEF TypeOK, Results
  <1>2. CASE AnswersFromStart(p)
    BY <1>1, <1>2 DEF StartProcedure, TypeOK
  <1>3. CASE ~AnswersFromStart(p)
    <2>1. /\ msgs' = q /\ armed' = [arm EXCEPT ![p] = "complete"]
          /\ open' = [open EXCEPT ![p] = IF Kind[p] = "pair_peer" THEN 1 ELSE @ + 1]
      BY <1>3 DEF StartProcedure
    <2>2. (IF Kind[p] = "pair_peer" THEN 1 ELSE open[p] + 1) \in Nat
      BY DEF TypeOK
    <2> QED  BY <2>1, <2>2 DEF TypeOK, Callbacks
  <1> QED  BY <1>2, <1>3

LEMMA CompleteType ==
    ASSUME TypeOK, Agreed, NEW q \in SUBSET Message, NEW result, NEW arm \in Callbacks,
           ProcCompleteCfm(result, q, arm), clock' \in Nat, starts' \in Nat, gave_up' = gave_up
    PROVE  TypeOK'
  <1>1. CASE state = "active" /\ result = "success" /\ step < Len(script)
    <2>1. /\ step' = step + 1 /\ StartProcedure(script[step + 1], q, arm)
          /\ UNCHANGED <<state, script, client, last, panicked>>
      BY <1>1 DEF ProcCompleteCfm
    <2>2. step + 1 \in 1 .. Len(script) /\ script[step + 1] \in Procs
      BY <1>1, StepOfScript DEF TypeOK, Agreed
    <2> QED  BY <2>1, <2>2, StartType DEF TypeOK, Callbacks
  <1>2. CASE ~(state = "active" /\ result = "success" /\ step < Len(script))
    <2>1. msgs' = q /\ armed' = arm /\ UNCHANGED <<open, panicked>>
      BY <1>2 DEF ProcCompleteCfm
    <2>2. ResetAndTell("complete") \/ UNCHANGED <<state, script, step, client, last>>
      BY <1>2 DEF ProcCompleteCfm
    <2>3. <<>> \in Seq(Procs)
      OBVIOUS
    <2> QED  BY <2>1, <2>2, <2>3 DEF ResetAndTell, TypeOK, Callbacks
  <1> QED  BY <1>1, <1>2

LEMMA CancelCfmType ==
    ASSUME TypeOK, NEW q \in SUBSET Message, NEW arm \in Callbacks, state = "cancelling",
           ProcCancelCfm(q, arm), clock' \in Nat, starts' \in Nat, gave_up' = gave_up
    PROVE  TypeOK'
  <1>1. msgs' = q /\ armed' = arm /\ UNCHANGED <<open, panicked>> /\ ResetAndTell("cancelled")
    BY DEF ProcCancelCfm
  <1>2. <<>> \in Seq(Procs)
    OBVIOUS
  <1> QED  BY <1>1, <1>2 DEF ResetAndTell, TypeOK, Callbacks

LEMMA CancelType ==
    ASSUME TypeOK, NEW p \in Procs, CancelProcedure(p)
    PROVE  msgs' \in SUBSET Message /\ open' \in [Procs -> Nat] /\ armed' \in Callbacks
  <1>1. Msg("cancelled", p, "success") \in Message
    BY MsgType DEF TypeOK, Results
  <1>2. DelayedCancel(p, msgs) \in SUBSET Message
    BY <1>1 DEF DelayedCancel, TypeOK
  <1>3. CASE CancelsAtOnce(p)
    <2>1. armed' = [armed EXCEPT ![p] = "off"] /\ open' = open /\ msgs' = DelayedCancel(p, msgs)
      BY <1>3 DEF CancelProcedure, CancelsAtOnce
    <2> QED  BY <1>2, <2>1 DEF TypeOK, Callbacks
  <1>4. CASE Kind[p] = "pair_peer"
    <2>1. armed' = armed /\ open' = open /\ msgs' = DelayedCancel(p, msgs)
      BY <1>4 DEF CancelProcedure, CancelsAtOnce
    <2> QED  BY <1>2, <2>1 DEF TypeOK, Callbacks
  <1>5. CASE Kind[p] \in {"continuous", "handover"}
    <2>1. armed' = [armed EXCEPT ![p] = "cancel"] /\ msgs' = msgs /\ open' = [open EXCEPT ![p] = @ + 1]
      BY <1>5 DEF CancelProcedure, CancelsAtOnce
    <2> QED  BY <2>1 DEF TypeOK, Callbacks
  <1>6. CASE ~CancelsAtOnce(p) /\ Kind[p] \notin {"pair_peer", "continuous", "handover"}
    BY <1>6 DEF CancelProcedure, CancelsAtOnce, TypeOK, Callbacks
  <1> QED  BY <1>3, <1>4, <1>5, <1>6
-----------------------------------------------------------------------------
(* A cancellation is confirmed at most once: of posted confirmations and   *)
(* callbacks that will confirm there is one, and only while cancelling.    *)

Confirming(p) == armed[p] = "cancel" /\ ~gave_up[p]

(* Nothing in q, and no callback in arm, will confirm. *)
Unconfirmed(q, arm) ==
    /\ \A m \in q : m.kind # "cancelled"
    /\ \A p \in Procs : arm[p] = "cancel" => gave_up[p]

OnlyHandoversFail == \A p \in Procs : gave_up[p] => Kind[p] = "handover"

ConfirmedOnce ==
    /\ state # "cancelling" => Unconfirmed(msgs, armed)
    /\ \A m, n \in msgs : m.kind = "cancelled" /\ n.kind = "cancelled" => m = n
    /\ \A p, r \in Procs : Confirming(p) /\ Confirming(r) => p = r
    /\ \A m \in msgs : m.kind = "cancelled" => \A p \in Procs : ~Confirming(p)

CInv == TypeOK /\ Agreed /\ OnlyHandoversFail /\ ConfirmedOnce

(* No more confirmations than before. *)
LEMMA NoMoreConfirm ==
    ASSUME ConfirmedOnce, state' = state, \A m \in msgs' : m.kind = "cancelled" => m \in msgs,
           \A p \in Procs : Confirming(p)' => Confirming(p)
    PROVE  ConfirmedOnce'
  BY DEF ConfirmedOnce, Unconfirmed, Confirming

(* None at all. *)
LEMMA NoneConfirms ==
    ASSUME Unconfirmed(msgs, armed)'
    PROVE  ConfirmedOnce'
  BY DEF ConfirmedOnce, Unconfirmed, Confirming

(* A callback that confirms has posted its confirmation. *)
LEMMA ConfirmationPosted ==
    ASSUME ConfirmedOnce, NEW p \in Procs, Confirming(p), state' = state, NEW new,
           \A m \in msgs' : m.kind = "cancelled" => m \in msgs \/ m = new,
           \A r \in Procs : Confirming(r)' => Confirming(r) /\ r # p
    PROVE  ConfirmedOnce'
  BY DEF ConfirmedOnce, Unconfirmed, Confirming

LEMMA StartUnconfirmed ==
    ASSUME NEW p \in Procs, NEW q, NEW arm \in Callbacks, Unconfirmed(q, arm),
           StartProcedure(p, q, arm), gave_up' = gave_up
    PROVE  Unconfirmed(msgs, armed)'
  <1>1. Msg("complete", p, "success").kind = "complete"
    BY DEF Msg
  <1>2. msgs' = q \/ msgs' = q \cup {Msg("complete", p, "success")}
    BY DEF StartProcedure
  <1>3. armed' = arm \/ armed' = [arm EXCEPT ![p] = "complete"]
    BY DEF StartProcedure
  <1>4. \A m \in msgs' : m.kind # "cancelled"
    BY <1>1, <1>2 DEF Unconfirmed
  <1>5. \A r \in Procs : armed'[r] = "cancel" => gave_up[r]
    BY <1>3 DEF Unconfirmed, Callbacks
  <1> QED  BY <1>4, <1>5 DEF Unconfirmed
-----------------------------------------------------------------------------
(* Every action keeps that. *)

(* A message is taken: q and arm are what is left. *)
Left(q, arm) ==
    /\ q \subseteq msgs /\ arm \in Callbacks
    /\ \A p \in Procs : arm[p] = "cancel" => armed[p] = "cancel"

LEMMA CompleteConfirms ==
    ASSUME CInv, NEW q, NEW arm, Left(q, arm), NEW result, ProcCompleteCfm(result, q, arm),
           clock' = clock + 1, starts' = starts, gave_up' = gave_up
    PROVE  CInv'
  <1> USE DEF CInv
  <1>1. clock' \in Nat /\ starts' \in Nat /\ q \in SUBSET Message /\ arm \in Callbacks
    BY DEF TypeOK, Left
  <1>2. TypeOK'
    BY <1>1, CompleteType
  <1>3. OnlyHandoversFail'
    BY DEF OnlyHandoversFail
  <1>4. CASE state = "active"
    <2>1. Unconfirmed(q, arm) /\ client = "started"
      BY <1>4 DEF ConfirmedOnce, Unconfirmed, Left, Agreed
    <2>2. CASE result = "success" /\ step < Len(script)
      <3>1. /\ StartProcedure(script[step + 1], q, arm)
            /\ UNCHANGED <<state, script, client, last, panicked>>
        BY <1>4, <2>2 DEF ProcCompleteCfm
      <3>2. script[step + 1] \in Procs
        BY <1>4, <2>2, StepOfScript DEF TypeOK, Agreed
      <3>3. ConfirmedOnce'
        BY <1>1, <2>1, <3>1, <3>2, StartUnconfirmed, NoneConfirms
      <3> QED  BY <1>2, <1>3, <3>1, <3>3 DEF Agreed
    <2>3. CASE ~(result = "success" /\ step < Len(script))
      <3>1. msgs' = q /\ armed' = arm /\ ResetAndTell("complete") /\ UNCHANGED panicked
        BY <1>4, <2>3 DEF ProcCompleteCfm
      <3>2. ConfirmedOnce'
        BY <2>1, <3>1, NoneConfirms DEF Unconfirmed
      <3> QED  BY <1>2, <1>3, <3>1, <3>2 DEF Agreed, ResetAndTell
    <2> QED  BY <2>2, <2>3
  <1>5. CASE state # "active"
    <2>1. msgs' = q /\ armed' = arm /\ UNCHANGED <<state, script, step, client, last, panicked>>
      BY <1>5 DEF ProcCompleteCfm
    <2>2. ConfirmedOnce'
      BY <2>1, NoMoreConfirm DEF Left, Confirming
    <2> QED  BY <1>2, <1>3, <2>1, <2>2 DEF Agreed
  <1> QED  BY <1>4, <1>5

LEMMA ConfirmationConfirms ==
    ASSUME CInv, NEW q, NEW arm, Left(q, arm), Unconfirmed(q, arm), state = "cancelling",
           ProcCancelCfm(q, arm), clock' = clock + 1, starts' = starts, gave_up' = gave_up
    PROVE  CInv'
  <1> USE DEF CInv
  <1>1. clock' \in Nat /\ starts' \in Nat /\ q \in SUBSET Message /\ arm \in Callbacks
    BY DEF TypeOK, Left
  <1>2. TypeOK'
    BY <1>1, CancelCfmType
  <1>3. msgs' = q /\ armed' = arm /\ ResetAndTell("cancelled") /\ UNCHANGED panicked
    BY DEF ProcCancelCfm
  <1>4. ConfirmedOnce'
    BY <1>3, NoneConfirms DEF Unconfirmed
  <1>5. OnlyHandoversFail' /\ Agreed'
    BY <1>3 DEF OnlyHandoversFail, Agreed, ResetAndTell
  <1> QED  BY <1>2, <1>4, <1>5

LEMMA StartScriptConfirms ==
    ASSUME CInv, NEW sc \in Scripts, StartScript(sc)
    PROVE  CInv'
  <1> USE DEF CInv
  <1>1. state = "idle" /\ gave_up' = gave_up
    BY DEF StartScript, Agreed
  <1>2. /\ state' = "active" /\ script' = sc /\ step' = 1 /\ StartProcedure(sc[1], msgs, armed)
        /\ client' = "started" /\ last' = "none" /\ UNCHANGED panicked
        /\ clock' = clock + 1 /\ starts' = starts + 1
    BY <1>1 DEF StartScript
  <1>3. sc \in Seq(Procs) /\ 1 \in 1 .. Len(sc) /\ sc[1] \in Procs /\ armed \in Callbacks
    BY StepOfScript DEF TypeOK, Callbacks
  <1>4. msgs' \in SUBSET Message /\ open' \in [Procs -> Nat] /\ armed' \in Callbacks
    BY <1>3, <1>2, StartType DEF TypeOK
  <1>5. TypeOK' /\ Agreed' /\ OnlyHandoversFail'
    BY <1>1, <1>2, <1>3, <1>4 DEF TypeOK, Callbacks, Agreed, OnlyHandoversFail
  <1>6. Unconfirmed(msgs, armed)
    BY <1>1 DEF ConfirmedOnce
  <1>7. ConfirmedOnce'
    BY <1>1, <1>2, <1>3, <1>6, StartUnconfirmed, NoneConfirms
  <1> QED  BY <1>5, <1>7

LEMMA CancelScriptConfirms ==
    ASSUME CInv, CancelScript
    PROVE  CInv'
  <1> USE DEF CInv
  <1> DEFINE p == script[step]
             new == Msg("cancelled", p, "success")
  <1>1. state = "active" /\ gave_up' = gave_up
    BY DEF CancelScript, Agreed
  <1>2. /\ state' = "cancelling" /\ client' = "cancelling" /\ last' = "none"
        /\ CancelProcedure(p) /\ clock' = clock + 1
        /\ UNCHANGED <<script, step, starts, panicked>>
    BY <1>1 DEF CancelScript
  <1>3. p \in Procs /\ armed \in Callbacks
    BY <1>1, StepOfScript DEF TypeOK, Agreed, Callbacks
  <1>4. msgs' \in SUBSET Message /\ open' \in [Procs -> Nat] /\ armed' \in Callbacks
    BY <1>2, <1>3, CancelType
  <1>5. TypeOK' /\ Agreed' /\ OnlyHandoversFail'
    BY <1>1, <1>2, <1>4 DEF TypeOK, Callbacks, Agreed, OnlyHandoversFail
  <1>6. Unconfirmed(msgs, armed)
    BY <1>1 DEF ConfirmedOnce
  <1> HIDE DEF p
  <1>7. \A m \in DelayedCancel(p, msgs) : m.kind = "cancelled" => m = new
    BY <1>6 DEF DelayedCancel, Unconfirmed
  <1> HIDE DEF new
  <1>8. ASSUME msgs' = DelayedCancel(p, msgs), \A r \in Procs : armed'[r] = "cancel" => armed[r] = "cancel"
        PROVE  ConfirmedOnce'
    <2>1. \A r \in Procs : ~Confirming(r)'
      BY <1>1, <1>6, <1>8 DEF Unconfirmed, Confirming
    <2>2. \A m \in msgs' : m.kind = "cancelled" => m = new
      BY <1>7, <1>8
    <2> QED  BY <1>2, <2>1, <2>2 DEF ConfirmedOnce
  <1>9. ASSUME msgs' = msgs, \A r \in Procs : r # p => armed'[r] = armed[r]
        PROVE  ConfirmedOnce'
    <2>1. \A r \in Procs : Confirming(r)' => r = p
      BY <1>1, <1>6, <1>9 DEF Unconfirmed, Confirming
    <2>2. \A m \in msgs' : m.kind # "cancelled"
      BY <1>6, <1>9 DEF Unconfirmed
    <2> QED  BY <1>2, <2>1, <2>2 DEF ConfirmedOnce
  <1>10. ConfirmedOnce'
    <2>1. CASE CancelsAtOnce(p) \/ Kind[p] = "pair_peer"
      <3>1. armed' = [armed EXCEPT ![p] = "off"] \/ armed' = armed
        BY <1>2, <2>1 DEF CancelProcedure, CancelsAtOnce
      <3>2. msgs' = DelayedCancel(p, msgs)
        BY <1>2, <2>1 DEF CancelProcedure, CancelsAtOnce
      <3> QED  BY <1>3, <1>8, <3>1, <3>2 DEF Callbacks
    <2>2. CASE ~(CancelsAtOnce(p) \/ Kind[p] = "pair_peer")
      <3>1. /\ msgs' = msgs
            /\ armed' = [armed EXCEPT ![p] = armed'[p]]
        BY <1>2, <1>3, <2>2 DEF CancelProcedure, Callbacks
      <3> QED  BY <1>3, <1>9, <3>1 DEF Callbacks
    <2> QED  BY <2>1, <2>2
  <1> QED  BY <1>5, <1>10

LEMMA ServiceConfirms ==
    ASSUME CInv, NEW p \in Procs, Answer(p)
    PROVE  CInv'
  <1> USE DEF CInv
  <1>1. PICK result \in Results : msgs' = msgs \cup {Msg("answer", p, result)}
    BY DEF Answer
  <1> DEFINE new == Msg("answer", p, result)
  <1>2. new \in Message /\ new.kind = "answer"
    BY MsgType DEF TypeOK, Msg
  <1>3. msgs' = msgs \cup {new} /\ UNCHANGED <<state, script, armed, gave_up, client, panicked>>
    BY <1>1 DEF Answer
  <1> HIDE DEF new
  <1>4. TypeOK'
    BY <1>2, <1>3 DEF Answer, TypeOK
  <1>5. Agreed' /\ OnlyHandoversFail'
    BY <1>3 DEF Agreed, OnlyHandoversFail
  <1>6. ConfirmedOnce'
    BY <1>2, <1>3, NoMoreConfirm DEF Confirming
  <1> QED  BY <1>4, <1>5, <1>6

(* What a handover may do when its procedures have answered. *)
LEMMA HandoverConfirms ==
    ASSUME CInv, NEW m \in msgs, Kind[m.proc] = "handover", armed[m.proc] # "off",
           HandoverAnswered(m), UNCHANGED <<state, script, step, client, last, panicked>>,
           clock' = clock + 1, starts' = starts
    PROVE  CInv'
  <1> USE DEF CInv
  <1> DEFINE p == m.proc
             q == msgs \ {m}
             failure == Msg("complete", p, "failed")
             success == Msg("complete", p, "success")
             confirmed == Msg("cancelled", p, "success")
  <1>1. p \in Procs /\ q \in SUBSET Message /\ armed \in Callbacks /\ gave_up \in [Procs -> BOOLEAN]
    BY DEF TypeOK, Message, Callbacks
  <1>2. /\ failure \in Message /\ success \in Message /\ confirmed \in Message
        /\ failure.kind = "complete" /\ success.kind = "complete"
    BY <1>1, MsgType DEF TypeOK, Results, Msg
  <1>3. Agreed'
    BY DEF Agreed
  <1>4. Disarmed(p) \in Callbacks /\ \A r \in Procs : Disarmed(p)[r] = "cancel" => armed[r] = "cancel" /\ r # p
    BY <1>1 DEF Disarmed, Callbacks
  <1>5. CASE /\ armed' = Disarmed(p) /\ UNCHANGED open
             /\ gave_up' = gave_up
             /\ \/ msgs' = q \cup {failure}
                \/ armed[p] = "cancel" /\ ~gave_up[p] /\ msgs' = DelayedCancel(p, q)
    <2>1. OnlyHandoversFail'
      BY <1>5 DEF OnlyHandoversFail
    <2>2. CASE msgs' = q \cup {failure}
      <3> HIDE DEF failure, p
      <3>1. TypeOK'
        BY <1>1, <1>2, <1>4, <1>5, <2>2 DEF TypeOK, Callbacks
      <3>2. ConfirmedOnce'
        BY <1>2, <1>4, <1>5, <2>2, NoMoreConfirm DEF Confirming
      <3> QED  BY <1>3, <2>1, <3>1, <3>2
    <2>3. CASE armed[p] = "cancel" /\ ~gave_up[p] /\ msgs' = DelayedCancel(p, q)
      <3>1. \A n \in DelayedCancel(p, q) : n \in msgs \/ n = confirmed
        BY DEF DelayedCancel
      <3> HIDE DEF confirmed, p, q
      <3>2. TypeOK'
        <4>1. msgs' \in SUBSET Message
          BY <1>2, <2>3, <3>1 DEF TypeOK
        <4> QED  BY <1>4, <1>5, <4>1 DEF TypeOK, Callbacks
      <3>3. Confirming(p) /\ \A r \in Procs : Confirming(r)' => Confirming(r) /\ r # p
        BY <1>1, <1>4, <1>5, <2>3 DEF Confirming
      <3>4. ConfirmedOnce'
        BY <1>1, <2>3, <3>1, <3>3, ConfirmationPosted
      <3> QED  BY <1>3, <2>1, <3>2, <3>4
    <2> QED  BY <1>5, <2>2, <2>3
  <1>6. CASE /\ armed[p] = "complete"
             /\ armed' = Disarmed(p) /\ UNCHANGED open
             /\ gave_up' = [gave_up EXCEPT ![p] = FALSE]
             /\ msgs' = q \cup {success}
    <2> HIDE DEF success, p
    <2>1. TypeOK'
      BY <1>1, <1>2, <1>4, <1>6 DEF TypeOK, Callbacks
    <2>2. OnlyHandoversFail'
      BY <1>1, <1>6 DEF OnlyHandoversFail
    <2>3. \A r \in Procs : Confirming(r)' => Confirming(r)
      BY <1>1, <1>4, <1>6 DEF Confirming
    <2>4. ConfirmedOnce'
      BY <1>2, <1>6, <2>3, NoMoreConfirm
    <2> QED  BY <1>3, <2>1, <2>2, <2>4
  <1>7. CASE /\ armed[p] = "complete"
             /\ open' = [open EXCEPT ![p] = @ + 1] /\ msgs' = q
             /\ \/ gave_up' = [gave_up EXCEPT ![p] = FALSE] /\ armed' = armed
                \/ gave_up' = [gave_up EXCEPT ![p] = TRUE] /\ armed' = [armed EXCEPT ![p] = "cancel"]
    <2>0. Kind[p] = "handover"
      OBVIOUS
    <2> HIDE DEF p
    <2>1. TypeOK'
      <3>1. open' \in [Procs -> Nat]
        BY <1>1, <1>7 DEF TypeOK
      <3>2. armed' \in Callbacks /\ gave_up' \in [Procs -> BOOLEAN] /\ msgs' \in SUBSET Message
        BY <1>1, <1>7 DEF Callbacks
      <3> QED  BY <3>1, <3>2 DEF TypeOK, Callbacks
    <2>2. OnlyHandoversFail'
      BY <1>1, <1>7, <2>0 DEF OnlyHandoversFail
    <2>3. \A r \in Procs : Confirming(r)' => Confirming(r)
      BY <1>1, <1>7 DEF Confirming, Callbacks
    <2>4. ConfirmedOnce'
      BY <1>7, <2>3, NoMoreConfirm
    <2> QED  BY <1>3, <2>1, <2>2, <2>4
  <1>8. \/ /\ armed' = Disarmed(p) /\ UNCHANGED <<open, gave_up>>
           /\ \/ msgs' = q \cup {failure}
              \/ armed[p] = "cancel" /\ ~gave_up[p] /\ msgs' = DelayedCancel(p, q)
        \/ /\ armed[p] = "complete"
           /\ armed' = Disarmed(p) /\ UNCHANGED open
           /\ gave_up' = [gave_up EXCEPT ![p] = FALSE]
           /\ msgs' = q \cup {success}
        \/ /\ armed[p] = "complete"
           /\ open' = [open EXCEPT ![p] = @ + 1] /\ msgs' = q
           /\ \/ gave_up' = [gave_up EXCEPT ![p] = FALSE] /\ armed' = armed
              \/ gave_up' = [gave_up EXCEPT ![p] = TRUE] /\ armed' = [armed EXCEPT ![p] = "cancel"]
    BY DEF HandoverAnswered
  <1> QED  BY <1>5, <1>6, <1>7, <1>8

LEMMA AnswerConfirms ==
    ASSUME CInv, NEW m \in msgs, HandleAnswer(m), clock' = clock + 1, starts' = starts
    PROVE  CInv'
  <1> USE DEF CInv
  <1> DEFINE p == m.proc
             q == msgs \ {m}
  <1>1. /\ p \in Procs /\ m.result \in Results /\ q \in SUBSET Message
        /\ armed \in Callbacks /\ armed[p] \in {"off", "complete", "cancel"}
    BY DEF TypeOK, Message, Callbacks
  <1>2. /\ Disarmed(p) \in Callbacks
        /\ \A r \in Procs : Disarmed(p)[r] = "cancel" => armed[r] = "cancel" /\ r # p
    BY <1>1 DEF Disarmed, Callbacks
  <1>3. Left(q, Disarmed(p))
    BY <1>2 DEF Left
  <1>a. CASE armed[p] = "off"
    <2>1. msgs' = q /\ UNCHANGED <<state, script, step, armed, open, gave_up, client, last, panicked>>
      BY <1>a DEF HandleAnswer
    <2>2. TypeOK' /\ Agreed' /\ OnlyHandoversFail'
      BY <2>1 DEF TypeOK, Agreed, OnlyHandoversFail
    <2>3. ConfirmedOnce'
      BY <2>1, NoMoreConfirm DEF Confirming
    <2> QED  BY <2>2, <2>3
  <1>b. CASE armed[p] # "off" /\ Kind[p] = "handover"
    <2>1. HandoverAnswered(m) /\ UNCHANGED <<state, script, step, client, last, panicked>>
      BY <1>b DEF HandleAnswer, AnswersByMessage, AnswersDirectly
    <2> QED  BY <1>b, <2>1, HandoverConfirms
  <1>c. CASE armed[p] # "off" /\ AnswersByMessage(p)
    <2>1. /\ armed' = Disarmed(p)
          /\ msgs' = IF armed[p] = "complete" THEN q \cup {Msg("complete", p, m.result)}
                                              ELSE DelayedCancel(p, q)
          /\ UNCHANGED <<state, script, step, open, gave_up, client, last, panicked>>
      BY <1>c DEF HandleAnswer, AnswersByMessage, AnswersDirectly
    <2>2. Agreed' /\ OnlyHandoversFail'
      BY <2>1 DEF Agreed, OnlyHandoversFail
    <2>3. CASE armed[p] = "complete"
      <3> DEFINE new == Msg("complete", p, m.result)
      <3>1. new \in Message /\ new.kind = "complete" /\ msgs' = q \cup {new}
        BY <1>1, <2>1, <2>3, MsgType DEF TypeOK, Msg
      <3> HIDE DEF new, p
      <3>2. TypeOK'
        BY <1>1, <1>2, <2>1, <3>1 DEF TypeOK, Callbacks
      <3>3. ConfirmedOnce'
        BY <1>2, <2>1, <3>1, NoMoreConfirm DEF Confirming
      <3> QED  BY <2>2, <3>2, <3>3
    <2>4. CASE armed[p] = "cancel"
      <3> DEFINE new == Msg("cancelled", p, "success")
      <3>1. new \in Message /\ msgs' = DelayedCancel(p, q)
        BY <1>1, <2>1, <2>4, MsgType DEF TypeOK, Results
      <3>2. \A n \in msgs' : n \in msgs \/ n = new
        BY <3>1 DEF DelayedCancel
      <3>3. ~gave_up[p]
        BY <1>1, <1>c DEF OnlyHandoversFail, AnswersByMessage
      <3> HIDE DEF new, p, q
      <3>4. TypeOK'
        <4>1. msgs' \in SUBSET Message
          BY <3>1, <3>2 DEF TypeOK
        <4> QED  BY <1>2, <2>1, <4>1 DEF TypeOK, Callbacks
      <3>5. Confirming(p) /\ \A r \in Procs : Confirming(r)' => Confirming(r) /\ r # p
        BY <1>2, <2>1, <2>4, <3>3 DEF Confirming
      <3>6. ConfirmedOnce'
        BY <1>1, <2>1, <3>2, <3>5, ConfirmationPosted
      <3> QED  BY <2>2, <3>4, <3>6
    <2> QED  BY <1>1, <1>c, <2>3, <2>4
  <1>d. CASE armed[p] = "complete" /\ AnswersDirectly(p)
    <2>1. ProcCompleteCfm(ResultOf(m), q, Disarmed(p)) /\ gave_up' = gave_up
      BY <1>d DEF HandleAnswer, AnswersDirectly
    <2> QED  BY <1>3, <2>1, CompleteConfirms
  <1>e. CASE armed[p] = "cancel" /\ AnswersDirectly(p)
    <2>1. ProcCancelCfm(q, Disarmed(p)) /\ gave_up' = gave_up
      BY <1>e DEF HandleAnswer, AnswersDirectly
    <2>2. Confirming(p)
      BY <1>1, <1>e DEF OnlyHandoversFail, AnswersDirectly, Confirming
    <2>3. state = "cancelling"
      BY <1>1, <2>2 DEF ConfirmedOnce, Unconfirmed, Confirming
    <2>4. \A n \in msgs : n.kind # "cancelled"
      BY <1>1, <2>2 DEF ConfirmedOnce
    <2>5. \A r \in Procs : Disarmed(p)[r] = "cancel" => gave_up[r]
      BY <1>1, <1>2, <2>2 DEF ConfirmedOnce, Confirming
    <2>6. Unconfirmed(q, Disarmed(p))
      BY <2>4, <2>5 DEF Unconfirmed
    <2> QED  BY <1>3, <2>1, <2>3, <2>6, ConfirmationConfirms
  <1> QED  BY <1>1, <1>a, <1>b, <1>c, <1>d, <1>e DEF AnswersDirectly

LEMMA DeliverConfirms ==
    ASSUME CInv, Deliver
    PROVE  CInv'
  <1> USE DEF CInv
  <1>1. PICK m \in msgs : IF m.kind = "answer" THEN HandleAnswer(m) ELSE HandleDelayedCfm(m)
    BY DEF Deliver
  <1>2. clock' = clock + 1 /\ starts' = starts
    BY DEF Deliver
  <1>3. m.kind \in {"complete", "cancelled", "answer"}
    BY DEF TypeOK, Message
  <1>4. Left(msgs \ {m}, armed)
    BY DEF Left, TypeOK, Callbacks
  <1>a. CASE m.kind = "answer"
    BY <1>1, <1>2, <1>a, AnswerConfirms
  <1>b. CASE m.kind = "complete"
    <2>1. ProcCompleteCfm(m.result, msgs \ {m}, armed) /\ gave_up' = gave_up
      BY <1>1, <1>b DEF HandleDelayedCfm
    <2> QED  BY <1>2, <1>4, <2>1, CompleteConfirms
  <1>c. CASE m.kind = "cancelled"
    <2>1. ProcCancelCfm(msgs \ {m}, armed) /\ gave_up' = gave_up
      BY <1>1, <1>c DEF HandleDelayedCfm
    <2>2. state = "cancelling"
      BY <1>c DEF ConfirmedOnce, Unconfirmed
    <2>3. Unconfirmed(msgs \ {m}, armed)
      BY <1>c DEF ConfirmedOnce, Unconfirmed, Confirming
    <2> QED  BY <1>2, <1>4, <2>1, <2>2, <2>3, ConfirmationConfirms
  <1> QED  BY <1>3, <1>a, <1>b, <1>c

LEMMA InitConfirms == Init => CInv
  <1> SUFFICES ASSUME Init PROVE CInv
    OBVIOUS
  <1>1. <<>> \in Seq(Procs)
    OBVIOUS
  <1>2. TypeOK
    BY <1>1 DEF Init, TypeOK
  <1>3. Agreed /\ OnlyHandoversFail
    BY DEF Init, Agreed, OnlyHandoversFail
  <1>4. ConfirmedOnce
    BY DEF Init, ConfirmedOnce, Unconfirmed, Confirming
  <1> QED  BY <1>2, <1>3, <1>4 DEF CInv

LEMMA StepConfirms == CInv /\ [Next]_vars => CInv'
  <1> SUFFICES ASSUME CInv, [Next]_vars PROVE CInv'
    OBVIOUS
  <1>1. ASSUME NEW sc \in Scripts, StartScript(sc) PROVE CInv'
    BY <1>1, StartScriptConfirms
  <1>2. CASE CancelScript
    BY <1>2, CancelScriptConfirms
  <1>3. CASE Deliver
    BY <1>3, DeliverConfirms
  <1>4. ASSUME NEW p \in Procs, Answer(p) PROVE CInv'
    BY <1>4, ServiceConfirms
  <1>5. CASE UNCHANGED vars
    <2>1. TypeOK' /\ Agreed' /\ OnlyHandoversFail'
      BY <1>5 DEF vars, CInv, TypeOK, Agreed, OnlyHandoversFail
    <2>2. ConfirmedOnce'
      BY <1>5 DEF vars, CInv, ConfirmedOnce, Unconfirmed, Confirming
    <2> QED  BY <2>1, <2>2 DEF CInv
  <1> QED  BY <1>1, <1>2, <1>3, <1>4, <1>5 DEF Next

(* The inductive invariant for every kind of procedure: one confirmation   *)
(* at most is posted or due, and only while a script is being cancelled.   *)
THEOREM EngineInductive == Spec => []CInv
  BY InitConfirms, StepConfirms, PTL DEF Spec

(* Every variable stays in its type, and the step within its script.       *)
THEOREM EngineTypes == Spec => []TypeOK
  <1>1. CInv => TypeOK
    BY DEF CInv
  <1> QED  BY <1>1, EngineInductive, PTL

(* scriptEngine_ProcCancelCfm is never called while nothing is cancelled,  *)
(* nor a script started while one runs: neither PanicFalse is reached,     *)
(* whatever the kinds of the procedures.                                   *)
THEOREM EngineNeverPanics == Spec => []NoPanic
  <1>1. CInv => NoPanic
    BY DEF CInv, Agreed, NoPanic
  <1> QED  BY <1>1, EngineInductive, PTL

(* What a step of the engine is to its client. *)
LEMMA StepAnswers == CInv /\ [Next]_vars => [Contract!Next]_(Contract!vars)
  <1> SUFFICES ASSUME CInv, [Next]_vars PROVE Contract!Next \/ UNCHANGED <<client, last>>
    BY DEF Contract!vars
  <1> USE DEF Contract!Next, Contract!Start, Contract!Cancel, Contract!Finish, Contract!Confirm
  <1>1. ASSUME NEW sc \in Scripts, StartScript(sc) PROVE Contract!Next \/ UNCHANGED <<client, last>>
    BY <1>1 DEF StartScript
  <1>2. CASE CancelScript
    BY <1>2 DEF CancelScript
  <1>3. ASSUME NEW result, NEW q, NEW arm, ProcCompleteCfm(result, q, arm)
        PROVE  Contract!Next \/ UNCHANGED <<client, last>>
    BY <1>3 DEF ProcCompleteCfm, ResetAndTell, CInv, Agreed
  <1>4. ASSUME NEW q, NEW arm, ProcCancelCfm(q, arm)
        PROVE  Contract!Next \/ UNCHANGED <<client, last>>
    <2>1. state = "cancelling" => client = "cancelling"
      BY DEF CInv, Agreed, TypeOK
    <2> QED  BY <1>4, <2>1 DEF ProcCancelCfm, ResetAndTell
  <1>5. CASE Deliver
    <2>1. PICK m \in msgs : IF m.kind = "answer" THEN HandleAnswer(m) ELSE HandleDelayedCfm(m)
      BY <1>5 DEF Deliver
    <2>2. CASE m.kind # "answer"
      BY <1>3, <1>4, <2>1, <2>2 DEF HandleDelayedCfm
    <2>3. CASE m.kind = "answer"
      <3>1. armed[m.proc] \in {"off", "complete", "cancel"}
        BY DEF CInv, TypeOK, Message
      <3>2. CASE armed[m.proc] = "off" \/ ~AnswersDirectly(m.proc)
        BY <2>1, <2>3, <3>2 DEF HandleAnswer, AnswersDirectly
      <3>3. CASE armed[m.proc] # "off" /\ AnswersDirectly(m.proc)
        BY <1>3, <1>4, <2>1, <2>3, <3>1, <3>3 DEF HandleAnswer, AnswersDirectly
      <3> QED  BY <3>2, <3>3
    <2> QED  BY <2>2, <2>3
  <1>6. ASSUME NEW p \in Procs, Answer(p) PROVE Contract!Next \/ UNCHANGED <<client, last>>
    BY <1>6 DEF Answer
  <1>7. CASE UNCHANGED vars
    BY <1>7 DEF vars
  <1> QED  BY <1>1, <1>2, <1>5, <1>6, <1>7 DEF Next

(* To its client the engine is a procedure: a completion answers a script  *)
(* it started, a confirmation one it has cancelled, once each, whatever    *)
(* the kinds of its procedures.                                            *)
THEOREM EngineIsAProcedure == Spec => AnswersAsAsked
  <1>1. Init => Contract!Init
    BY DEF Init, Contract!Init
  <1> QED
    BY <1>1, StepAnswers, EngineInductive, PTL DEF Spec, AnswersAsAsked, Contract!Safety
-----------------------------------------------------------------------------
(* Whether a procedure confirms every cancellation: one that stops an LE   *)
(* broadcast, or that makes the earbud not connectable, does not when its  *)
(* completion is posted already (ScriptEngineStopLe.cfg).                  *)
ConfirmsCancel(p) == Kind[p] \notin {"stop_le", "connectable_off"}

(* Whether procedures end with their step: the pairing with the peer goes  *)
(* on when it is cancelled, and a handover that is cancelled may answer    *)
(* with a completion.                                                      *)
EndWithTheirStep == \A p \in Procs : Kind[p] \notin {"pair_peer", "handover"}

CancelsConfirmed == \A sc \in Scripts : \A i \in 1 .. Len(sc) : ConfirmsCancel(sc[i])

-----------------------------------------------------------------------------
(* The inductive invariant.  At most one report is on its way, and it is   *)
(* of the step in progress: posted, or due from its service.               *)

Current == script[step]

IsReport(m) == m.kind # "answer"

(* An answer is owed to the callback cb of procedure p. *)
Owed(p, cb) == armed[p] = cb /\ (open[p] > 0 \/ InFlight("answer", p))

(* The completion of the step in progress is either posted or owed. *)
StepReports == state = "active" => (InFlight("complete", Current) # Owed(Current, "complete"))

Stamped == \A m \in msgs : m.at < clock

OneReport == \A m, n \in msgs : IsReport(m) /\ IsReport(n) => m = n

(* A callback is armed only while its service owes an answer. *)
Awaited == \A p \in Procs : armed[p] # "off" => open[p] > 0 \/ InFlight("answer", p)

ArmedForState ==
    \A p \in Procs :
        /\ armed[p] = "complete" => /\ state = "active"
                                    /\ Kind[p] \in {"service", "deferred", "late", "connectable_off"}
        /\ armed[p] = "cancel" => /\ state = "cancelling"
                                  /\ Kind[p] \in {"late", "continuous", "connectable_off"}
                                  /\ Kind[p] # "continuous" => \A m \in msgs : ~IsReport(m)

(* What completes directly from its service never posts its completion; a  *)
(* completion that outlives the cancellation is of a kind that leaves it.  *)
PostedByKind ==
    \A m \in msgs :
        /\ m.kind = "complete" => Kind[m.proc] \notin {"service", "late"}
        /\ m.kind = "complete" /\ state = "cancelling" =>
              Kind[m.proc] \in {"continuous", "stop_le", "connectable_off"}
        /\ m.kind = "cancelled" => Kind[m.proc] # "continuous"

(* The service of a continuous procedure is asked once, by its cancel: the *)
(* answer is due to nobody else and comes after the posted completion.     *)
ContinuousAsksOnce ==
    \A p \in Procs : Kind[p] = "continuous" =>
        /\ armed[p] = "off" => open[p] = 0 /\ ~InFlight("answer", p)
        /\ open[p] <= 1
        /\ open[p] = 1 => ~InFlight("answer", p)
        /\ \A m, n \in msgs :
              m.proc = p /\ n.proc = p /\ n.kind = "answer" =>
                  /\ m.kind = "answer" => m = n
                  /\ m.kind # "answer" => m.at < n.at

CancelConfirmed ==
    state = "cancelling" /\ ConfirmsCancel(Current) =>
        InFlight("cancelled", Current) \/ Owed(Current, "cancel")

IInv ==
    /\ EndWithTheirStep /\ TypeOK /\ Agreed /\ Stamped /\ NothingStale /\ StepReports
    /\ OneReport /\ Awaited /\ ArmedForState /\ PostedByKind
    /\ ContinuousAsksOnce /\ CancelConfirmed
-----------------------------------------------------------------------------
(* What the invariant says of the procedure in progress and its messages.  *)

LEMMA StepInProgress ==
    ASSUME IInv, state # "idle"
    PROVE  /\ script \in Scripts /\ script \in Seq(Procs)
           /\ step \in 1 .. Len(script) /\ Current \in Procs
  <1>1. script \in Scripts /\ script \in Seq(Procs) /\ step \in 1 .. Len(script)
    BY DEF IInv, Agreed, TypeOK
  <1> QED  BY <1>1 DEF Current

(* Nothing of a step is left: a script, or the next step, may begin. *)
Quiet(q, arm) ==
    /\ q \subseteq msgs
    /\ arm = [p \in Procs |-> "off"]
    /\ \A m \in q : ~IsReport(m)
    /\ \A p \in Procs : Kind[p] = "continuous" =>
          open[p] = 0 /\ \A m \in q : m.proc # p

LEMMA QuietWhenIdle ==
    ASSUME IInv, state = "idle"
    PROVE  Quiet(msgs, armed)
  <1> USE DEF IInv
  <1>1. \A p \in Procs : armed[p] = "off"
    BY DEF NothingStale
  <1>2. armed = [p \in Procs |-> "off"]
    BY <1>1 DEF TypeOK
  <1>3. \A m \in msgs : ~IsReport(m)
    BY DEF NothingStale, IsReport
  <1>4. ASSUME NEW p \in Procs, Kind[p] = "continuous"
        PROVE  open[p] = 0 /\ \A m \in msgs : m.proc # p
    BY <1>1, <1>3, <1>4 DEF ContinuousAsksOnce, InFlight, IsReport
  <1> QED  BY <1>2, <1>3, <1>4 DEF Quiet

(* A report that ends its step was the last of it. *)
LEMMA QuietAfterReport ==
    ASSUME IInv, NEW m \in msgs, IsReport(m), ~(m.kind = "complete" /\ state = "cancelling")
    PROVE  Quiet(msgs \ {m}, armed)
  <1> USE DEF IInv
  <1>1. m.kind \in {"complete", "cancelled"} /\ m.proc = Current /\ state # "idle"
    BY DEF TypeOK, Message, IsReport, NothingStale, Current
  <1>2. Current \in Procs
    BY <1>1, StepInProgress
  <1>3. armed[Current] = "off"
    <2>1. CASE state = "active"
      <3>1. m.kind = "complete"
        BY <1>1, <2>1 DEF NothingStale
      <3>2. armed[Current] # "complete"
        BY <1>1, <1>2, <2>1, <3>1 DEF StepReports, Owed, InFlight, Awaited, Current
      <3> QED  BY <1>2, <2>1, <3>2 DEF ArmedForState, TypeOK
    <2>2. CASE state = "cancelling"
      <3>1. m.kind = "cancelled"
        BY <1>1, <2>2
      <3>2. armed[Current] # "cancel"
        BY <1>1, <1>2, <3>1 DEF ArmedForState, PostedByKind
      <3> QED  BY <1>2, <2>2, <3>2 DEF ArmedForState, TypeOK
    <2> QED  BY <1>1, <2>1, <2>2 DEF TypeOK
  <1>4. \A p \in Procs : armed[p] = "off"
    BY <1>3 DEF NothingStale, Current
  <1>5. armed = [p \in Procs |-> "off"]
    BY <1>4 DEF TypeOK
  <1>6. \A n \in msgs \ {m} : ~IsReport(n)
    BY DEF OneReport
  <1>7. ASSUME NEW p \in Procs, Kind[p] = "continuous"
        PROVE  open[p] = 0 /\ \A n \in msgs \ {m} : n.proc # p
    BY <1>4, <1>6, <1>7 DEF ContinuousAsksOnce, InFlight, IsReport
  <1> QED  BY <1>5, <1>6, <1>7 DEF Quiet

(* So was an answer that ends it: a posted completion is older than it. *)
LEMMA QuietAfterAnswer ==
    ASSUME IInv, NEW m \in msgs, m.kind = "answer", \A n \in msgs : m.at =< n.at,
           armed[m.proc] # "off"
    PROVE  /\ Quiet(msgs \ {m}, Disarmed(m.proc))
           /\ armed[m.proc] = "complete" => state = "active"
           /\ armed[m.proc] = "cancel" => state = "cancelling"
  <1> USE DEF IInv
  <1>1. m \in Message /\ m.proc \in Procs
    BY DEF TypeOK, Message
  <1>2. m.proc = Current /\ state # "idle" /\ armed[Current] \in {"complete", "cancel"}
    BY <1>1 DEF NothingStale, Current, TypeOK
  <1>3. Current \in Procs
    BY <1>1, <1>2
  <1>4. ASSUME NEW n \in msgs PROVE ~IsReport(n)
    <2>1. CASE armed[Current] = "complete"
      <3>1. state = "active" /\ ~InFlight("complete", Current)
        BY <1>3, <2>1 DEF ArmedForState, StepReports, Owed, Awaited, Current
      <3> QED  BY <3>1 DEF NothingStale, InFlight, IsReport, TypeOK, Message, Current
    <2>2. CASE armed[Current] = "cancel"
      <3>1. CASE Kind[Current] # "continuous"
        BY <1>3, <2>2, <3>1 DEF ArmedForState
      <3>2. CASE Kind[Current] = "continuous"
        <4>1. SUFFICES ASSUME IsReport(n) PROVE FALSE
          OBVIOUS
        <4>2. n.proc = Current
          BY <4>1 DEF NothingStale, IsReport, Current
        <4>3. n.at < m.at
          BY <1>2, <1>3, <3>2, <4>1, <4>2 DEF ContinuousAsksOnce, IsReport
        <4>4. m.at =< n.at /\ m.at \in Nat /\ n.at \in Nat
          BY DEF TypeOK, Message
        <4> QED  BY <4>3, <4>4
      <3> QED  BY <3>1, <3>2
    <2> QED  BY <1>2, <2>1, <2>2
  <1>5. Disarmed(m.proc) = [p \in Procs |-> "off"]
    BY <1>2 DEF Disarmed, TypeOK, NothingStale, Current
  <1>6. ASSUME NEW p \in Procs, Kind[p] = "continuous"
        PROVE  open[p] = 0 /\ \A n \in msgs \ {m} : n.proc # p
    <2>1. CASE p = Current
      <3>1. open[p] # 1 /\ open[p] <= 1 /\ open[p] \in Nat
        BY <1>2, <1>6, <2>1 DEF ContinuousAsksOnce, InFlight, TypeOK
      <3>2. \A n \in msgs : n.proc = p => n = m
        BY <1>2, <1>4, <1>6, <2>1 DEF ContinuousAsksOnce, IsReport
      <3> QED  BY <3>1, <3>2
    <2>2. CASE p # Current
      <3>1. armed[p] = "off"
        BY <2>2 DEF NothingStale, Current
      <3> QED  BY <1>4, <1>6, <3>1 DEF ContinuousAsksOnce, InFlight, IsReport
    <2> QED  BY <2>1, <2>2
  <1>7. /\ armed[m.proc] = "complete" => state = "active"
        /\ armed[m.proc] = "cancel" => state = "cancelling"
    BY <1>1 DEF ArmedForState
  <1> QED  BY <1>4, <1>5, <1>6, <1>7 DEF Quiet
-----------------------------------------------------------------------------
(* What the operations of the engine do to the invariant. *)

(* Starting a step when nothing of an earlier one is left. *)
LEMMA StartKeeps ==
    ASSUME IInv, NEW sc \in Scripts, NEW i \in 1 .. Len(sc), NEW q, NEW arm, Quiet(q, arm),
           StartProcedure(sc[i], q, arm),
           state' = "active", client' = "started", script' = sc, step' = i,
           clock' = clock + 1, UNCHANGED panicked, TypeOK'
    PROVE  IInv'
  <1> USE DEF IInv
  <1> DEFINE p == sc[i]
             new == Msg("complete", p, "success")
  <1>1. p \in Procs /\ Current' = p /\ clock \in Nat
    BY StepOfScript DEF Current, TypeOK
  <1>2. new.kind = "complete" /\ new.proc = p /\ new.at = clock
    BY DEF Msg
  <1>3. \A m \in q : m.kind = "answer" /\ m.at < clock
    BY DEF Quiet, IsReport, Stamped
  <1>4. \A r \in Procs : arm[r] = "off" /\ (Kind[r] = "continuous" => open[r] = 0 /\ \A m \in q : m.proc # r)
    BY DEF Quiet
  <1>5. \A r \in Procs : open[r] \in Nat
    BY DEF TypeOK
  <1>a. CASE AnswersFromStart(p)
    <2>1. msgs' = q \cup {new} /\ armed' = arm /\ open' = open
      BY <1>a DEF StartProcedure
    <2>2. Kind[p] \in {"instant", "continuous", "stop_le"}
      BY <1>a DEF AnswersFromStart
    <2> HIDE DEF p, new
    <2>3. Agreed'
      BY DEF Agreed
    <2>4. Stamped'
      BY <1>1, <1>2, <1>3, <2>1 DEF Stamped, TypeOK, Message
    <2>5. NothingStale'
      BY <1>1, <1>2, <1>3, <1>4, <2>1 DEF NothingStale, Current
    <2>6. StepReports'
      BY <1>1, <1>2, <1>3, <1>4, <2>1 DEF StepReports, Owed, InFlight, Current
    <2>7. OneReport' /\ PostedByKind'
      BY <1>2, <1>3, <2>1, <2>2 DEF OneReport, PostedByKind, IsReport
    <2>8. Awaited' /\ ArmedForState'
      BY <1>4, <2>1 DEF Awaited, ArmedForState
    <2>9. ContinuousAsksOnce'
      BY <1>2, <1>4, <2>1 DEF ContinuousAsksOnce, InFlight
    <2>10. CancelConfirmed'
      BY DEF CancelConfirmed
    <2> QED  BY <2>3, <2>4, <2>5, <2>6, <2>7, <2>8, <2>9, <2>10
  <1>b. CASE ~AnswersFromStart(p)
    <2>2. Kind[p] \in {"service", "deferred", "late", "connectable_off"}
      BY <1>1, <1>b, ScriptTypes DEF AnswersFromStart, Kinds, EndWithTheirStep
    <2>1. /\ msgs' = q /\ armed' = [arm EXCEPT ![p] = "complete"]
          /\ open' = [open EXCEPT ![p] = @ + 1]
      BY <1>b, <2>2 DEF StartProcedure
    <2> HIDE DEF p, new
    <2>3. /\ armed'[p] = "complete" /\ open'[p] > 0
          /\ \A r \in Procs : r # p => armed'[r] = "off" /\ open'[r] = open[r]
      BY <1>1, <1>4, <1>5, <2>1 DEF TypeOK, Quiet
    <2>4. Agreed'
      BY DEF Agreed
    <2>5. Stamped'
      BY <1>1, <1>3, <2>1 DEF Stamped, TypeOK, Message
    <2>6. NothingStale'
      BY <1>1, <1>3, <2>1, <2>3 DEF NothingStale, Current
    <2>7. StepReports'
      BY <1>1, <1>3, <2>1, <2>3 DEF StepReports, Owed, InFlight, Current
    <2>8. OneReport' /\ PostedByKind'
      BY <1>3, <2>1 DEF OneReport, PostedByKind, IsReport
    <2>9. Awaited' /\ ArmedForState'
      BY <2>2, <2>3 DEF Awaited, ArmedForState
    <2>10. ContinuousAsksOnce'
      BY <1>4, <2>1, <2>2, <2>3 DEF ContinuousAsksOnce, InFlight
    <2>11. CancelConfirmed'
      BY DEF CancelConfirmed
    <2> QED  BY <2>4, <2>5, <2>6, <2>7, <2>8, <2>9, <2>10, <2>11
  <1> QED  BY <1>a, <1>b

(* Ending the script. *)
LEMMA EndKeeps ==
    ASSUME IInv, NEW q, NEW arm, Quiet(q, arm), NEW callback, ResetAndTell(callback),
           msgs' = q, armed' = arm, UNCHANGED open,
           clock' = clock + 1, UNCHANGED panicked, TypeOK'
    PROVE  IInv'
  <1> USE DEF IInv
  <1>1. \A m \in msgs' : m.kind = "answer" /\ m.at < clock /\ m.at \in Nat
    BY DEF Quiet, IsReport, Stamped, TypeOK, Message
  <1>2. \A r \in Procs : /\ armed'[r] = "off"
                         /\ Kind[r] = "continuous" => open'[r] = 0 /\ \A m \in msgs' : m.proc # r
    BY DEF Quiet
  <1>3. state' = "idle" /\ client' = "idle"
    BY DEF ResetAndTell
  <1>4. Agreed'
    BY <1>3 DEF Agreed
  <1>5. Stamped'
    BY <1>1 DEF Stamped, TypeOK
  <1>6. NothingStale'
    BY <1>1, <1>2 DEF NothingStale
  <1>7. StepReports' /\ CancelConfirmed'
    BY <1>3 DEF StepReports, CancelConfirmed
  <1>8. OneReport' /\ PostedByKind'
    BY <1>1 DEF OneReport, PostedByKind, IsReport
  <1>9. Awaited' /\ ArmedForState'
    BY <1>2 DEF Awaited, ArmedForState
  <1>10. ContinuousAsksOnce'
    BY <1>2 DEF ContinuousAsksOnce, InFlight
  <1> QED  BY <1>4, <1>5, <1>6, <1>7, <1>8, <1>9, <1>10

(* A posted completion and an answer that ends its step do the same. *)
LEMMA CompletionKeeps ==
    ASSUME IInv, state = "active", NEW q, NEW arm, Quiet(q, arm), NEW result,
           ProcCompleteCfm(result, q, arm), clock' = clock + 1, TypeOK'
    PROVE  IInv'
  <1>1. script \in Scripts /\ step \in 1 .. Len(script) /\ client = "started"
    BY StepInProgress DEF IInv, Agreed
  <1>2. CASE result = "success" /\ step < Len(script)
    <2>1. /\ step' = step + 1 /\ StartProcedure(script[step + 1], q, arm)
          /\ UNCHANGED <<state, script, client, panicked>>
      BY <1>2 DEF ProcCompleteCfm
    <2>2. step + 1 \in 1 .. Len(script)
      BY <1>1, <1>2
    <2> QED  BY <1>1, <2>1, <2>2, StartKeeps
  <1>3. CASE ~(result = "success" /\ step < Len(script))
    <2>1. msgs' = q /\ armed' = arm /\ UNCHANGED <<open, panicked>> /\ ResetAndTell("complete")
      BY <1>3 DEF ProcCompleteCfm
    <2> QED  BY <2>1, EndKeeps
  <1> QED  BY <1>2, <1>3
(* Posting a report when nothing else of the step is left: the completion  *)
(* of an active step, or the confirmation of a cancelled one.              *)
LEMMA PostKeeps ==
    ASSUME IInv, NEW q, NEW arm, Quiet(q, arm), NEW kind, NEW result,
           msgs' = q \cup {Msg(kind, Current, result)}, armed' = arm,
           UNCHANGED <<state, script, step, open, client, panicked>>,
           \/ kind = "complete" /\ state = "active" /\ Kind[Current] \notin {"service", "late"}
           \/ kind = "cancelled" /\ state = "cancelling" /\ Kind[Current] # "continuous",
           clock' = clock + 1, TypeOK'
    PROVE  IInv'
  <1> USE DEF IInv
  <1> DEFINE new == Msg(kind, Current, result)
  <1>1. Current \in Procs /\ Current' = Current /\ clock \in Nat
    BY StepInProgress DEF Current, TypeOK
  <1>2. new.kind = kind /\ new.proc = Current /\ new.at = clock
    BY DEF Msg
  <1>3. \A m \in q : m.kind = "answer" /\ m.at < clock /\ m.at \in Nat
    BY DEF Quiet, IsReport, Stamped, TypeOK, Message
  <1>4. \A r \in Procs : /\ armed'[r] = "off"
                         /\ Kind[r] = "continuous" => open'[r] = 0 /\ \A m \in q : m.proc # r
    BY DEF Quiet
  <1>5. msgs' = q \cup {new}
    OBVIOUS
  <1> HIDE DEF new
  <1>6. Agreed'
    BY DEF Agreed
  <1>7. Stamped'
    BY <1>1, <1>2, <1>3, <1>5 DEF Stamped
  <1>8. NothingStale'
    BY <1>1, <1>2, <1>3, <1>4, <1>5 DEF NothingStale, Current
  <1>9. StepReports'
    BY <1>1, <1>2, <1>4, <1>5 DEF StepReports, Owed, InFlight, Current
  <1>10. OneReport' /\ PostedByKind'
    BY <1>2, <1>3, <1>5 DEF OneReport, PostedByKind, IsReport
  <1>11. Awaited' /\ ArmedForState'
    BY <1>4 DEF Awaited, ArmedForState
  <1>12. ContinuousAsksOnce'
    BY <1>2, <1>4, <1>5 DEF ContinuousAsksOnce, InFlight
  <1>13. CancelConfirmed'
    BY <1>1, <1>2, <1>5 DEF CancelConfirmed, InFlight, Current
  <1> QED  BY <1>6, <1>7, <1>8, <1>9, <1>10, <1>11, <1>12, <1>13

(* Taking a message that has no effect: an answer that comes after the     *)
(* cancellation of its procedure, a completion that outlives it.           *)
LEMMA IgnoreKeeps ==
    ASSUME IInv, NEW m \in msgs, msgs' = msgs \ {m},
           \/ m.kind = "answer" /\ armed[m.proc] = "off"
           \/ m.kind = "complete" /\ state = "cancelling",
           UNCHANGED <<state, script, step, armed, open, client, panicked>>,
           clock' = clock + 1, TypeOK'
    PROVE  IInv'
  <1> USE DEF IInv
  <1>1. \A n \in msgs' : n \in msgs /\ n.at < clock /\ n.at \in Nat /\ clock \in Nat
    BY DEF Stamped, TypeOK, Message
  <1>2. ASSUME NEW r \in Procs, armed[r] # "off"
        PROVE  InFlight("answer", r) => InFlight("answer", r)'
    BY <1>2 DEF InFlight
  <1>3. Agreed'
    BY DEF Agreed
  <1>4. Stamped'
    BY <1>1 DEF Stamped
  <1>5. NothingStale'
    BY <1>1 DEF NothingStale
  <1>6. OneReport' /\ PostedByKind'
    BY <1>1 DEF OneReport, PostedByKind, IsReport
  <1>7. Awaited' /\ ArmedForState'
    BY <1>1, <1>2 DEF Awaited, ArmedForState
  <1>8. StepReports'
    <2>1. SUFFICES ASSUME state = "active"
                   PROVE  (InFlight("complete", Current) # Owed(Current, "complete"))'
      BY DEF StepReports, Current
    <2>2. Current \in Procs /\ Current' = Current
      BY <2>1, StepInProgress DEF Current
    <2>3. InFlight("complete", Current)' = InFlight("complete", Current)
      BY <2>1, <2>2 DEF InFlight
    <2>4. Owed(Current, "complete")' = Owed(Current, "complete")
      BY <1>1, <1>2, <2>2 DEF Owed, InFlight
    <2> QED  BY <2>1, <2>3, <2>4 DEF StepReports, Current
  <1>9. ContinuousAsksOnce'
    BY <1>1, <1>2 DEF ContinuousAsksOnce, InFlight
  <1>10. CancelConfirmed'
    <2>1. SUFFICES ASSUME state = "cancelling", ConfirmsCancel(Current)
                   PROVE  (InFlight("cancelled", Current) \/ Owed(Current, "cancel"))'
      BY DEF CancelConfirmed, ConfirmsCancel, Current
    <2>2. Current \in Procs /\ Current' = Current
      BY <2>1, StepInProgress DEF Current
    <2>3. InFlight("cancelled", Current) => InFlight("cancelled", Current)'
      BY <2>2 DEF InFlight
    <2>4. Owed(Current, "cancel") => Owed(Current, "cancel")'
      BY <1>2, <2>2 DEF Owed
    <2> QED  BY <2>1, <2>3, <2>4 DEF CancelConfirmed
  <1> QED  BY <1>3, <1>4, <1>5, <1>6, <1>7, <1>8, <1>9, <1>10
LEMMA CancelKeeps ==
    ASSUME IInv, state = "active", state' = "cancelling", client' = "cancelling",
           CancelProcedure(Current), UNCHANGED <<script, step, panicked>>,
           clock' = clock + 1, TypeOK'
    PROVE  IInv'
  <1> USE DEF IInv
  <1> DEFINE new == Msg("cancelled", Current, "success")
  <1>1. Current \in Procs /\ Current' = Current /\ clock \in Nat /\ Kind[Current] \in Kinds
        /\ Kind[Current] \notin {"pair_peer", "handover"}
    BY StepInProgress, ScriptTypes DEF Current, TypeOK, EndWithTheirStep
  <1>2. new.kind = "cancelled" /\ new.proc = Current /\ new.at = clock
    BY DEF Msg
  <1>3. \A m \in msgs : /\ IsReport(m) => m.kind = "complete" /\ m.proc = Current
                        /\ m.at < clock /\ m.at \in Nat
                        /\ m.kind \in {"complete", "cancelled", "answer"}
    BY DEF NothingStale, IsReport, Stamped, TypeOK, Message, Current
  <1>4. \A r \in Procs : r # Current => armed[r] = "off"
    BY DEF NothingStale, Current
  <1>5. Agreed'
    BY DEF Agreed
  <1>6. StepReports'
    BY DEF StepReports
  <1>a. CASE CancelsAtOnce(Current)
    <2>1. /\ armed' = [armed EXCEPT ![Current] = "off"] /\ open' = open
          /\ msgs' = DelayedCancel(Current, msgs)
      BY <1>a DEF CancelProcedure, CancelsAtOnce
    <2>2. Kind[Current] \in {"instant", "service", "deferred"}
      BY <1>a DEF CancelsAtOnce
    <2>3. /\ new \in msgs'
          /\ \A m \in msgs' : m = new \/ (m \in msgs /\ m.kind = "answer")
          /\ \A m \in msgs : m.kind = "answer" => m \in msgs'
      <3>1. msgs' = {m \in msgs : ~(m.kind = "complete" /\ m.proc = Current)} \cup {new}
        BY <2>1 DEF DelayedCancel
      <3> HIDE DEF new
      <3>2. \A m \in msgs : m.kind = "answer" \/ (m.kind = "complete" /\ m.proc = Current)
        BY <1>3 DEF IsReport
      <3> QED  BY <3>1, <3>2
    <2>4. \A r \in Procs : armed'[r] = "off"
      BY <1>1, <1>4, <2>1 DEF TypeOK
    <2> HIDE DEF new
    <2>5. Stamped'
      <3>1. clock' = clock + 1
        OBVIOUS
      <3> QED  BY <1>1, <1>2, <1>3, <2>3, <3>1 DEF Stamped
    <2>6. NothingStale'
      BY <1>1, <1>2, <2>3, <2>4 DEF NothingStale, Current
    <2>7. OneReport' /\ PostedByKind'
      BY <1>2, <2>2, <2>3 DEF OneReport, PostedByKind, IsReport
    <2>8. Awaited' /\ ArmedForState'
      BY <2>4 DEF Awaited, ArmedForState
    <2>9. ContinuousAsksOnce'
      <3>1. \A r \in Procs : Kind[r] = "continuous" => r # Current /\ armed[r] = "off"
        BY <1>4, <2>2
      <3>2. \A m \in msgs' : Kind[m.proc] = "continuous" => m \in msgs
        BY <1>2, <2>2, <2>3
      <3>3. open' = open /\ \A r \in Procs : armed'[r] = "off"
        BY <2>1, <2>4
      <3> QED  BY <3>1, <3>2, <3>3 DEF ContinuousAsksOnce, InFlight
    <2>10. CancelConfirmed'
      BY <1>1, <1>2, <2>3 DEF CancelConfirmed, InFlight
    <2> QED  BY <1>5, <1>6, <2>5, <2>6, <2>7, <2>8, <2>9, <2>10
  <1>b. CASE Kind[Current] = "continuous"
    <2>1. /\ armed' = [armed EXCEPT ![Current] = "cancel"]
          /\ open' = [open EXCEPT ![Current] = @ + 1] /\ msgs' = msgs
      BY <1>b DEF CancelProcedure, CancelsAtOnce
    <2>2. /\ armed'[Current] = "cancel"
          /\ \A r \in Procs : r # Current => armed'[r] = "off" /\ open'[r] = open[r]
      BY <1>1, <1>4, <2>1 DEF TypeOK
    <2>3. open[Current] = 0 /\ ~InFlight("answer", Current)
      BY <1>1, <1>b DEF ContinuousAsksOnce, ArmedForState, TypeOK
    <2>4. open'[Current] = 1
      BY <1>1, <2>1, <2>3 DEF TypeOK
    <2>5. Stamped' /\ OneReport'
      BY <1>1, <1>3, <2>1 DEF Stamped, OneReport
    <2>6. NothingStale'
      BY <1>1, <1>3, <2>1, <2>2 DEF NothingStale, IsReport, Current
    <2>7. PostedByKind'
      BY <1>3, <1>b, <2>1 DEF PostedByKind, IsReport
    <2>8. Awaited' /\ ArmedForState'
      BY <1>b, <2>2, <2>4 DEF Awaited, ArmedForState
    <2>9. ContinuousAsksOnce'
      BY <1>b, <2>1, <2>2, <2>3, <2>4 DEF ContinuousAsksOnce, InFlight
    <2>10. CancelConfirmed'
      BY <1>1, <2>2, <2>4 DEF CancelConfirmed, Owed
    <2> QED  BY <1>5, <1>6, <2>5, <2>6, <2>7, <2>8, <2>9, <2>10
  <1>c. CASE ~CancelsAtOnce(Current) /\ Kind[Current] # "continuous"
    <2>1. /\ armed' = [armed EXCEPT ![Current] = IF @ = "off" THEN "off" ELSE "cancel"]
          /\ open' = open /\ msgs' = msgs
      BY <1>1, <1>c DEF CancelProcedure
    <2>2. Kind[Current] \in {"late", "stop_le", "connectable_off"}
      BY <1>1, <1>c DEF CancelsAtOnce, Kinds
    <2>3. /\ armed'[Current] = IF armed[Current] = "off" THEN "off" ELSE "cancel"
          /\ \A r \in Procs : r # Current => armed'[r] = "off" /\ open'[r] = open[r]
      BY <1>1, <1>4, <2>1 DEF TypeOK
    <2>4. armed[Current] # "off" => \A m \in msgs : ~IsReport(m)
      <3>1. SUFFICES ASSUME armed[Current] # "off" PROVE \A m \in msgs : ~IsReport(m)
        OBVIOUS
      <3>2. armed[Current] = "complete"
        BY <1>1, <3>1 DEF ArmedForState, TypeOK
      <3>3. ~InFlight("complete", Current)
        BY <1>1, <3>1, <3>2 DEF StepReports, Owed, Awaited, Current
      <3> QED  BY <1>3, <3>3 DEF InFlight
    <2>5. Stamped' /\ OneReport'
      BY <1>1, <1>3, <2>1 DEF Stamped, OneReport
    <2>6. NothingStale'
      BY <1>1, <1>3, <2>1, <2>3 DEF NothingStale, IsReport, Current
    <2>7. PostedByKind'
      <3>1. \A m \in msgs : m.kind = "complete" => Kind[m.proc] \in {"stop_le", "connectable_off"}
        BY <1>3, <2>2 DEF PostedByKind, IsReport
      <3> QED  BY <1>3, <2>1, <3>1 DEF PostedByKind, IsReport
    <2>8. Awaited'
      BY <1>4, <2>1, <2>3 DEF Awaited, InFlight
    <2>9. ArmedForState'
      <3>1. armed[Current] # "off" => Kind[Current] \in {"late", "connectable_off"}
        BY <1>1, <2>2 DEF ArmedForState, TypeOK
      <3> QED  BY <2>1, <2>3, <2>4, <3>1 DEF ArmedForState, IsReport
    <2>10. ContinuousAsksOnce'
      BY <1>4, <2>1, <2>2, <2>3 DEF ContinuousAsksOnce, InFlight
    <2>11. CancelConfirmed'
      <3>1. SUFFICES ASSUME ConfirmsCancel(Current)' PROVE Owed(Current, "cancel")'
        BY DEF CancelConfirmed
      <3>2. Kind[Current] = "late"
        BY <1>1, <2>2, <3>1 DEF ConfirmsCancel
      <3>3. ~InFlight("complete", Current)
        BY <3>2 DEF InFlight, PostedByKind
      <3>4. Owed(Current, "complete")
        BY <3>3 DEF StepReports, InFlight, Owed, Current
      <3> QED  BY <1>1, <2>1, <2>3, <3>4 DEF Owed, InFlight
    <2> QED  BY <1>5, <1>6, <2>5, <2>6, <2>7, <2>8, <2>9, <2>10, <2>11
  <1> QED  BY <1>a, <1>b, <1>c
LEMMA AnswerKeeps ==
    ASSUME IInv, NEW p \in Procs, Answer(p), TypeOK'
    PROVE  IInv'
  <1> USE DEF IInv
  <1>1. PICK result \in Results : msgs' = msgs \cup {Msg("answer", p, result)}
    BY DEF Answer
  <1> DEFINE new == Msg("answer", p, result)
  <1>2. new.kind = "answer" /\ new.proc = p /\ new.at = clock
    BY DEF Msg
  <1>3. /\ open[p] > 0 /\ open' = [open EXCEPT ![p] = @ - 1]
        /\ clock' = clock + 1 /\ clock \in Nat /\ open \in [Procs -> Nat]
        /\ UNCHANGED <<state, script, step, armed, client, panicked>>
    BY DEF Answer, TypeOK
  <1>4. msgs' = msgs \cup {new}
    BY <1>1
  <1>5. \A m \in msgs : m.at < clock /\ m.at \in Nat
    BY DEF Stamped, TypeOK, Message
  <1> HIDE DEF new
  <1>6. \A r \in Procs : /\ r # p => open'[r] = open[r] /\ InFlight("answer", r)' = InFlight("answer", r)
                         /\ \A kind \in {"complete", "cancelled"} : InFlight(kind, r)' = InFlight(kind, r)
    BY <1>2, <1>3, <1>4 DEF InFlight
  <1>7. open'[p] = open[p] - 1 /\ InFlight("answer", p)'
    BY <1>2, <1>3, <1>4 DEF InFlight
  <1>8. Agreed'
    BY <1>3 DEF Agreed
  <1>9. Stamped'
    BY <1>2, <1>3, <1>4, <1>5 DEF Stamped
  <1>10. NothingStale'
    BY <1>2, <1>3, <1>4 DEF NothingStale
  <1>11. OneReport' /\ PostedByKind'
    BY <1>2, <1>3, <1>4 DEF OneReport, PostedByKind, IsReport
  <1>12. Awaited' /\ ArmedForState'
    BY <1>2, <1>3, <1>4, <1>6, <1>7 DEF Awaited, ArmedForState, IsReport
  <1>13. \A r \in Procs : (open[r] > 0 \/ InFlight("answer", r)) => (open'[r] > 0 \/ InFlight("answer", r)')
    BY <1>6, <1>7
  <1>14. \A r \in Procs : \A cb \in {"complete", "cancel"} : Owed(r, cb)' = Owed(r, cb)
    BY <1>3, <1>13 DEF Owed, Awaited
  <1>15. StepReports'
    <2>1. SUFFICES ASSUME state = "active"
                   PROVE  (InFlight("complete", Current) # Owed(Current, "complete"))'
      BY <1>3 DEF StepReports, Current
    <2>2. Current \in Procs /\ Current' = Current
      BY <1>3, <2>1, StepInProgress DEF Current
    <2>3. InFlight("complete", Current)' = InFlight("complete", Current)
      BY <1>6, <2>2
    <2>4. Owed(Current, "complete")' = Owed(Current, "complete")
      BY <1>14, <2>2
    <2> QED  BY <2>1, <2>3, <2>4 DEF StepReports, Current
  <1>16. CancelConfirmed'
    <2>1. SUFFICES ASSUME state = "cancelling", ConfirmsCancel(Current)
                   PROVE  (InFlight("cancelled", Current) \/ Owed(Current, "cancel"))'
      BY <1>3 DEF CancelConfirmed, ConfirmsCancel, Current
    <2>2. Current \in Procs /\ Current' = Current
      BY <1>3, <2>1, StepInProgress DEF Current
    <2> QED  BY <1>6, <1>14, <2>1, <2>2 DEF CancelConfirmed
  <1>17. ContinuousAsksOnce'
    <2>1. SUFFICES ASSUME NEW r \in Procs, Kind[r] = "continuous"
                   PROVE  /\ armed'[r] = "off" => open'[r] = 0 /\ ~InFlight("answer", r)'
                          /\ open'[r] <= 1
                          /\ open'[r] = 1 => ~InFlight("answer", r)'
                          /\ \A m, n \in msgs' :
                                m.proc = r /\ n.proc = r /\ n.kind = "answer" =>
                                    /\ m.kind = "answer" => m = n
                                    /\ m.kind # "answer" => m.at < n.at
      BY DEF ContinuousAsksOnce, InFlight
    <2>2. CASE r # p
      BY <1>2, <1>3, <1>4, <1>6, <2>1, <2>2 DEF ContinuousAsksOnce
    <2>3. CASE r = p
      <3>1. open[p] = 1 /\ ~InFlight("answer", p) /\ armed[p] # "off"
        BY <1>3, <2>1, <2>3 DEF ContinuousAsksOnce
      <3>2. open'[p] = 0
        BY <1>7, <3>1
      <3>3. \A m \in msgs : m.proc = p => m.kind # "answer"
        BY <3>1 DEF InFlight
      <3> QED  BY <1>2, <1>3, <1>4, <1>5, <2>3, <3>1, <3>2, <3>3
    <2> QED  BY <2>2, <2>3
  <1> QED  BY <1>8, <1>9, <1>10, <1>11, <1>12, <1>15, <1>16, <1>17
-----------------------------------------------------------------------------
(* Every action preserves the invariant. *)

LEMMA StartScriptKeeps ==
    ASSUME IInv, TypeOK', NEW sc \in Scripts, StartScript(sc)
    PROVE  IInv'
  <1> USE DEF IInv
  <1>1. state = "idle"
    BY DEF StartScript, Agreed
  <1>2. /\ state' = "active" /\ script' = sc /\ step' = 1 /\ StartProcedure(sc[1], msgs, armed)
        /\ client' = "started" /\ UNCHANGED panicked /\ clock' = clock + 1
    BY <1>1 DEF StartScript
  <1>3. 1 \in 1 .. Len(sc)
    BY StepOfScript
  <1> QED  BY <1>1, <1>2, <1>3, QuietWhenIdle, StartKeeps

LEMMA CancelScriptKeeps ==
    ASSUME IInv, TypeOK', CancelScript
    PROVE  IInv'
  <1> USE DEF IInv
  <1>1. state = "active"
    BY DEF CancelScript, Agreed
  <1>2. /\ state' = "cancelling" /\ client' = "cancelling"
        /\ CancelProcedure(Current) /\ clock' = clock + 1
        /\ UNCHANGED <<script, step, panicked>>
    BY <1>1 DEF CancelScript, Current
  <1> QED  BY <1>1, <1>2, CancelKeeps

(* The callbacks are called when nothing else of the step is left. *)
LEMMA CancelCfmKeeps ==
    ASSUME IInv, TypeOK', state = "cancelling", NEW q, NEW arm, Quiet(q, arm),
           ProcCancelCfm(q, arm), clock' = clock + 1
    PROVE  IInv'
  <1>1. msgs' = q /\ armed' = arm /\ UNCHANGED <<open, panicked>> /\ ResetAndTell("cancelled")
    BY DEF ProcCancelCfm
  <1> QED  BY <1>1, EndKeeps

LEMMA AnswerHandled ==
    ASSUME IInv, NEW m \in msgs, m.kind = "answer", \A n \in msgs : m.at =< n.at,
           HandleAnswer(m), clock' = clock + 1, TypeOK'
    PROVE  IInv'
  <1> USE DEF IInv
  <1> DEFINE p == m.proc
             q == msgs \ {m}
  <1>1. /\ p \in Procs /\ m.result \in Results /\ armed[p] \in {"off", "complete", "cancel"}
        /\ Kind[p] \notin {"pair_peer", "handover"}
    BY DEF TypeOK, Message, EndWithTheirStep
  <1>a. CASE armed[p] = "off"
    <2>1. msgs' = q /\ UNCHANGED <<state, script, step, armed, open, client, panicked>>
      BY <1>a DEF HandleAnswer
    <2> QED  BY <1>a, <2>1, IgnoreKeeps
  <1>b. CASE armed[p] # "off"
    <2>1. /\ Quiet(q, Disarmed(p))
          /\ armed[p] = "complete" => state = "active"
          /\ armed[p] = "cancel" => state = "cancelling"
      BY <1>b, QuietAfterAnswer
    <2>2. p = Current /\ state # "idle"
      BY <1>1, <1>b DEF NothingStale, Current
    <2>a. CASE AnswersByMessage(p)
      <3>1. /\ armed' = Disarmed(p)
            /\ msgs' = IF armed[p] = "complete" THEN q \cup {Msg("complete", p, m.result)}
                                                ELSE DelayedCancel(p, q)
            /\ UNCHANGED <<state, script, step, open, client, panicked>>
        BY <1>b, <2>a DEF HandleAnswer, AnswersByMessage, AnswersDirectly
      <3>2. Kind[p] \in {"deferred", "connectable_off"}
        BY <2>a DEF AnswersByMessage
      <3> HIDE DEF q
      <3>3. CASE armed[p] = "complete"
        BY <2>1, <2>2, <3>1, <3>2, <3>3, PostKeeps
      <3>4. CASE armed[p] = "cancel"
        <4>1. DelayedCancel(p, q) = q \cup {Msg("cancelled", p, "success")}
          BY <2>1 DEF DelayedCancel, Quiet, IsReport
        <4> QED  BY <2>1, <2>2, <3>1, <3>2, <3>4, <4>1, PostKeeps
      <3> QED  BY <1>1, <1>b, <3>3, <3>4
    <2>b. CASE ~AnswersByMessage(p)
      <3>1. AnswersDirectly(p)
        BY <1>1, <2>b DEF AnswersDirectly
      <3>2. CASE armed[p] = "complete"
        <4>1. ProcCompleteCfm(ResultOf(m), q, Disarmed(p))
          BY <1>1, <2>b, <3>1, <3>2 DEF HandleAnswer
        <4> QED  BY <2>1, <3>2, <4>1, CompletionKeeps
      <3>3. CASE armed[p] = "cancel"
        <4>1. ProcCancelCfm(q, Disarmed(p))
          BY <1>1, <2>b, <3>1, <3>3 DEF HandleAnswer
        <4> QED  BY <2>1, <3>3, <4>1, CancelCfmKeeps
      <3> QED  BY <1>1, <1>b, <3>2, <3>3
    <2> QED  BY <2>a, <2>b
  <1> QED  BY <1>a, <1>b

LEMMA DeliverKeeps ==
    ASSUME IInv, TypeOK', Deliver
    PROVE  IInv'
  <1> USE DEF IInv
  <1>1. PICK m \in msgs : /\ \A n \in msgs : m.at =< n.at
                          /\ IF m.kind = "answer" THEN HandleAnswer(m) ELSE HandleDelayedCfm(m)
    BY DEF Deliver
  <1>2. clock' = clock + 1
    BY DEF Deliver
  <1>3. m.kind \in {"complete", "cancelled", "answer"}
    BY DEF TypeOK, Message
  <1>a. CASE m.kind = "answer"
    BY <1>1, <1>2, <1>a, AnswerHandled
  <1>b. CASE m.kind = "complete"
    <2>1. ProcCompleteCfm(m.result, msgs \ {m}, armed)
      BY <1>1, <1>b DEF HandleDelayedCfm
    <2>2. state \in {"active", "cancelling"}
      BY <1>b DEF NothingStale, TypeOK
    <2>3. CASE state = "active"
      BY <1>2, <1>b, <2>1, <2>3, QuietAfterReport, CompletionKeeps DEF IsReport
    <2>4. CASE state = "cancelling"
      <3>1. /\ msgs' = msgs \ {m}
            /\ UNCHANGED <<state, script, step, armed, open, client, panicked>>
        BY <2>1, <2>4 DEF ProcCompleteCfm
      <3> QED  BY <1>2, <1>b, <2>4, <3>1, IgnoreKeeps
    <2> QED  BY <2>2, <2>3, <2>4
  <1>c. CASE m.kind = "cancelled"
    <2>1. ProcCancelCfm(msgs \ {m}, armed)
      BY <1>1, <1>c DEF HandleDelayedCfm
    <2>2. state = "cancelling"
      BY <1>c DEF NothingStale
    <2> QED  BY <1>2, <1>c, <2>1, <2>2, QuietAfterReport, CancelCfmKeeps DEF IsReport
  <1> QED  BY <1>3, <1>a, <1>b, <1>c

LEMMA InitHolds ==
    ASSUME EndWithTheirStep, Init
    PROVE  IInv
  <1>1. TypeOK /\ Agreed
    BY InitConfirms DEF CInv
  <1>2. Stamped /\ NothingStale /\ StepReports
    BY DEF Init, Stamped, NothingStale, StepReports
  <1>3. OneReport /\ Awaited /\ ArmedForState /\ PostedByKind
    BY DEF Init, OneReport, Awaited, ArmedForState, PostedByKind
  <1>4. ContinuousAsksOnce /\ CancelConfirmed
    BY DEF Init, ContinuousAsksOnce, InFlight, CancelConfirmed
  <1> QED  BY <1>1, <1>2, <1>3, <1>4 DEF IInv

LEMMA StepKeeps == IInv /\ TypeOK' /\ [Next]_vars => IInv'
  <1> SUFFICES ASSUME IInv, TypeOK', [Next]_vars PROVE IInv'
    OBVIOUS
  <1>1. ASSUME NEW sc \in Scripts, StartScript(sc) PROVE IInv'
    BY <1>1, StartScriptKeeps
  <1>2. CASE CancelScript
    BY <1>2, CancelScriptKeeps
  <1>3. CASE Deliver
    BY <1>3, DeliverKeeps
  <1>4. ASSUME NEW p \in Procs, Answer(p) PROVE IInv'
    BY <1>4, AnswerKeeps
  <1>5. CASE UNCHANGED vars
    <2>1. Agreed' /\ Stamped' /\ EndWithTheirStep
      BY <1>5 DEF vars, IInv, Agreed, Stamped
    <2>2. NothingStale' /\ OneReport'
      BY <1>5 DEF vars, IInv, NothingStale, OneReport
    <2>3. Awaited' /\ ArmedForState' /\ PostedByKind'
      BY <1>5 DEF vars, IInv, Awaited, ArmedForState, PostedByKind, InFlight
    <2>4. StepReports'
      BY <1>5 DEF vars, IInv, StepReports, InFlight, Owed, Current
    <2>5. ContinuousAsksOnce'
      BY <1>5 DEF vars, IInv, ContinuousAsksOnce, InFlight
    <2>6. CancelConfirmed'
      BY <1>5 DEF vars, IInv, CancelConfirmed, InFlight, Owed, Current
    <2> QED  BY <2>1, <2>2, <2>3, <2>4, <2>5, <2>6 DEF IInv
  <1> QED  BY <1>1, <1>2, <1>3, <1>4, <1>5 DEF Next

(* While none has failed, what is owed is due. *)
LEMMA OwedIsDue ==
    ASSUME EndWithTheirStep, CInv, NEW p \in Procs, NEW cb
    PROVE  Due(p, cb) <=> Owed(p, cb)
  <1>1. ~gave_up[p]
    BY DEF EndWithTheirStep, CInv, OnlyHandoversFail
  <1> QED  BY <1>1 DEF Due, Leads, Owed

(* The second invariant: at most one report is on its way, of the step in  *)
(* progress, and every armed callback waits for an answer that comes.      *)
THEOREM StepsInductive ==
    ASSUME EndWithTheirStep
    PROVE  Spec => []IInv
  <1>1. Init => IInv
    BY InitHolds
  <1>2. CInv => TypeOK
    BY DEF CInv
  <1> QED  BY <1>1, <1>2, StepKeeps, EngineInductive, PTL DEF Spec

(* Every step of a script reports once and in its turn, if its procedures  *)
(* end with their step: no report of an earlier step, or of an earlier     *)
(* script, reaches scriptEngine_ProcCompleteCfm, which could not tell.     *)
THEOREM EveryStepInTurn ==
    ASSUME EndWithTheirStep
    PROVE  Spec => []StepsReportInTurn
  <1>1. IInv /\ CInv => StepsReportInTurn
    <2>1. SUFFICES ASSUME IInv, CInv PROVE StepReportsOnce /\ NothingStale
      BY DEF StepsReportInTurn
    <2>2. state = "active" => Current \in Procs
      BY <2>1, StepInProgress
    <2>3. StepReportsOnce
      <3>1. SUFFICES ASSUME state = "active"
                     PROVE  InFlight("complete", Current) # Due(Current, "complete")
        BY DEF StepReportsOnce, Current
      <3>2. InFlight("complete", Current) # Owed(Current, "complete")
        BY <2>1, <3>1 DEF IInv, StepReports
      <3>3. Due(Current, "complete") <=> Owed(Current, "complete")
        BY <2>1, <2>2, <3>1, OwedIsDue
      <3>4. Due(Current, "complete") \in BOOLEAN /\ Owed(Current, "complete") \in BOOLEAN
        BY DEF Due, Owed
      <3> QED  BY <3>2, <3>3, <3>4
    <2> QED  BY <2>1, <2>3 DEF IInv
  <1> QED  BY <1>1, StepsInductive, EngineInductive, PTL

(* A cancelled script has its confirmation on the way, when its procedures *)
(* end with their step and are all of the kinds that confirm a             *)
(* cancellation.                                                           *)
THEOREM CancelIsConfirmed ==
    ASSUME EndWithTheirStep, CancelsConfirmed
    PROVE  Spec => []CancelOnItsWay
  <1>1. IInv /\ CInv => CancelOnItsWay
    <2>1. SUFFICES ASSUME IInv, CInv, state = "cancelling"
                   PROVE  InFlight("cancelled", Current) \/ Due(Current, "cancel")
      BY DEF CancelOnItsWay, Current
    <2>2. ConfirmsCancel(Current) /\ Current \in Procs
      BY <2>1, StepInProgress DEF CancelsConfirmed, Current
    <2>3. InFlight("cancelled", Current) \/ Owed(Current, "cancel")
      BY <2>1, <2>2 DEF IInv, CancelConfirmed
    <2> QED  BY <2>1, <2>2, <2>3, OwedIsDue
  <1> QED  BY <1>1, StepsInductive, EngineInductive, PTL
=============================================================================
