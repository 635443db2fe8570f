----------------------- MODULE HandoverProfileProofs ------------------------
(***************************************************************************)
(* Theorems about HandoverProfile, for any number of handsets and          *)
(* sessions: the performance requests of an earbud add up, a primary goes  *)
(* on only with a peer in step with it, and there is one primary.          *)
(***************************************************************************)
EXTENDS HandoverProfile, SequenceTheorems, TLAPS

(* The states whose position in the table matters. *)
LEMMA StateTable ==
    /\ Len(States) = 26
    /\ \A i \in 1 .. 26 :
          /\ States[i] = "self_veto" <=> i = 2
          /\ States[i] = "performance_request" <=> i = 9
          /\ States[i] = "commit_to_secondary_role" <=> i = 24
          /\ States[i] = "performance_relinquish" <=> i = 25
          /\ States[i] = "cleanup" <=> i = 26
  <1>1. Len(States) = 26
    BY DEF States
  <1>2. /\ States[1] = "setup" /\ States[2] = "self_veto"
        /\ States[3] = "veto" /\ States[4] = "send_start_req"
        /\ States[5] = "wait_for_start_cfm" /\ States[6] = "send_p1_marshal_data"
        /\ States[7] = "wait_for_marshal_data_cfm" /\ States[8] = "veto"
        /\ States[9] = "performance_request" /\ States[10] = "halt_inactive"
        /\ States[11] = "veto" /\ States[12] = "prepare_inactive"
        /\ States[13] = "veto" /\ States[14] = "send_inactive_marshal_data"
        /\ States[15] = "wait_for_a2dp_packet" /\ States[16] = "halt_active"
        /\ States[17] = "veto" /\ States[18] = "set_peer_link_active"
        /\ States[19] = "prepare_active" /\ States[20] = "wait_for_peer_link_active"
        /\ States[21] = "veto" /\ States[22] = "send_active_marshal_data"
        /\ States[23] = "clear_pending_peer_data" /\ States[24] = "commit_to_secondary_role"
        /\ States[25] = "performance_relinquish" /\ States[26] = "cleanup"
    BY DEF States
  <1>3. SUFFICES ASSUME NEW i \in 1 .. 26
                 PROVE  /\ States[i] = "self_veto" <=> i = 2
                        /\ States[i] = "performance_request" <=> i = 9
                        /\ States[i] = "commit_to_secondary_role" <=> i = 24
                        /\ States[i] = "performance_relinquish" <=> i = 25
                        /\ States[i] = "cleanup" <=> i = 26
    BY <1>1
  <1>4. i \in {1, 2, 3, 4, 5, 6, 7, 8, 9, 10, 11, 12, 13, 14, 15, 16, 17, 18, 19, 20, 21, 22, 23,
               24, 25, 26}
    OBVIOUS
  <1>5. States[i] = "self_veto" <=> i = 2
    BY <1>2, <1>4
  <1>6. States[i] = "performance_request" <=> i = 9
    BY <1>2, <1>4
  <1>7. States[i] = "commit_to_secondary_role" <=> i = 24
    BY <1>2, <1>4
  <1>8. States[i] = "performance_relinquish" <=> i = 25
    BY <1>2, <1>4
  <1>9. States[i] = "cleanup" <=> i = 26
    BY <1>2, <1>4
  <1> QED
    BY <1>5, <1>6, <1>7, <1>8, <1>9

LEMMA Positions ==
    /\ Index("self_veto") = 2
    /\ Index("performance_request") = 9
    /\ Index("performance_relinquish") = 25
  <1>1. ASSUME NEW s, NEW n \in 1 .. 26, \A i \in 1 .. 26 : States[i] = s <=> i = n
        PROVE  Index(s) = n
    BY <1>1, StateTable DEF Index
  <1> QED
    BY <1>1, StateTable

(* Where the procedure of e is, if it is in state s. *)
LEMMA Position ==
  ASSUME TypeOK, NEW e \in Earbuds, NEW s, InState(e, s)
  PROVE  /\ primary_state[e] \in 1 .. 26 /\ States[primary_state[e]] = s
         /\ s \notin {"commit_to_secondary_role", "performance_relinquish", "cleanup"} =>
                primary_state[e] \in 1 .. 23
         /\ s # "performance_request" => primary_state[e] # 9
  <1>1. primary_state[e] \in 1 .. 26 /\ States[primary_state[e]] = s
    BY StateTable DEF TypeOK, InState
  <1>2. /\ primary_state[e] = 9 => s = "performance_request"
        /\ primary_state[e] = 24 => s = "commit_to_secondary_role"
        /\ primary_state[e] = 25 => s = "performance_relinquish"
        /\ primary_state[e] = 26 => s = "cleanup"
    BY <1>1, StateTable
  <1> QED
    BY <1>1, <1>2

-----------------------------------------------------------------------------
(* The inductive invariant. *)

(* What performance_req_count has to be. *)
AsPrimary(i) == IF i \in 10 .. 25 THEN 1 ELSE 0
AsSecondary(state) == IF state \in {"unmarshalled", "bt_data"} THEN 1 ELSE 0

Inv ==
    /\ TypeOK
    /\ \A e \in Earbuds :
          /\ performance_req_count[e] = AsPrimary(primary_state[e])
                  + AsSecondary(secondary_state[e]) + seen[e].takeovers
          /\ secondary_state[e] \in {"setup", "p1_data"} => p1_left[e] > 0
          /\ primary_state[e] \in {25, 26} => undone[e] \subseteq {"setup"}

LEMMA InvInit == Init => Inv
  <1> SUFFICES ASSUME Init PROVE Inv
    OBVIOUS
  <1>1. TypeOK
    BY HandoverAssumption, StateTable DEF Init, TypeOK, Seen
  <1> QED
    BY <1>1 DEF Init, Inv, AsPrimary, AsSecondary

(* The types of what belongs to one earbud. *)
LEMMA Typed ==
  ASSUME TypeOK, NEW e \in Earbuds
  PROVE  /\ primary_state[e] \in 0 .. 26
         /\ undone[e] \in SUBSET Work
         /\ performance_req_count[e] \in Nat
         /\ inbox[e] \in Seq(Messages)
         /\ p1_left[e] \in 0 .. Others + 1 /\ bt_left[e] \in 0 .. Others
         /\ seen[e] \in Seen /\ seen[e].takeovers \in Nat
  <1>1. primary_state[e] \in 0 .. 26
    BY StateTable DEF TypeOK
  <1>2. seen[e] \in Seen
    BY DEF TypeOK
  <1>3. seen[e].takeovers \in Nat
    BY <1>2 DEF Seen
  <1> QED
    BY <1>1, <1>2, <1>3 DEF TypeOK

(* A step of the primary's procedure: the state, the work to be undone and *)
(* the requests change together.                                           *)
LEMMA PrimaryStep ==
  ASSUME Inv, NEW e \in Earbuds, UNCHANGED secondaryVars,
         is_primary' \in [Earbuds -> BOOLEAN],
         inbox' \in [Earbuds -> Seq(Messages)],
         session_id' \in [Earbuds -> 0 .. SessionIds - 1],
         NEW b \in BOOLEAN, UNCHANGED seen \/ seen' = [seen EXCEPT ![e].unacked = b],
         NEW n \in 0 .. 26, primary_state' = [primary_state EXCEPT ![e] = n],
         NEW u \in SUBSET Work, undone' = [undone EXCEPT ![e] = u],
         NEW c \in Nat, performance_req_count' = [performance_req_count EXCEPT ![e] = c],
         c = performance_req_count[e] - AsPrimary(primary_state[e]) + AsPrimary(n),
         n \in {25, 26} => u \subseteq {"setup"}
  PROVE  Inv'
  <1>1. seen' \in [Earbuds -> Seen] /\ \A d \in Earbuds : seen'[d].takeovers = seen[d].takeovers
    <2>1. CASE UNCHANGED seen
      BY <2>1 DEF Inv, TypeOK
    <2>2. CASE seen' = [seen EXCEPT ![e].unacked = b]
      <3>1. seen[e] \in Seen /\ seen \in [Earbuds -> Seen]
        BY DEF Inv, TypeOK
      <3>2. [seen[e] EXCEPT !.unacked = b] \in Seen
            /\ [seen[e] EXCEPT !.unacked = b].takeovers = seen[e].takeovers
        BY <3>1 DEF Seen
      <3> QED
        BY <2>2, <3>1, <3>2
    <2> QED
      BY <2>1, <2>2
  <1>2. TypeOK'
    BY <1>1, StateTable DEF Inv, TypeOK, secondaryVars
  <1>3. seen[e].takeovers \in Nat
    BY DEF Inv, TypeOK, Seen
  <1>4. ASSUME NEW d \in Earbuds
        PROVE  /\ performance_req_count'[d] = AsPrimary(primary_state'[d])
                        + AsSecondary(secondary_state'[d]) + seen'[d].takeovers
               /\ secondary_state'[d] \in {"setup", "p1_data"} => p1_left'[d] > 0
               /\ primary_state'[d] \in {25, 26} => undone'[d] \subseteq {"setup"}
    <2>1. CASE d = e
      <3>1. /\ primary_state'[e] = n /\ undone'[e] = u /\ performance_req_count'[e] = c
            /\ secondary_state' = secondary_state /\ p1_left' = p1_left
        BY DEF Inv, TypeOK, secondaryVars
      <3>2. AsPrimary(n) \in Int /\ AsPrimary(primary_state[e]) \in Int
            /\ AsSecondary(secondary_state[e]) \in Int
        BY DEF AsPrimary, AsSecondary
      <3>3. c = AsPrimary(n) + AsSecondary(secondary_state[e]) + seen[e].takeovers
        BY <1>3, <3>2 DEF Inv
      <3> QED
        BY <1>1, <2>1, <3>1, <3>3 DEF Inv
    <2>2. CASE d # e
      BY <1>1, <2>2 DEF Inv, TypeOK, secondaryVars
    <2> QED
      BY <2>1, <2>2
  <1> QED
    BY <1>2, <1>4 DEF Inv

(* A step of the secondary's handler. *)
LEMMA SecondaryStep ==
  ASSUME Inv, NEW e \in Earbuds, UNCHANGED primaryVars,
         is_primary' \in [Earbuds -> BOOLEAN],
         inbox' \in [Earbuds -> Seq(Messages)],
         waiting' \in [Earbuds -> BOOLEAN],
         bt_left' \in [Earbuds -> 0 .. Others],
         NEW p \in 0 .. Others + 1, p1_left' = [p1_left EXCEPT ![e] = p],
         NEW st \in {"idle", "setup", "p1_data", "unmarshalled", "bt_data"},
         secondary_state' = [secondary_state EXCEPT ![e] = st],
         NEW r \in Seen, seen' = [seen EXCEPT ![e] = r],
         NEW c \in Nat, performance_req_count' = [performance_req_count EXCEPT ![e] = c],
         c = AsPrimary(primary_state[e]) + AsSecondary(st) + r.takeovers,
         st \in {"setup", "p1_data"} => p > 0
  PROVE  Inv'
  <1>1. TypeOK'
    BY DEF Inv, TypeOK, primaryVars
  <1>2. ASSUME NEW d \in Earbuds
        PROVE  /\ performance_req_count'[d] = AsPrimary(primary_state'[d])
                        + AsSecondary(secondary_state'[d]) + seen'[d].takeovers
               /\ secondary_state'[d] \in {"setup", "p1_data"} => p1_left'[d] > 0
               /\ primary_state'[d] \in {25, 26} => undone'[d] \subseteq {"setup"}
    <2>1. CASE d = e
      BY <2>1 DEF Inv, TypeOK, primaryVars
    <2>2. CASE d # e
      BY <2>2 DEF Inv, TypeOK, primaryVars
    <2> QED
      BY <2>1, <2>2
  <1> QED
    BY <1>1, <1>2 DEF Inv, primaryVars

LEMMA ExchangeTyped ==
  ASSUME TypeOK, NEW e \in Earbuds, NEW rest \in Seq(Messages), NEW sent \in Seq(Messages),
         Exchange(e, rest, sent)
  PROVE  inbox' \in [Earbuds -> Seq(Messages)]
  <1>1. \A s \in Seq(Messages) : s \o sent \in Seq(Messages)
    BY ConcatProperties
  <1> QED
    BY <1>1 DEF TypeOK, Exchange

-----------------------------------------------------------------------------
(* The primary. *)

LEMMA RelinquishedTyped == \A n \in Nat : Relinquished(n) \in Nat /\ (n > 0 => Relinquished(n) = n - 1)
  BY DEF Relinquished

LEMMA Below == ASSUME NEW n \in 1 .. 23, NEW j \in 1 .. (n - 1) PROVE j \in 1 .. 26 /\ j < n
  OBVIOUS

LEMMA NextState ==
  ASSUME NEW n \in 1 .. 23, n # 9
  PROVE  /\ n + 1 \in 0 .. 26 /\ n + 1 \notin {0, 25, 26}
         /\ AsPrimary(n) = AsPrimary(n + 1) /\ AsPrimary(n + 1) \in Int
  BY DEF AsPrimary

LEMMA AtMostOne ==
  /\ \A n \in 1 .. 23 : AsPrimary(n) = IF n > 9 THEN 1 ELSE 0
  /\ AsPrimary(0) = 0
  /\ \A state : AsSecondary(state) \in Nat
  BY DEF AsPrimary, AsSecondary

LEMMA FailStep ==
  ASSUME Inv, NEW e \in Earbuds, UNCHANGED <<is_primary, secondaryVars>>,
         session_id' \in [Earbuds -> 0 .. SessionIds - 1],
         NEW b \in BOOLEAN, UNCHANGED seen \/ seen' = [seen EXCEPT ![e].unacked = b],
         NEW rest \in Seq(Messages), NEW sent \in Seq(Messages), NEW part \in SUBSET Work,
         primary_state[e] \in 1 .. 23, Fail(e, rest, sent, part)
  PROVE  Inv'
  <1>0. PICK kept \in SUBSET (undone[e] \cap Unreliable) :
           undone' = [undone EXCEPT ![e] =
               (@ \cup part) \ (UNION {UndoneFor(s) : s \in Completed(primary_state[e])} \ kept)]
    BY DEF Fail
  <1> DEFINE i == primary_state[e]
             u == (undone[e] \cup part) \ (UNION {UndoneFor(s) : s \in Completed(i)} \ kept)
             c == IF i > 9 THEN Relinquished(performance_req_count[e])
                           ELSE performance_req_count[e]
  <1>1. TypeOK /\ undone[e] \in SUBSET Work /\ performance_req_count[e] \in Nat
        /\ seen[e].takeovers \in Nat
    BY Typed DEF Inv
  <1>2. "performance_request" \in Completed(i) <=> i > 9
    <2>1. i \in 1 .. 23
      OBVIOUS
    <2>2. \A j \in 1 .. 26 : States[j] = "performance_request" <=> j = 9
      BY StateTable
    <2> HIDE DEF i
    <2>3. ASSUME i > 9 PROVE "performance_request" \in Completed(i)
      <3>1. 9 \in 1 .. (i - 1)
        BY ONLY <2>1, <2>3
      <3>2. States[9] = "performance_request"
        BY <2>2
      <3> QED
        BY <3>1, <3>2 DEF Completed
    <2>4. ASSUME "performance_request" \in Completed(i) PROVE i > 9
      <3>1. PICK j \in 1 .. (i - 1) : States[j] = "performance_request"
        BY <2>4 DEF Completed
      <3>2. j \in 1 .. 26 /\ j < i
        BY <2>1, <3>1, Below
      <3> QED
        BY <2>1, <2>2, <3>1, <3>2
    <2> QED
      BY <2>3, <2>4
  <1>3. inbox' \in [Earbuds -> Seq(Messages)]
    <2>1. Append(sent, [type |-> "CANCEL_IND"]) \in Seq(Messages)
      BY AppendProperties DEF Messages
    <2> QED
      BY <1>1, <2>1, ExchangeTyped DEF Fail
  <1>4. performance_req_count' = [performance_req_count EXCEPT ![e] = c]
    BY <1>1, <1>2 DEF Fail, TypeOK
  <1>5. c \in Nat /\ c = performance_req_count[e] - AsPrimary(i) + AsPrimary(0)
    <2>1. CASE i > 9
      <3>1. AsPrimary(i) = 1 /\ AsPrimary(0) = 0 /\ AsSecondary(secondary_state[e]) \in Nat
        BY <2>1, AtMostOne
      <3>2. performance_req_count[e] = AsPrimary(i) + AsSecondary(secondary_state[e])
                + seen[e].takeovers
        BY DEF Inv
      <3>3. performance_req_count[e] > 0
        BY <1>1, <3>1, <3>2
      <3> QED
        BY <1>1, <2>1, <3>1, <3>3, RelinquishedTyped
    <2>2. CASE ~(i > 9)
      <3>1. AsPrimary(i) = 0 /\ AsPrimary(0) = 0
        BY <2>2, AtMostOne
      <3> QED
        BY <1>1, <2>2, <3>1
    <2> QED
      BY <2>1, <2>2
  <1>6. /\ u \in SUBSET Work
        /\ undone' = [undone EXCEPT ![e] = u] /\ primary_state' = [primary_state EXCEPT ![e] = 0]
    BY <1>0, <1>1 DEF Fail
  <1> HIDE DEF i, u, c
  <1> QED
    <2>1. UNCHANGED secondaryVars /\ is_primary' \in [Earbuds -> BOOLEAN] /\ 0 \in 0 .. 26
      BY <1>1 DEF TypeOK
    <2>2. 0 \in {25, 26} => u \subseteq {"setup"}
      OBVIOUS
    <2> QED
      BY <1>3, <1>4, <1>5, <1>6, <2>1, <2>2, PrimaryStep DEF i

(* A state that succeeds and asks for nothing, gives nothing back. *)
LEMMA AdvanceStep ==
  ASSUME Inv, NEW e \in Earbuds, UNCHANGED <<is_primary, secondaryVars, performance_req_count>>,
         session_id' \in [Earbuds -> 0 .. SessionIds - 1],
         inbox' \in [Earbuds -> Seq(Messages)],
         NEW b \in BOOLEAN, UNCHANGED seen \/ seen' = [seen EXCEPT ![e].unacked = b],
         NEW u \in SUBSET Work, undone' = [undone EXCEPT ![e] = u],
         primary_state[e] \in 1 .. 23, primary_state[e] # 9, Advance(e)
  PROVE  Inv'
  <1> DEFINE n == primary_state[e] + 1
             c == performance_req_count[e]
  <1>1. TypeOK /\ c \in Nat
    BY Typed DEF Inv
  <1>2. /\ primary_state' = [primary_state EXCEPT ![e] = n]
        /\ performance_req_count' = [performance_req_count EXCEPT ![e] = c]
    BY <1>1 DEF Advance, TypeOK
  <1>3. /\ n \in 0 .. 26 /\ n \notin {0, 25, 26}
        /\ AsPrimary(primary_state[e]) = AsPrimary(n) /\ AsPrimary(n) \in Int
    BY NextState
  <1>4. c = performance_req_count[e] - AsPrimary(primary_state[e]) + AsPrimary(n)
    BY <1>1, <1>3
  <1>5. UNCHANGED secondaryVars /\ is_primary' \in [Earbuds -> BOOLEAN]
    BY <1>1 DEF TypeOK
  <1> HIDE DEF n, c
  <1> QED
    BY <1>1, <1>2, <1>3, <1>4, <1>5, PrimaryStep

(* What most steps of the procedure leave alone. *)
LEMMA Kept ==
  ASSUME Inv
  PROVE  /\ is_primary \in [Earbuds -> BOOLEAN]
         /\ inbox \in [Earbuds -> Seq(Messages)]
         /\ session_id \in [Earbuds -> 0 .. SessionIds - 1]
         /\ undone \in [Earbuds -> SUBSET Work]
         /\ \A e \in Earbuds : undone = [undone EXCEPT ![e] = undone[e]]
         /\ \A e \in Earbuds :
               performance_req_count = [performance_req_count EXCEPT ![e] = @]
         /\ <<>> \in Seq(Messages)
  BY DEF Inv, TypeOK

LEMMA PrimarySetupStep ==
  ASSUME Inv, NEW e \in Earbuds, PrimarySetup(e)
  PROVE  Inv'
  <1> DEFINE u == undone[e] \cup {"setup"}
             c == performance_req_count[e]
  <1>1. TypeOK /\ c \in Nat /\ u \in SUBSET Work
    BY Typed DEF Inv, Work
  <1>2. inbox' \in [Earbuds -> Seq(Messages)]
    <2>1. PICK received \in 0 .. Len(inbox[e]) :
             Exchange(e, SubSeq(inbox[e], received + 1, Len(inbox[e])), <<>>)
      BY DEF PrimarySetup
    <2>2. SubSeq(inbox[e], received + 1, Len(inbox[e])) \in Seq(Messages)
      BY <1>1, Typed, SubSeqProperties
    <2> QED
      BY <1>1, <2>1, <2>2, Kept, ExchangeTyped
  <1>3. /\ primary_state' = [primary_state EXCEPT ![e] = 2] /\ primary_state[e] = 0
        /\ undone' = [undone EXCEPT ![e] = u]
        /\ UNCHANGED <<is_primary, session_id, secondaryVars, performance_req_count, seen>>
    BY Positions DEF PrimarySetup
  <1>4. performance_req_count' = [performance_req_count EXCEPT ![e] = c]
    BY <1>3, Kept
  <1>5. AsPrimary(0) = 0 /\ AsPrimary(2) = 0
    BY DEF AsPrimary
  <1>6. c = performance_req_count[e] - AsPrimary(primary_state[e]) + AsPrimary(2)
    BY <1>1, <1>3, <1>5
  <1>7. session_id' \in [Earbuds -> 0 .. SessionIds - 1] /\ is_primary' \in [Earbuds -> BOOLEAN]
    BY <1>3, Kept
  <1>8. 2 \in 0 .. 26 /\ 2 \notin {25, 26} /\ 2 # 0 /\ UNCHANGED secondaryVars /\ UNCHANGED seen
    BY <1>3
  <1> HIDE DEF u, c
  <1> QED
    BY <1>1, <1>2, <1>3, <1>4, <1>6, <1>7, <1>8, PrimaryStep

LEMMA MayProceedStep ==
  ASSUME Inv, NEW e \in Earbuds, MayProceed(e)
  PROVE  Inv'
  <1>1. primary_state[e] \in 1 .. 23 /\ primary_state[e] # 9
    BY Position DEF MayProceed, Inv
  <1>2. /\ UNCHANGED <<is_primary, session_id, secondaryVars, seen>>
        /\ session_id' \in [Earbuds -> 0 .. SessionIds - 1]
    BY Kept DEF MayProceed
  <1>3. CASE Advance(e) /\ UNCHANGED <<inbox, undone, performance_req_count>>
    <2>1. /\ undone' = [undone EXCEPT ![e] = undone[e]] /\ undone[e] \in SUBSET Work
          /\ inbox' \in [Earbuds -> Seq(Messages)]
      BY <1>3, Kept
    <2> QED
      BY <1>1, <1>2, <1>3, <2>1, AdvanceStep
  <1>4. CASE Fail(e, inbox[e], <<>>, {})
    <2>1. inbox[e] \in Seq(Messages) /\ <<>> \in Seq(Messages) /\ {} \in SUBSET Work
      BY Kept
    <2> QED
      BY <1>1, <1>2, <1>4, <2>1, FailStep
  <1> QED
    BY <1>3, <1>4 DEF MayProceed

LEMMA SendStartReqStep ==
  ASSUME Inv, NEW e \in Earbuds, SendStartReq(e)
  PROVE  Inv'
  <1> DEFINE req == <<[type |-> "START_REQ", session |-> session_id'[e]]>>
  <1>1. primary_state[e] \in 1 .. 23 /\ primary_state[e] # 9
    <2>1. InState(e, "send_start_req")
      BY DEF SendStartReq
    <2> QED
      BY <2>1, Position DEF Inv
  <1>2. UNCHANGED <<is_primary, secondaryVars, seen>>
    BY DEF SendStartReq
  <1>3. session_id' \in [Earbuds -> 0 .. SessionIds - 1]
    <2>1. \A k \in 0 .. SessionIds - 1 : (k + 1) % SessionIds \in 0 .. SessionIds - 1
      BY HandoverAssumption
    <2> QED
      BY <2>1, Kept DEF SendStartReq
  <1>4. inbox[e] \in Seq(Messages) /\ <<>> \in Seq(Messages) /\ {} \in SUBSET Work
        /\ req \in Seq(Messages)
    BY <1>3, Kept DEF Messages
  <1>5. CASE Exchange(e, inbox[e], req) /\ Advance(e) /\ UNCHANGED <<undone, performance_req_count>>
    <2>1. /\ undone' = [undone EXCEPT ![e] = undone[e]] /\ undone[e] \in SUBSET Work
          /\ inbox' \in [Earbuds -> Seq(Messages)]
      BY <1>4, <1>5, Kept, ExchangeTyped DEF Inv
    <2> QED
      BY <1>1, <1>2, <1>3, <1>5, <2>1, AdvanceStep
  <1>6. CASE Fail(e, inbox[e], <<>>, {})
    BY <1>1, <1>2, <1>3, <1>4, <1>6, FailStep
  <1> QED
    BY <1>5, <1>6 DEF SendStartReq

(* A wait that takes a message and goes on waiting. *)
LEMMA DropStep ==
  ASSUME Inv, NEW e \in Earbuds,
         UNCHANGED <<is_primary, primary_state, session_id, undone, secondaryVars,
                     performance_req_count, seen>>,
         inbox' \in [Earbuds -> Seq(Messages)]
  PROVE  Inv'
  BY DEF Inv, TypeOK, secondaryVars

LEMMA WaitForStartCfmStep ==
  ASSUME Inv, NEW e \in Earbuds, WaitForStartCfm(e)
  PROVE  Inv'
  <1> DEFINE m == Head(inbox[e])
  <1>1. primary_state[e] \in 1 .. 23 /\ primary_state[e] # 9
    <2>1. InState(e, "wait_for_start_cfm")
      BY DEF WaitForStartCfm
    <2> QED
      BY <2>1, Position DEF Inv
  <1>2. /\ UNCHANGED <<is_primary, session_id, secondaryVars>>
        /\ session_id' \in [Earbuds -> 0 .. SessionIds - 1]
    BY Kept DEF WaitForStartCfm
  <1>3. Tail(inbox[e]) \in Seq(Messages) /\ <<>> \in Seq(Messages) /\ {} \in SUBSET Work
    BY Kept, HeadTailProperties DEF WaitForStartCfm
  <1>4. CASE IsAnswer(e, m) /\ ~m.accepted
    <2>1. Fail(e, Tail(inbox[e]), <<>>, {}) /\ UNCHANGED seen
      BY <1>4 DEF WaitForStartCfm
    <2> QED
      BY <1>1, <1>2, <1>3, <2>1, FailStep
  <1>5. CASE ~(IsAnswer(e, m) /\ ~m.accepted)
    <2>1. /\ Exchange(e, Tail(inbox[e]), <<>>) /\ UNCHANGED <<undone, performance_req_count>>
          /\ IF IsAnswer(e, m)
             THEN Advance(e) /\ seen' = [seen EXCEPT ![e].unacked = FALSE]
             ELSE UNCHANGED <<primary_state, seen>>
      BY <1>5 DEF WaitForStartCfm
    <2>2. inbox' \in [Earbuds -> Seq(Messages)]
      BY <1>3, <2>1, ExchangeTyped DEF Inv
    <2>3. CASE IsAnswer(e, m)
      <3>1. undone' = [undone EXCEPT ![e] = undone[e]] /\ undone[e] \in SUBSET Work
        BY <2>1, Kept
      <3> QED
        BY <1>1, <1>2, <2>1, <2>2, <2>3, <3>1, AdvanceStep
    <2>4. CASE ~IsAnswer(e, m)
      BY <1>2, <2>1, <2>2, <2>4, DropStep
    <2> QED
      BY <2>3, <2>4
  <1> QED
    BY <1>4, <1>5

LEMMA WaitForUnmarshalP1CfmStep ==
  ASSUME Inv, NEW e \in Earbuds, WaitForUnmarshalP1Cfm(e)
  PROVE  Inv'
  <1>1. primary_state[e] \in 1 .. 23 /\ primary_state[e] # 9
    <2>1. InState(e, "wait_for_marshal_data_cfm")
      BY DEF WaitForUnmarshalP1Cfm
    <2> QED
      BY <2>1, Position DEF Inv
  <1>2. UNCHANGED <<is_primary, session_id, undone, secondaryVars, performance_req_count, seen>>
    BY DEF WaitForUnmarshalP1Cfm
  <1>3. inbox' \in [Earbuds -> Seq(Messages)]
    <2>1. Tail(inbox[e]) \in Seq(Messages) /\ <<>> \in Seq(Messages)
      BY Kept, HeadTailProperties DEF WaitForUnmarshalP1Cfm
    <2> QED
      BY <2>1, ExchangeTyped DEF WaitForUnmarshalP1Cfm, Inv
  <1>4. CASE Advance(e)
    <2>1. /\ undone' = [undone EXCEPT ![e] = undone[e]] /\ undone[e] \in SUBSET Work
          /\ session_id' \in [Earbuds -> 0 .. SessionIds - 1]
      BY <1>2, Kept
    <2> QED
      BY <1>1, <1>2, <1>3, <1>4, <2>1, AdvanceStep
  <1>5. CASE UNCHANGED primary_state
    BY <1>2, <1>3, <1>5, DropStep
  <1> QED
    BY <1>4, <1>5 DEF WaitForUnmarshalP1Cfm

LEMMA ProtocolTimeoutStep ==
  ASSUME Inv, NEW e \in Earbuds, ProtocolTimeout(e)
  PROVE  Inv'
  <1>1. primary_state[e] \in 1 .. 23
    <2>1. \E s \in {"wait_for_start_cfm", "wait_for_marshal_data_cfm"} : InState(e, s)
      BY DEF ProtocolTimeout
    <2> QED
      BY <2>1, Position DEF Inv
  <1>2. /\ UNCHANGED <<is_primary, session_id, secondaryVars, seen>>
        /\ session_id' \in [Earbuds -> 0 .. SessionIds - 1]
        /\ Fail(e, inbox[e], <<>>, {})
    BY Kept DEF ProtocolTimeout
  <1>3. inbox[e] \in Seq(Messages) /\ <<>> \in Seq(Messages) /\ {} \in SUBSET Work
    BY Kept
  <1> QED
    BY <1>1, <1>2, <1>3, FailStep

LEMMA SendP1MarshalDataStep ==
  ASSUME Inv, NEW e \in Earbuds, SendP1MarshalData(e)
  PROVE  Inv'
  <1>1. primary_state[e] \in 1 .. 23 /\ primary_state[e] # 9
    <2>1. InState(e, "send_p1_marshal_data")
      BY DEF SendP1MarshalData
    <2> QED
      BY <2>1, Position DEF Inv
  <1>2. /\ UNCHANGED <<is_primary, session_id, secondaryVars, seen>>
        /\ session_id' \in [Earbuds -> 0 .. SessionIds - 1]
    BY Kept DEF SendP1MarshalData
  <1>3. inbox[e] \in Seq(Messages) /\ {"send_p1_marshal_data"} \in SUBSET Work
    BY Kept DEF Work
  <1>4. PICK sent \in 0 .. Others + 1 :
          LET data == [k \in 1 .. sent |-> [type |-> "P1_DATA"]] IN
          IF sent = Others + 1
          THEN /\ Exchange(e, inbox[e], data) /\ Advance(e)
               /\ undone' = [undone EXCEPT ![e] = @ \cup {"send_p1_marshal_data"}]
               /\ UNCHANGED performance_req_count
          ELSE Fail(e, inbox[e], data, {"send_p1_marshal_data"})
    BY DEF SendP1MarshalData
  <1> DEFINE data == [k \in 1 .. sent |-> [type |-> "P1_DATA"]]
             u == undone[e] \cup {"send_p1_marshal_data"}
  <1>5. data \in Seq(Messages) /\ u \in SUBSET Work
    <2>1. sent \in Nat /\ [type |-> "P1_DATA"] \in Messages
      BY HandoverAssumption DEF Messages
    <2>2. data \in [1 .. sent -> Messages]
      BY <2>1
    <2>3. data \in Seq(Messages)
      <3> HIDE DEF data
      <3> QED
        BY <2>1, <2>2, SeqDef
    <2> QED
      BY <1>3, <2>3, Kept
  <1>6. CASE sent = Others + 1
    <2>1. /\ Exchange(e, inbox[e], data) /\ Advance(e) /\ UNCHANGED performance_req_count
          /\ undone' = [undone EXCEPT ![e] = u]
      BY <1>4, <1>6
    <2>2. inbox' \in [Earbuds -> Seq(Messages)]
      BY <1>3, <1>5, <2>1, ExchangeTyped DEF Inv
    <2> HIDE DEF u, data
    <2> QED
      BY <1>1, <1>2, <1>5, <2>1, <2>2, AdvanceStep
  <1>7. CASE sent # Others + 1
    <2>1. Fail(e, inbox[e], data, {"send_p1_marshal_data"})
      BY <1>4, <1>7
    <2> HIDE DEF data
    <2> QED
      BY <1>1, <1>2, <1>3, <1>5, <2>1, FailStep
  <1> QED
    BY <1>6, <1>7

LEMMA WorkOnLinksStep ==
  ASSUME Inv, NEW e \in Earbuds, WorkOnLinks(e)
  PROVE  Inv'
  <1>1. PICK s \in {"halt_inactive", "prepare_inactive", "halt_active", "set_peer_link_active",
                    "prepare_active", "wait_for_peer_link_active"} :
          /\ InState(e, s)
          /\ LET links == ~(s \in {"halt_inactive", "prepare_inactive"} /\ Others = 0) IN
             \/ /\ Advance(e)
                /\ undone' = [undone EXCEPT ![e] = IF links THEN @ \cup ({s} \cap Work) ELSE @]
                /\ UNCHANGED <<inbox, performance_req_count>>
             \/ links /\ \E part \in SUBSET ({s} \cap PartlyDone) :
                            Fail(e, inbox[e], <<>>, part)
          /\ UNCHANGED <<is_primary, session_id, secondaryVars, seen>>
    BY DEF WorkOnLinks
  <1>2. primary_state[e] \in 1 .. 23 /\ primary_state[e] # 9
    <2>1. InState(e, s) /\ s \notin {"commit_to_secondary_role", "performance_relinquish",
                                    "cleanup", "performance_request"}
      BY <1>1
    <2> QED
      BY <2>1, Position DEF Inv
  <1>3. /\ UNCHANGED <<is_primary, session_id, secondaryVars, seen>>
        /\ session_id' \in [Earbuds -> 0 .. SessionIds - 1]
    BY <1>1, Kept
  <1>4. ASSUME NEW part \in SUBSET ({s} \cap PartlyDone), Fail(e, inbox[e], <<>>, part)
        PROVE  Inv'
    <2>1. part \in SUBSET Work
      BY DEF PartlyDone, Work
    <2>2. inbox[e] \in Seq(Messages) /\ <<>> \in Seq(Messages)
      BY Kept
    <2> QED
      BY <1>2, <1>3, <1>4, <2>1, <2>2, FailStep
  <1>5. ASSUME NEW work \in SUBSET Work, Advance(e), UNCHANGED <<inbox, performance_req_count>>,
               undone' = [undone EXCEPT ![e] = undone[e] \cup work]
        PROVE  Inv'
    <2>1. inbox' \in [Earbuds -> Seq(Messages)] /\ undone[e] \cup work \in SUBSET Work
      BY <1>5, Kept
    <2> QED
      BY <1>2, <1>3, <1>5, <2>1, AdvanceStep
  <1>6. \/ /\ Advance(e) /\ UNCHANGED <<inbox, performance_req_count>>
           /\ \/ undone' = [undone EXCEPT ![e] = undone[e] \cup ({s} \cap Work)]
              \/ undone' = [undone EXCEPT ![e] = undone[e] \cup {}]
        \/ \E part \in SUBSET ({s} \cap PartlyDone) : Fail(e, inbox[e], <<>>, part)
    <2>1. undone[e] \cup {} = undone[e]
      OBVIOUS
    <2> QED
      BY <1>1, <2>1
  <1>7. {s} \cap Work \in SUBSET Work /\ {} \in SUBSET Work
    OBVIOUS
  <1> QED
    BY <1>4, <1>5, <1>6, <1>7

LEMMA SendBtStackMarshalDataStep ==
  ASSUME Inv, NEW e \in Earbuds, SendBtStackMarshalData(e)
  PROVE  Inv'
  <1>1. primary_state[e] \in 1 .. 23 /\ primary_state[e] # 9
    <2>1. InState(e, "send_inactive_marshal_data") \/ InState(e, "send_active_marshal_data")
      BY DEF SendBtStackMarshalData
    <2> QED
      BY <2>1, Position DEF Inv
  <1>2. /\ UNCHANGED <<is_primary, session_id, undone, secondaryVars, performance_req_count, seen>>
        /\ Advance(e)
    BY DEF SendBtStackMarshalData
  <1>3. /\ session_id' \in [Earbuds -> 0 .. SessionIds - 1]
        /\ undone' = [undone EXCEPT ![e] = undone[e]] /\ undone[e] \in SUBSET Work
    BY <1>2, Kept
  <1>4. PICK sent \in {[k \in 1 .. Others |-> [type |-> "BT_DATA", mirrored |-> FALSE]],
                       <<[type |-> "BT_DATA", mirrored |-> TRUE]>>} : Exchange(e, inbox[e], sent)
    BY DEF SendBtStackMarshalData
  <1>5. sent \in Seq(Messages) /\ inbox[e] \in Seq(Messages)
    <2>1. /\ [type |-> "BT_DATA", mirrored |-> FALSE] \in Messages
          /\ [type |-> "BT_DATA", mirrored |-> TRUE] \in Messages
      BY DEF Messages
    <2>2. ASSUME NEW data \in [1 .. Others -> Messages] PROVE data \in Seq(Messages)
      BY HandoverAssumption, SeqDef
    <2>3. [k \in 1 .. Others |-> [type |-> "BT_DATA", mirrored |-> FALSE]] \in [1 .. Others -> Messages]
      BY <2>1
    <2>4. <<[type |-> "BT_DATA", mirrored |-> TRUE]>> \in Seq(Messages)
      BY <2>1
    <2>5. inbox[e] \in Seq(Messages)
      BY Kept
    <2>6. [k \in 1 .. Others |-> [type |-> "BT_DATA", mirrored |-> FALSE]] \in Seq(Messages)
      BY <2>2, <2>3
    <2> QED
      BY <2>4, <2>5, <2>6
  <1>6. inbox' \in [Earbuds -> Seq(Messages)]
    BY <1>4, <1>5, ExchangeTyped DEF Inv
  <1> QED
    BY <1>1, <1>2, <1>3, <1>6, AdvanceStep

LEMMA ClearPendingPeerDataStep ==
  ASSUME Inv, NEW e \in Earbuds, ClearPendingPeerData(e)
  PROVE  Inv'
  <1>1. primary_state[e] \in 1 .. 23 /\ primary_state[e] # 9
    <2>1. InState(e, "clear_pending_peer_data")
      BY DEF ClearPendingPeerData
    <2> QED
      BY <2>1, Position DEF Inv
  <1>2. /\ UNCHANGED <<is_primary, session_id, secondaryVars>>
        /\ session_id' \in [Earbuds -> 0 .. SessionIds - 1]
    BY Kept DEF ClearPendingPeerData
  <1>3. CASE Advance(e) /\ UNCHANGED <<inbox, undone, performance_req_count, seen>>
    <2>1. /\ undone' = [undone EXCEPT ![e] = undone[e]] /\ undone[e] \in SUBSET Work
          /\ inbox' \in [Earbuds -> Seq(Messages)]
      BY <1>3, Kept
    <2> QED
      BY <1>1, <1>2, <1>3, <2>1, AdvanceStep
  <1>4. CASE Fail(e, inbox[e], <<>>, {}) /\ seen' = [seen EXCEPT ![e].unacked = TRUE]
    <2>1. inbox[e] \in Seq(Messages) /\ <<>> \in Seq(Messages) /\ {} \in SUBSET Work
      BY Kept
    <2> QED
      BY <1>1, <1>2, <1>4, <2>1, FailStep
  <1> QED
    BY <1>3, <1>4 DEF ClearPendingPeerData

(* The steps that change what the invariant says: the request is made, and *)
(* after the commitment given back.                                        *)
LEMMA RequestsBy ==
  /\ AsPrimary(0) = 0 /\ AsPrimary(9) = 0 /\ AsPrimary(10) = 1 /\ AsPrimary(24) = 1
  /\ AsPrimary(25) = 1 /\ AsPrimary(26) = 0
  BY DEF AsPrimary

LEMMA MoveStep ==
  ASSUME Inv, NEW e \in Earbuds, UNCHANGED <<inbox, session_id, secondaryVars, seen>>,
         is_primary' \in [Earbuds -> BOOLEAN],
         NEW n \in {0, 10, 25, 26}, primary_state' = [primary_state EXCEPT ![e] = n],
         NEW u \in SUBSET undone[e], undone' = [undone EXCEPT ![e] = u],
         NEW c \in Nat, performance_req_count' = [performance_req_count EXCEPT ![e] = c],
         c = performance_req_count[e] - AsPrimary(primary_state[e]) + AsPrimary(n),
         n \in {25, 26} => u \subseteq {"setup"}
  PROVE  Inv'
  <1>1. /\ inbox' \in [Earbuds -> Seq(Messages)]
        /\ session_id' \in [Earbuds -> 0 .. SessionIds - 1]
        /\ u \in SUBSET Work /\ n \in 0 .. 26 /\ TRUE \in BOOLEAN
    BY Kept
  <1>2. n \in {25, 26} => u \subseteq {"setup"}
    OBVIOUS
  <1>3. UNCHANGED secondaryVars /\ UNCHANGED seen
    OBVIOUS
  <1> QED
    BY <1>1, <1>2, <1>3, PrimaryStep

(* Where the four states are that ask for, commit or give back. *)
LEMMA LastPositions ==
  ASSUME TypeOK, NEW e \in Earbuds
  PROVE  /\ InState(e, "performance_request") => primary_state[e] = 9
         /\ InState(e, "commit_to_secondary_role") => primary_state[e] = 24
         /\ InState(e, "performance_relinquish") => primary_state[e] = 25
         /\ InState(e, "cleanup") => primary_state[e] = 26
  <1>1. ASSUME NEW s, InState(e, s)
        PROVE  primary_state[e] \in 1 .. 26 /\ States[primary_state[e]] = s
    BY <1>1, Position
  <1> QED
    BY <1>1, StateTable

LEMMA PerformanceRequestStep ==
  ASSUME Inv, NEW e \in Earbuds, PerformanceRequest(e)
  PROVE  Inv'
  <1> DEFINE c == performance_req_count[e] + 1
  <1>1. primary_state[e] = 9 /\ performance_req_count[e] \in Nat
    BY LastPositions, Typed DEF PerformanceRequest, Inv
  <1>2. /\ UNCHANGED <<is_primary, inbox, session_id, undone, secondaryVars, seen>>
        /\ primary_state' = [primary_state EXCEPT ![e] = 10]
        /\ performance_req_count' = [performance_req_count EXCEPT ![e] = c]
    BY <1>1 DEF PerformanceRequest, Advance
  <1>3. /\ undone' = [undone EXCEPT ![e] = undone[e]] /\ undone[e] \in SUBSET undone[e]
        /\ is_primary' \in [Earbuds -> BOOLEAN]
    BY <1>2, Kept
  <1>4. c \in Nat /\ c = performance_req_count[e] - AsPrimary(primary_state[e]) + AsPrimary(10)
    BY <1>1, RequestsBy
  <1>5. 10 \in {0, 10, 25, 26} /\ 10 \notin {25, 26} /\ 10 # 0
    OBVIOUS
  <1> HIDE DEF c
  <1> QED
    BY <1>2, <1>3, <1>4, <1>5, MoveStep

LEMMA CommitSecondaryRoleStep ==
  ASSUME Inv, NEW e \in Earbuds, CommitSecondaryRole(e)
  PROVE  Inv'
  <1> DEFINE c == performance_req_count[e]
             u == undone[e] \cap {"setup"}
  <1>1. primary_state[e] = 24 /\ c \in Nat
    BY LastPositions, Typed DEF CommitSecondaryRole, Inv
  <1>2. /\ UNCHANGED <<inbox, session_id, secondaryVars, performance_req_count, seen>>
        /\ is_primary' = [is_primary EXCEPT ![e] = FALSE]
        /\ primary_state' = [primary_state EXCEPT ![e] = 25]
        /\ undone' = [undone EXCEPT ![e] = u]
    BY <1>1 DEF CommitSecondaryRole, Advance
  <1>3. /\ performance_req_count' = [performance_req_count EXCEPT ![e] = c]
        /\ is_primary' \in [Earbuds -> BOOLEAN]
    BY <1>2, Kept
  <1>4. c = performance_req_count[e] - AsPrimary(primary_state[e]) + AsPrimary(25)
    BY <1>1, RequestsBy
  <1>5. u \in SUBSET undone[e] /\ u \subseteq {"setup"}
    OBVIOUS
  <1>6. 25 \in {0, 10, 25, 26} /\ 25 # 0
    OBVIOUS
  <1> HIDE DEF c, u
  <1> QED
    BY <1>1, <1>2, <1>3, <1>4, <1>5, <1>6, MoveStep

LEMMA PerformanceRelinquishStep ==
  ASSUME Inv, NEW e \in Earbuds, PerformanceRelinquish(e)
  PROVE  Inv'
  <1> DEFINE c == Relinquished(performance_req_count[e])
  <1>1. /\ primary_state[e] = 25 /\ performance_req_count[e] \in Nat
        /\ seen[e].takeovers \in Nat
    BY LastPositions, Typed DEF PerformanceRelinquish, Inv
  <1>2. /\ UNCHANGED <<is_primary, inbox, session_id, undone, secondaryVars, seen>>
        /\ primary_state' = [primary_state EXCEPT ![e] = 26]
        /\ performance_req_count' = [performance_req_count EXCEPT ![e] = c]
    BY <1>1 DEF PerformanceRelinquish, Advance
  <1>3. /\ undone' = [undone EXCEPT ![e] = undone[e]] /\ undone[e] \in SUBSET undone[e]
        /\ is_primary' \in [Earbuds -> BOOLEAN] /\ undone[e] \subseteq {"setup"}
    BY <1>1, <1>2, Kept DEF Inv
  <1>4. performance_req_count[e] > 0
    <2>1. AsSecondary(secondary_state[e]) \in Nat
      BY DEF AsSecondary
    <2>2. performance_req_count[e] = 1 + AsSecondary(secondary_state[e]) + seen[e].takeovers
      BY <1>1, RequestsBy DEF Inv
    <2> QED
      BY <1>1, <2>1, <2>2
  <1>5. c \in Nat /\ c = performance_req_count[e] - AsPrimary(primary_state[e]) + AsPrimary(26)
    BY <1>1, <1>4, RequestsBy, RelinquishedTyped
  <1>6. 26 \in {0, 10, 25, 26} /\ 26 # 0
    OBVIOUS
  <1> HIDE DEF c
  <1> QED
    BY <1>2, <1>3, <1>5, <1>6, MoveStep

LEMMA PrimaryCleanupStep ==
  ASSUME Inv, NEW e \in Earbuds, PrimaryCleanup(e)
  PROVE  Inv'
  <1> DEFINE c == performance_req_count[e]
             u == undone[e] \ {"setup"}
  <1>1. primary_state[e] = 26 /\ c \in Nat
    BY LastPositions, Typed DEF PrimaryCleanup, Inv
  <1>2. /\ UNCHANGED <<is_primary, inbox, session_id, secondaryVars, performance_req_count, seen>>
        /\ primary_state' = [primary_state EXCEPT ![e] = 0]
        /\ undone' = [undone EXCEPT ![e] = u]
    BY DEF PrimaryCleanup
  <1>3. /\ performance_req_count' = [performance_req_count EXCEPT ![e] = c]
        /\ is_primary' \in [Earbuds -> BOOLEAN]
    BY <1>2, Kept
  <1>4. c = performance_req_count[e] - AsPrimary(primary_state[e]) + AsPrimary(0)
    BY <1>1, RequestsBy
  <1>5. u \in SUBSET undone[e]
    OBVIOUS
  <1>6. 0 \in {0, 10, 25, 26} /\ (0 \in {25, 26} => u \subseteq {"setup"})
    OBVIOUS
  <1> HIDE DEF c, u
  <1> QED
    BY <1>1, <1>2, <1>3, <1>4, <1>5, <1>6, MoveStep

-----------------------------------------------------------------------------
(* The secondary. *)

(* The cleanup gives back what the state has asked for. *)
LEMMA CleanupCount ==
  ASSUME Inv, NEW e \in Earbuds
  PROVE  /\ CountAfterCleanup(e, secondary_state[e]) \in Nat
         /\ CountAfterCleanup(e, secondary_state[e]) =
                AsPrimary(primary_state[e]) + seen[e].takeovers
         /\ CountAfterCleanup(e, "idle") = performance_req_count[e]
  <1>1. /\ performance_req_count[e] \in Nat /\ seen[e].takeovers \in Nat
        /\ performance_req_count[e] = AsPrimary(primary_state[e])
              + AsSecondary(secondary_state[e]) + seen[e].takeovers
    BY Typed DEF Inv
  <1>2. AsPrimary(primary_state[e]) \in Nat
    BY DEF AsPrimary
  <1>3. CASE secondary_state[e] \in {"unmarshalled", "bt_data"}
    <2>1. AsSecondary(secondary_state[e]) = 1
      BY <1>3 DEF AsSecondary
    <2>2. performance_req_count[e] > 0
      BY <1>1, <1>2, <2>1
    <2>3. CountAfterCleanup(e, secondary_state[e]) = performance_req_count[e] - 1
      BY <1>1, <1>3, <2>2, RelinquishedTyped DEF CountAfterCleanup
    <2> QED
      BY <1>1, <1>2, <2>1, <2>2, <2>3 DEF CountAfterCleanup
  <1>4. CASE secondary_state[e] \notin {"unmarshalled", "bt_data"}
    <2>1. AsSecondary(secondary_state[e]) = 0
      BY <1>4 DEF AsSecondary
    <2>2. CountAfterCleanup(e, secondary_state[e]) = performance_req_count[e]
      BY <1>4 DEF CountAfterCleanup
    <2> QED
      BY <1>1, <1>2, <2>1, <2>2 DEF CountAfterCleanup
  <1> QED
    BY <1>3, <1>4

LEMMA CleanupStep ==
  ASSUME Inv, NEW e \in Earbuds, UNCHANGED <<is_primary, primaryVars>>, Cleanup(e),
         inbox' \in [Earbuds -> Seq(Messages)],
         waiting' \in [Earbuds -> BOOLEAN],
         NEW r \in Seen, seen' = [seen EXCEPT ![e] = r], r.takeovers = seen[e].takeovers
  PROVE  Inv'
  <1> DEFINE c == CountAfterCleanup(e, secondary_state[e])
  <1>1. c \in Nat /\ c = AsPrimary(primary_state[e]) + seen[e].takeovers
    BY CleanupCount
  <1>2. AsSecondary("idle") = 0 /\ AsPrimary(primary_state[e]) \in Nat /\ r.takeovers \in Nat
    BY DEF AsSecondary, AsPrimary, Seen
  <1>3. c = AsPrimary(primary_state[e]) + AsSecondary("idle") + r.takeovers
    BY <1>1, <1>2
  <1>4. 0 \in 0 .. Others /\ 0 \in 0 .. Others + 1
    BY HandoverAssumption
  <1>5. /\ is_primary' \in [Earbuds -> BOOLEAN]
        /\ bt_left' \in [Earbuds -> 0 .. Others]
    BY <1>4 DEF Inv, TypeOK, Cleanup
  <1>6. /\ p1_left' = [p1_left EXCEPT ![e] = 0]
        /\ secondary_state' = [secondary_state EXCEPT ![e] = "idle"]
        /\ performance_req_count' = [performance_req_count EXCEPT ![e] = c]
        /\ UNCHANGED primaryVars
    BY DEF Cleanup
  <1> HIDE DEF c
  <1> QED
    BY <1>1, <1>3, <1>4, <1>5, <1>6, SecondaryStep

(* A message that changes nothing of what the secondary keeps. *)
LEMMA DropDataStep ==
  ASSUME Inv, NEW e \in Earbuds, UNCHANGED primaryVars, DropMarshalData(e),
         inbox' \in [Earbuds -> Seq(Messages)]
  PROVE  Inv'
  BY DEF Inv, TypeOK, primaryVars, DropMarshalData

(* What HandleMessage takes from the inbox, and what is left. *)
LEMMA Taken ==
  ASSUME Inv, NEW e \in Earbuds, inbox[e] # <<>>
  PROVE  /\ Head(inbox[e]) \in Messages
         /\ Tail(inbox[e]) \in Seq(Messages) /\ <<>> \in Seq(Messages)
         /\ \A sent \in Seq(Messages) :
               Exchange(e, Tail(inbox[e]), sent) => inbox' \in [Earbuds -> Seq(Messages)]
  <1>1. /\ Head(inbox[e]) \in Messages
        /\ Tail(inbox[e]) \in Seq(Messages) /\ <<>> \in Seq(Messages)
    BY Kept, HeadTailProperties
  <1> QED
    BY <1>1, ExchangeTyped DEF Inv

LEMMA HandleCancelIndStep ==
  ASSUME Inv, NEW e \in Earbuds, inbox[e] # <<>>, HandleCancelInd(e), UNCHANGED primaryVars
  PROVE  Inv'
  <1>1. inbox' \in [Earbuds -> Seq(Messages)]
    BY Taken DEF HandleCancelInd
  <1>2. /\ UNCHANGED <<is_primary, primaryVars>> /\ Cleanup(e)
        /\ waiting' \in [Earbuds -> BOOLEAN]
    BY DEF HandleCancelInd, Inv, TypeOK
  <1>3. seen[e] \in Seen /\ seen' = [seen EXCEPT ![e] = seen[e]]
    BY DEF HandleCancelInd, Inv, TypeOK
  <1> QED
    BY <1>1, <1>2, <1>3, CleanupStep

LEMMA HandleLateCfmStep ==
  ASSUME Inv, NEW e \in Earbuds, inbox[e] # <<>>, HandleLateCfm(e), UNCHANGED primaryVars
  PROVE  Inv'
  <1>1. inbox' \in [Earbuds -> Seq(Messages)]
    BY Taken DEF HandleLateCfm
  <1>2. DropMarshalData(e)
    BY DEF HandleLateCfm
  <1> QED
    BY <1>1, <1>2, DropDataStep

LEMMA MessageTimeoutStep ==
  ASSUME Inv, NEW e \in Earbuds, MessageTimeout(e)
  PROVE  Inv'
  <1> DEFINE g == seen[e].gave_up \/ HasRequested(e)
             r == [seen[e] EXCEPT !.gave_up = g]
  <1>1. seen \in [Earbuds -> Seen] /\ seen[e] \in Seen
    BY DEF Inv, TypeOK
  <1>2. seen' = [seen EXCEPT ![e] = r]
    BY <1>1 DEF MessageTimeout
  <1>3. g \in BOOLEAN
    OBVIOUS
  <1>4. r \in Seen /\ r.takeovers = seen[e].takeovers
    <2> HIDE DEF g
    <2> QED
      BY <1>1, <1>3 DEF Seen
  <1>5. /\ UNCHANGED <<is_primary, primaryVars>> /\ Cleanup(e)
        /\ inbox' \in [Earbuds -> Seq(Messages)] /\ waiting' \in [Earbuds -> BOOLEAN]
    BY DEF MessageTimeout, Inv, TypeOK
  <1> HIDE DEF r
  <1> QED
    BY <1>2, <1>4, <1>5, CleanupStep

LEMMA AcceptStep ==
  ASSUME Inv, NEW e \in Earbuds, NEW session \in Nat, Accept(e, session),
         UNCHANGED <<is_primary, primaryVars>>,
         inbox' \in [Earbuds -> Seq(Messages)],
         waiting' \in [Earbuds -> BOOLEAN]
  PROVE  Inv'
  <1> DEFINE c == CountAfterCleanup(e, secondary_state[e])
             r == [seen[e] EXCEPT !.accepted = session, !.gave_up = FALSE]
             p == Others + 1
  <1>1. /\ seen \in [Earbuds -> Seen] /\ seen[e] \in Seen /\ Others \in Nat
        /\ is_primary' \in [Earbuds -> BOOLEAN]
    BY HandoverAssumption DEF Inv, TypeOK
  <1>2. r \in Seen /\ r.takeovers = seen[e].takeovers
    BY <1>1 DEF Seen
  <1>3. seen' = [seen EXCEPT ![e] = r]
    BY <1>1 DEF Accept
  <1>4. c \in Nat /\ c = AsPrimary(primary_state[e]) + seen[e].takeovers
    BY CleanupCount
  <1>5. AsSecondary("setup") = 0 /\ AsPrimary(primary_state[e]) \in Nat /\ r.takeovers \in Nat
    BY <1>2 DEF AsSecondary, AsPrimary, Seen
  <1>6. c = AsPrimary(primary_state[e]) + AsSecondary("setup") + r.takeovers
    BY <1>2, <1>4, <1>5
  <1>7. p \in 0 .. Others + 1 /\ p > 0 /\ bt_left' \in [Earbuds -> 0 .. Others]
    BY <1>1 DEF Accept, Inv, TypeOK
  <1>8. /\ p1_left' = [p1_left EXCEPT ![e] = p]
        /\ secondary_state' = [secondary_state EXCEPT ![e] = "setup"]
        /\ performance_req_count' = [performance_req_count EXCEPT ![e] = c]
        /\ UNCHANGED primaryVars
    BY DEF Accept
  <1> HIDE DEF c, r, p
  <1> QED
    BY <1>1, <1>2, <1>3, <1>4, <1>6, <1>7, <1>8, SecondaryStep

LEMMA RefuseStep ==
  ASSUME Inv, NEW e \in Earbuds, Refuse(e), UNCHANGED <<is_primary, primaryVars>>,
         inbox' \in [Earbuds -> Seq(Messages)],
         waiting' \in [Earbuds -> BOOLEAN]
  PROVE  Inv'
  <1>1. CASE is_primary[e]
    BY <1>1 DEF Refuse, Inv, TypeOK, primaryVars
  <1>2. CASE ~is_primary[e]
    <2>1. Cleanup(e)
      BY <1>2 DEF Refuse
    <2>2. seen[e] \in Seen /\ seen' = [seen EXCEPT ![e] = seen[e]]
      BY DEF Refuse, Inv, TypeOK
    <2> QED
      BY <2>1, <2>2, CleanupStep
  <1> QED
    BY <1>1, <1>2

LEMMA HandleStartReqStep ==
  ASSUME Inv, NEW e \in Earbuds, inbox[e] # <<>>, HandleStartReq(e), UNCHANGED primaryVars
  PROVE  Inv'
  <1> DEFINE req == Head(inbox[e])
             cfm(accepted) == <<[type |-> "START_CFM", session |-> req.session,
                                 accepted |-> accepted]>>
  <1>1. req.session \in 0 .. SessionIds - 1 /\ req.session \in Nat
    <2>1. req \in Messages /\ req.type = "START_REQ"
      BY Taken DEF HandleStartReq
    <2> QED
      BY <2>1, HandoverAssumption DEF Messages
  <1>2. \A accepted \in BOOLEAN : cfm(accepted) \in Seq(Messages)
    BY <1>1 DEF Messages
  <1>3. PICK accepted \in BOOLEAN :
          /\ \/ accepted /\ Accept(e, req.session)
             \/ ~accepted /\ Refuse(e)
          /\ \/ /\ Exchange(e, Tail(inbox[e]), cfm(accepted))
                /\ waiting' = [waiting EXCEPT ![e] = TRUE]
             \/ /\ Exchange(e, Tail(inbox[e]), <<>>)
                /\ waiting' = [waiting EXCEPT ![e] = FALSE]
    BY DEF HandleStartReq
  <1>4. inbox' \in [Earbuds -> Seq(Messages)] /\ waiting' \in [Earbuds -> BOOLEAN]
    <2>1. waiting \in [Earbuds -> BOOLEAN]
      BY DEF Inv, TypeOK
    <2>2. <<>> \in Seq(Messages) /\ cfm(accepted) \in Seq(Messages)
      BY <1>2
    <2> HIDE DEF cfm
    <2> QED
      BY <1>3, <2>1, <2>2, Taken
  <1>5. UNCHANGED <<is_primary, primaryVars>>
    BY DEF HandleStartReq
  <1> HIDE DEF req, cfm
  <1> QED
    BY <1>1, <1>3, <1>4, <1>5, AcceptStep, RefuseStep

LEMMA HandleAppsP1DataStep ==
  ASSUME Inv, NEW e \in Earbuds, inbox[e] # <<>>, HandleAppsP1Data(e), UNCHANGED primaryVars
  PROVE  Inv'
  <1>1. inbox' \in [Earbuds -> Seq(Messages)]
    <2>1. <<>> \in Seq(Messages) /\ <<[type |-> "UNMARSHAL_P1_CFM"]>> \in Seq(Messages)
      BY DEF Messages
    <2>2. \E sent \in {<<>>, <<[type |-> "UNMARSHAL_P1_CFM"]>>} :
             Exchange(e, Tail(inbox[e]), sent)
      BY DEF HandleAppsP1Data
    <2> QED
      BY <2>1, <2>2, Taken
  <1>2. CASE secondary_state[e] \in {"setup", "p1_data"}
    <2> DEFINE last == p1_left[e] = 1
               st == IF last THEN "unmarshalled" ELSE "p1_data"
               p == p1_left[e] - 1
               c == IF last THEN performance_req_count[e] + 1 ELSE performance_req_count[e]
               r == [seen[e] EXCEPT !.unmarshalled =
                                        IF last THEN seen[e].accepted ELSE seen[e].unmarshalled]
    <2>1. /\ p1_left[e] \in 0 .. Others + 1 /\ p1_left[e] > 0 /\ Others \in Nat
          /\ performance_req_count[e] \in Nat /\ seen[e] \in Seen
          /\ seen[e].takeovers \in Nat
      BY <1>2, Typed, HandoverAssumption DEF Inv
    <2>2. UnmarshalP1(e)
      BY <1>2 DEF HandleAppsP1Data
    <2>3. /\ p1_left' = [p1_left EXCEPT ![e] = p]
          /\ secondary_state' = [secondary_state EXCEPT ![e] = st]
          /\ performance_req_count' = [performance_req_count EXCEPT ![e] = c]
          /\ seen' = [seen EXCEPT ![e] = r]
          /\ is_primary' \in [Earbuds -> BOOLEAN] /\ waiting' \in [Earbuds -> BOOLEAN]
          /\ bt_left' \in [Earbuds -> 0 .. Others]
      BY <2>2 DEF UnmarshalP1, Inv, TypeOK
    <2>4. /\ p \in 0 .. Others + 1 /\ c \in Nat
          /\ st \in {"idle", "setup", "p1_data", "unmarshalled", "bt_data"}
          /\ st \in {"setup", "p1_data"} => p > 0
      BY <2>1
    <2>5. r \in Seen /\ r.takeovers = seen[e].takeovers
      BY <2>1 DEF Seen
    <2>6. c = AsPrimary(primary_state[e]) + AsSecondary(st) + r.takeovers
      <3>1. AsPrimary(primary_state[e]) \in Nat /\ AsSecondary(secondary_state[e]) = 0
        BY <1>2 DEF AsPrimary, AsSecondary
      <3>2. performance_req_count[e] = AsPrimary(primary_state[e]) + 0 + seen[e].takeovers
        BY <3>1 DEF Inv
      <3>3. AsSecondary(st) = IF last THEN 1 ELSE 0
        BY DEF AsSecondary
      <3> QED
        BY <2>1, <2>5, <3>1, <3>2, <3>3
    <2> HIDE DEF st, p, c, r
    <2> QED
      BY <1>1, <2>3, <2>4, <2>5, <2>6, SecondaryStep
  <1>3. CASE secondary_state[e] \notin {"setup", "p1_data"}
    BY <1>1, <1>3, DropDataStep DEF HandleAppsP1Data
  <1> QED
    BY <1>2, <1>3

LEMMA HandleBtStackDataStep ==
  ASSUME Inv, NEW e \in Earbuds, inbox[e] # <<>>, HandleBtStackData(e), UNCHANGED primaryVars
  PROVE  Inv'
  <1>1. inbox' \in [Earbuds -> Seq(Messages)]
    BY Taken DEF HandleBtStackData
  <1>2. CASE HasRequested(e) /\ bt_left[e] > 0
    <2> DEFINE c == performance_req_count[e]
               p == p1_left[e]
               r == seen[e]
    <2>1. p \in 0 .. Others + 1 /\ c \in Nat /\ r \in Seen
      BY Typed DEF Inv
    <2>2. /\ secondary_state' = [secondary_state EXCEPT ![e] = "bt_data"]
          /\ bt_left' = [bt_left EXCEPT ![e] = @ - 1]
          /\ waiting' = [waiting EXCEPT ![e] = TRUE]
          /\ UNCHANGED <<is_primary, p1_left, performance_req_count, seen>>
      BY <1>2 DEF HandleBtStackData, ApplyBtStackData
    <2>3. /\ p1_left' = [p1_left EXCEPT ![e] = p]
          /\ performance_req_count' = [performance_req_count EXCEPT ![e] = c]
          /\ seen' = [seen EXCEPT ![e] = r]
          /\ is_primary' \in [Earbuds -> BOOLEAN] /\ waiting' \in [Earbuds -> BOOLEAN]
      BY <2>2 DEF Inv, TypeOK
    <2>4. bt_left' \in [Earbuds -> 0 .. Others]
      <3>1. bt_left \in [Earbuds -> 0 .. Others] /\ bt_left[e] \in 0 .. Others /\ Others \in Nat
        BY HandoverAssumption DEF Inv, TypeOK
      <3>2. \A k \in 0 .. Others : k > 0 => k - 1 \in 0 .. Others
        BY <3>1
      <3> QED
        BY <1>2, <2>2, <3>1, <3>2
    <2>5. c = AsPrimary(primary_state[e]) + AsSecondary("bt_data") + r.takeovers
      <3>1. AsSecondary(secondary_state[e]) = AsSecondary("bt_data")
        BY <1>2 DEF HasRequested, AsSecondary
      <3> QED
        BY <3>1 DEF Inv
    <2>6. /\ secondary_state' = [secondary_state EXCEPT ![e] = "bt_data"]
          /\ "bt_data" \in {"idle", "setup", "p1_data", "unmarshalled", "bt_data"}
          /\ "bt_data" \notin {"setup", "p1_data"}
      BY <2>2
    <2> HIDE DEF p, c, r
    <2> QED
      BY <1>1, <2>1, <2>3, <2>4, <2>5, <2>6, SecondaryStep
  <1>3. CASE HasRequested(e) /\ ~(bt_left[e] > 0)
    <2> DEFINE c == performance_req_count[e]
               p == p1_left[e]
               r == [seen[e] EXCEPT !.takeovers = @ + 1]
    <2>1. p \in 0 .. Others + 1 /\ c \in Nat /\ seen[e] \in Seen /\ seen[e].takeovers \in Nat
      BY Typed DEF Inv
    <2>2. /\ secondary_state' = [secondary_state EXCEPT ![e] = "idle"]
          /\ performance_req_count' = [performance_req_count EXCEPT ![e] = c]
          /\ is_primary' = [is_primary EXCEPT ![e] = TRUE]
          /\ waiting' = [waiting EXCEPT ![e] = FALSE]
          /\ seen' = [seen EXCEPT ![e].takeovers = @ + 1]
          /\ UNCHANGED <<p1_left, bt_left>>
      BY <1>3, CleanupCount DEF HandleBtStackData, ApplyBtStackData
    <2>3. /\ p1_left' = [p1_left EXCEPT ![e] = p]
          /\ seen' = [seen EXCEPT ![e] = r]
          /\ is_primary' \in [Earbuds -> BOOLEAN] /\ waiting' \in [Earbuds -> BOOLEAN]
          /\ bt_left' \in [Earbuds -> 0 .. Others]
      BY <2>2 DEF Inv, TypeOK
    <2>4. r \in Seen /\ r.takeovers = seen[e].takeovers + 1
      BY <2>1 DEF Seen
    <2>5. c = AsPrimary(primary_state[e]) + AsSecondary("idle") + r.takeovers
      <3>1. /\ AsSecondary(secondary_state[e]) = 1 /\ AsSecondary("idle") = 0
            /\ AsPrimary(primary_state[e]) \in Nat
        BY <1>3 DEF HasRequested, AsSecondary, AsPrimary
      <3>2. c = AsPrimary(primary_state[e]) + 1 + seen[e].takeovers
        BY <3>1 DEF Inv
      <3> QED
        BY <2>1, <2>4, <3>1, <3>2
    <2>6. /\ secondary_state' = [secondary_state EXCEPT ![e] = "idle"]
          /\ performance_req_count' = [performance_req_count EXCEPT ![e] = c]
          /\ "idle" \in {"idle", "setup", "p1_data", "unmarshalled", "bt_data"}
          /\ "idle" \notin {"setup", "p1_data"}
      BY <2>2
    <2> HIDE DEF p, c, r
    <2> QED
      BY <1>1, <2>1, <2>3, <2>4, <2>5, <2>6, SecondaryStep
  <1>4. CASE ~HasRequested(e)
    BY <1>1, <1>4, DropDataStep DEF HandleBtStackData
  <1> QED
    BY <1>2, <1>3, <1>4

LEMMA HandleMessageStep ==
  ASSUME Inv, NEW e \in Earbuds, HandleMessage(e)
  PROVE  Inv'
  BY HandleStartReqStep, HandleCancelIndStep, HandleAppsP1DataStep, HandleBtStackDataStep,
     HandleLateCfmStep DEF HandleMessage

-----------------------------------------------------------------------------
(* The invariant is inductive, and every step undoes what it has to.       *)
LEMMA InvNext == Inv /\ [Next]_vars => Inv'
  <1> SUFFICES ASSUME Inv, [Next]_vars PROVE Inv'
    OBVIOUS
  <1>1. ASSUME NEW e \in Earbuds, PrimarySetup(e) PROVE Inv'
    BY <1>1, PrimarySetupStep
  <1>2. ASSUME NEW e \in Earbuds, HandoverAsPrimary(e) PROVE Inv'
    <2>1. \/ MayProceed(e) \/ SendStartReq(e) \/ WaitForStartCfm(e) \/ WaitForUnmarshalP1Cfm(e)
          \/ ProtocolTimeout(e) \/ SendP1MarshalData(e)
          \/ PerformanceRequest(e) \/ WorkOnLinks(e)
          \/ SendBtStackMarshalData(e) \/ ClearPendingPeerData(e) \/ CommitSecondaryRole(e)
          \/ PerformanceRelinquish(e) \/ PrimaryCleanup(e)
      BY <1>2 DEF HandoverAsPrimary
    <2> QED
      BY <2>1, MayProceedStep, SendStartReqStep, WaitForStartCfmStep, WaitForUnmarshalP1CfmStep,
         ProtocolTimeoutStep, SendP1MarshalDataStep, PerformanceRequestStep, WorkOnLinksStep,
         SendBtStackMarshalDataStep, ClearPendingPeerDataStep, CommitSecondaryRoleStep,
         PerformanceRelinquishStep, PrimaryCleanupStep
  <1>3. ASSUME NEW e \in Earbuds, HandleMessage(e) PROVE Inv'
    BY <1>3, HandleMessageStep
  <1>4. ASSUME NEW e \in Earbuds, MessageTimeout(e) PROVE Inv'
    BY <1>4, MessageTimeoutStep
  <1>5. CASE UNCHANGED vars
    BY <1>5 DEF Inv, TypeOK, vars, primaryVars, secondaryVars
  <1> QED
    BY <1>1, <1>2, <1>3, <1>4, <1>5 DEF Next

(* Every reachable state of both earbuds has the declared types: the       *)
(* counters of the data to come stay in range, though they are decremented *)
(* with no check in the code.                                              *)
THEOREM HandoverTypeCorrect == Spec => []TypeOK
  <1>1. Inv => TypeOK
    BY DEF Inv
  <1> QED
    BY InvInit, InvNext, <1>1, PTL DEF Spec

(* The performance requests of an earbud add up, whichever state fails and *)
(* whenever a message comes or does not: none is given back twice, and all *)
(* that is kept is one for each time the earbud took the role over.        *)
THEOREM RequestsAddUp == Spec => []RequestsAccounted
  <1>1. Inv => RequestsAccounted
    <2> SUFFICES ASSUME Inv, NEW e \in Earbuds
                 PROVE  LET asPrimary == primary_state[e] \in
                                (Index("performance_request") + 1) .. Index("performance_relinquish")
                            Holding(c) == IF c THEN 1 ELSE 0
                        IN  performance_req_count[e] =
                               Holding(asPrimary) + Holding(HasRequested(e)) + seen[e].takeovers
      BY DEF RequestsAccounted
    <2>1. (Index("performance_request") + 1) .. Index("performance_relinquish") = 10 .. 25
      BY Positions
    <2> QED
      BY <2>1 DEF Inv, AsPrimary, AsSecondary, HasRequested
  <1> QED
    BY InvInit, InvNext, <1>1, PTL DEF Spec

-----------------------------------------------------------------------------
(* Who is primary, and whose answers a primary goes on with.  The states   *)
(* are meant by their positions: 5 waits for START_CFM, 6 sends the P1     *)
(* data, 7 waits for its confirmation, 14 and 22 send the stack data, 23   *)
(* waits for its acknowledgement and 24 commits.                           *)

IsData(m) == m.type \in {"P1_DATA", "BT_DATA"}
Confirms(m, id) == m.type = "START_CFM" /\ m.accepted /\ m.session = id

(* The peer has accepted the session e is in, as e knows or will see. *)
Accepted(e) ==
    \/ primary_state[e] > 5
    \/ /\ primary_state[e] = 5
       /\ \E i \in 1 .. Len(inbox[e]) : Confirms(inbox[e][i], session_id[e])

(* Numbers of sessions from e to p only grow, and an acceptance speaks of  *)
(* a session p has accepted.  After the request for it, e says nothing     *)
(* until it is answered.                                                   *)
Sessions(e, p) ==
    /\ session_id[e] <= MaxSessions
    /\ primary_state[e] \in 1 .. 4 => session_id[e] < MaxSessions
    /\ seen[p].accepted <= session_id[e]
    /\ primary_state[e] > 5 => seen[p].accepted = session_id[e]
    /\ \A i \in 1 .. Len(inbox[p]) : inbox[p][i].type = "START_REQ" =>
          /\ seen[p].accepted < inbox[p][i].session
          /\ inbox[p][i].session <= session_id[e]
          /\ primary_state[e] = 5 /\ inbox[p][i].session = session_id[e] => i = Len(inbox[p])
          /\ is_primary[e]
    /\ \A i, j \in 1 .. Len(inbox[p]) :
          i < j /\ inbox[p][i].type = "START_REQ" /\ inbox[p][j].type = "START_REQ" =>
              inbox[p][i].session < inbox[p][j].session
    /\ \A i \in 1 .. Len(inbox[e]) : inbox[e][i].type = "START_CFM" /\ inbox[e][i].accepted =>
          inbox[e][i].session <= seen[p].accepted

Roles(e, p) ==
    /\ is_primary[e] => secondary_state[e] = "idle"
    /\ primary_state[e] \in 1 .. 24 => is_primary[e]
    /\ primary_state[e] \in 25 .. 26 => ~is_primary[e]
    /\ waiting[e] => primary_state[e] = 0
    /\ Accepted(e) => ~Accepted(p)

(* Data from e is for a secondary, from an earbud that is none itself, and *)
(* nothing is before it; the last of it comes from an earbud that commits, *)
(* has committed, or failed to get it acknowledged.                        *)
DataInTurn(e, p) ==
    \A i \in 1 .. Len(inbox[p]) : IsData(inbox[p][i]) =>
        /\ ~is_primary[p]
        /\ secondary_state[e] = "idle"
        /\ \A j \in 1 .. i : IsData(inbox[p][j])
        /\ inbox[p][i].type = "BT_DATA" /\ inbox[p][i].mirrored =>
              primary_state[e] > 22 \/ seen[e].unacked \/ ~is_primary[e]

(* A secondary that counts down the data to come gets no more than that,   *)
(* and the mirrored handset's when it expects it.                          *)
DataFits(p) ==
    /\ secondary_state[p] \in {"setup", "p1_data"} =>
          /\ bt_left[p] = Others
          /\ \A i \in 1 .. Len(inbox[p]) :
                /\ inbox[p][i].type # "BT_DATA"
                /\ inbox[p][i].type = "P1_DATA" => i <= p1_left[p]
    /\ HasRequested(p) =>
          \A i \in 1 .. Len(inbox[p]) :
              /\ inbox[p][i].type # "P1_DATA"
              /\ inbox[p][i].type = "BT_DATA" =>
                    /\ i <= bt_left[p] + 1
                    /\ inbox[p][i].mirrored <=> i = bt_left[p] + 1

GaveUp(p) == seen[p].gave_up /\ secondary_state[p] = "idle"
Ready(p) == GaveUp(p) \/ (HasRequested(p) /\ waiting[p])

(* The data for the handsets beside the mirrored one still to be sent. *)
ToSend(k) == IF k <= 14 THEN Others ELSE 0

(* Before P1 data is sent, until it is confirmed, and from then on. *)
Opened(e, p) ==
    primary_state[e] <= 6 =>
        /\ Len(inbox[p]) = 0
        /\ secondary_state[p] \in {"idle", "setup"}
        /\ secondary_state[p] = "setup" => p1_left[p] = Others + 1
        /\ \A i \in 1 .. Len(inbox[e]) : inbox[e][i].type = "UNMARSHAL_P1_CFM" =>
              /\ primary_state[e] = 5
              /\ \A j \in 1 .. i : ~Confirms(inbox[e][j], session_id[e])

Marshalled(e, p) ==
    primary_state[e] = 7 =>
        /\ \A i \in 1 .. Len(inbox[p]) : inbox[p][i].type # "BT_DATA"
        /\ HasRequested(p) => bt_left[p] = Others
        /\ \A i \in 1 .. Len(inbox[e]) : inbox[e][i].type = "UNMARSHAL_P1_CFM" =>
              Ready(p) /\ seen[p].unmarshalled = session_id[e]

Confirmed(e, p) ==
    primary_state[e] > 7 =>
        /\ Ready(p)
        /\ HasRequested(p) => Len(inbox[p]) + ToSend(primary_state[e]) = bt_left[p]

(* An accepted session, as long as its last data is not sent. *)
InSession(e, p) ==
    Accepted(e) /\ primary_state[e] <= 22 =>
        /\ ~is_primary[p]
        /\ \A i \in 1 .. Len(inbox[p]) : IsData(inbox[p][i])
        /\ Opened(e, p) /\ Marshalled(e, p) /\ Confirmed(e, p)

Unmarshalled(e, p) == primary_state[e] > 7 => seen[p].unmarshalled = session_id[e]

(* The role is p's, or will be, unless p has given up. *)
TakenOver(p) ==
    \/ is_primary[p]
    \/ seen[p].gave_up
    \/ /\ HasRequested(p) /\ waiting[p] /\ bt_left[p] + 1 <= Len(inbox[p])
       /\ inbox[p][bt_left[p] + 1].type = "BT_DATA"

Committing(e, p) == primary_state[e] \in 23 .. 24 => TakenOver(p)

From(e, p) ==
    /\ Sessions(e, p) /\ Roles(e, p) /\ DataInTurn(e, p) /\ DataFits(p)
    /\ InSession(e, p) /\ Unmarshalled(e, p) /\ Committing(e, p)

SomePrimary == (\A e \in Earbuds : ~is_primary[e]) => \E p \in Earbuds : TakenOver(p)

TwoPrimaries ==
    (\A e \in Earbuds : is_primary[e]) =>
        \E e \in Earbuds : seen[e].unacked \/ primary_state[e] \in 23 .. 24

RoleInv ==
    /\ TypeOK /\ SomePrimary /\ TwoPrimaries
    /\ \A e, p \in Earbuds : e # p => From(e, p)

LEMMA RoleInit == Init => RoleInv
  <1> SUFFICES ASSUME Init PROVE RoleInv
    OBVIOUS
  <1>1. TypeOK
    BY InvInit DEF Inv
  <1>2. \A e \in Earbuds : /\ primary_state[e] = 0 /\ session_id[e] = 0 /\ inbox[e] = <<>>
                           /\ secondary_state[e] = "idle" /\ seen[e].accepted = 0 /\ ~waiting[e]
                           /\ is_primary[e] = (e = FirstPrimary)
    BY DEF Init
  <1>3. ASSUME NEW e \in Earbuds, NEW p \in Earbuds, e # p PROVE From(e, p)
    <2>1. Len(inbox[e]) = 0 /\ Len(inbox[p]) = 0 /\ ~Accepted(e) /\ ~Accepted(p)
      BY <1>2 DEF Accepted
    <2>2. 0 <= MaxSessions
      BY HandoverAssumption
    <2>3. \A i \in 1 .. Len(inbox[e]) : FALSE
      BY <2>1
    <2>4. \A i \in 1 .. Len(inbox[p]) : FALSE
      BY <2>1
    <2>5. Sessions(e, p)
      BY <1>2, <2>2, <2>3, <2>4 DEF Sessions
    <2>6. Roles(e, p) /\ InSession(e, p) /\ Unmarshalled(e, p) /\ Committing(e, p)
      <3>1. Roles(e, p)
        <4>1. primary_state[e] = 0 /\ secondary_state[e] = "idle" /\ ~waiting[e]
          BY <1>2
        <4>2. primary_state[e] \notin 1 .. 24 /\ primary_state[e] \notin 25 .. 26
          BY ONLY <4>1
        <4> QED
          BY <2>1, <4>1, <4>2 DEF Roles
      <3>2. InSession(e, p)
        BY <2>1 DEF InSession
      <3>3. Unmarshalled(e, p) /\ Committing(e, p)
        BY <1>2 DEF Unmarshalled, Committing
      <3> QED
        BY <3>1, <3>2, <3>3
    <2>7. DataInTurn(e, p) /\ DataFits(p)
      BY <1>2, <2>4 DEF DataInTurn, DataFits, HasRequested
    <2> QED
      BY <2>5, <2>6, <2>7 DEF From
  <1>4. SomePrimary /\ TwoPrimaries
    BY <1>2, HandoverAssumption DEF SomePrimary, TwoPrimaries
  <1> QED
    BY <1>1, <1>3, <1>4 DEF RoleInv

(* How a step changes the channels: a takes r messages and sends others.   *)
Passes(a, o, r, sent) ==
    /\ r \in Nat /\ Len(inbox[a]) \in Nat /\ Len(inbox[o]) \in Nat /\ Len(sent) \in Nat
    /\ Len(inbox'[a]) + r = Len(inbox[a]) /\ Len(inbox'[a]) \in Nat
    /\ \A i \in 1 .. Len(inbox'[a]) :
          i + r \in 1 .. Len(inbox[a]) /\ inbox'[a][i] = inbox[a][i + r]
    /\ Len(inbox'[o]) = Len(inbox[o]) + Len(sent)
    /\ \A i \in 1 .. Len(inbox[o]) : i \in 1 .. Len(inbox'[o]) /\ inbox'[o][i] = inbox[o][i]
    /\ \A i \in 1 .. Len(inbox'[o]) :
          \/ i \in 1 .. Len(inbox[o])
          \/ i - Len(inbox[o]) \in 1 .. Len(sent) /\ inbox'[o][i] = sent[i - Len(inbox[o])]

LEMMA ThePeer ==
  ASSUME NEW a \in Earbuds, NEW o \in Earbuds, o # a
  PROVE  /\ Peer(a) = o /\ Earbuds = {a, o}
  BY HandoverAssumption DEF Peer

LEMMA ExchangePasses ==
  ASSUME TypeOK, NEW a \in Earbuds, NEW o \in Earbuds, o # a, NEW sent \in Seq(Messages),
         NEW r \in 0 .. Len(inbox[a]),
         Exchange(a, SubSeq(inbox[a], r + 1, Len(inbox[a])), sent)
  PROVE  Passes(a, o, r, sent)
  <1> DEFINE s == inbox[a]
             rest == SubSeq(s, r + 1, Len(s))
             both == inbox[o] \o sent
  <1>1. s \in Seq(Messages) /\ inbox[o] \in Seq(Messages) /\ inbox \in [Earbuds -> Seq(Messages)]
    BY DEF TypeOK
  <1>2. Len(s) \in Nat /\ Len(inbox[o]) \in Nat /\ Len(sent) \in Nat /\ r \in Nat /\ r <= Len(s)
    BY <1>1, LenProperties
  <1>3. Len(rest) = Len(s) - r /\ \A i \in 1 .. Len(s) - r : rest[i] = s[i + r]
    BY <1>1, <1>2
  <1>4. /\ Len(both) = Len(inbox[o]) + Len(sent)
        /\ \A i \in 1 .. Len(inbox[o]) + Len(sent) :
              both[i] = IF i <= Len(inbox[o]) THEN inbox[o][i] ELSE sent[i - Len(inbox[o])]
    BY <1>1, ConcatProperties
  <1>5. inbox'[a] = rest /\ inbox'[o] = both
    <2>1. inbox' = [inbox EXCEPT ![a] = rest, ![o] = @ \o sent]
      BY ThePeer DEF Exchange
    <2> HIDE DEF rest
    <2> QED
      BY <1>1, <2>1
  <1> HIDE DEF rest, both
  <1>6. \A i \in 1 .. Len(inbox'[a]) :
           i + r \in 1 .. Len(inbox[a]) /\ inbox'[a][i] = inbox[a][i + r]
    BY <1>2, <1>3, <1>5
  <1>7. \A i \in 1 .. Len(inbox[o]) : i \in 1 .. Len(inbox'[o]) /\ inbox'[o][i] = inbox[o][i]
    BY <1>2, <1>4, <1>5
  <1>8. ASSUME NEW i \in 1 .. Len(inbox'[o])
        PROVE  \/ i \in 1 .. Len(inbox[o])
               \/ i - Len(inbox[o]) \in 1 .. Len(sent) /\ inbox'[o][i] = sent[i - Len(inbox[o])]
    BY <1>2, <1>4, <1>5
  <1>9. /\ Len(inbox'[a]) + r = Len(inbox[a]) /\ Len(inbox'[a]) \in Nat
        /\ Len(inbox'[o]) = Len(inbox[o]) + Len(sent)
    BY <1>2, <1>3, <1>4, <1>5
  <1> QED
    BY <1>2, <1>6, <1>7, <1>8, <1>9 DEF Passes

LEMMA TakesNone ==
  ASSUME TypeOK, NEW a \in Earbuds, NEW o \in Earbuds, o # a, NEW sent \in Seq(Messages),
         Exchange(a, inbox[a], sent)
  PROVE  Passes(a, o, 0, sent)
  <1>1. inbox[a] = SubSeq(inbox[a], 0 + 1, Len(inbox[a])) /\ 0 \in 0 .. Len(inbox[a])
    BY DEF TypeOK
  <1> QED
    BY <1>1, ExchangePasses

LEMMA TakesOne ==
  ASSUME TypeOK, NEW a \in Earbuds, NEW o \in Earbuds, o # a, NEW sent \in Seq(Messages),
         inbox[a] # <<>>, Exchange(a, Tail(inbox[a]), sent)
  PROVE  /\ Passes(a, o, 1, sent)
         /\ 1 \in 1 .. Len(inbox[a]) /\ Head(inbox[a]) = inbox[a][1]
  <1>1. Tail(inbox[a]) = SubSeq(inbox[a], 1 + 1, Len(inbox[a])) /\ 1 \in 0 .. Len(inbox[a])
        /\ 1 \in 1 .. Len(inbox[a]) /\ Head(inbox[a]) = inbox[a][1]
    BY DEF TypeOK
  <1> QED
    BY <1>1, ExchangePasses

LEMMA PassesNothing ==
  ASSUME TypeOK, NEW a \in Earbuds, NEW o \in Earbuds, o # a, inbox' = inbox
  PROVE  Passes(a, o, 0, <<>>)
  <1>1. Len(inbox[a]) \in Nat /\ Len(inbox[o]) \in Nat
    BY LenProperties DEF TypeOK
  <1>2. Len(<<>>) = 0
    OBVIOUS
  <1> QED
    BY <1>1, <1>2 DEF Passes

(* What a step of a's own handover leaves alone. *)
OnlyPrimary(a, o) ==
    /\ UNCHANGED secondaryVars
    /\ primary_state'[o] = primary_state[o] /\ session_id'[o] = session_id[o]
    /\ is_primary'[o] = is_primary[o] /\ seen'[o] = seen[o]
    /\ seen'[a].accepted = seen[a].accepted /\ seen'[a].unmarshalled = seen[a].unmarshalled
    /\ seen'[a].gave_up = seen[a].gave_up

LEMMA Numbers ==
  ASSUME TypeOK, NEW e \in Earbuds
  PROVE  /\ primary_state[e] \in Nat /\ primary_state[e] <= 26
         /\ session_id[e] \in Nat /\ bt_left[e] \in Nat /\ bt_left[e] <= Others
         /\ p1_left[e] \in Nat
         /\ seen[e].accepted \in Nat /\ seen[e].unmarshalled \in Nat
         /\ seen[e].gave_up \in BOOLEAN /\ seen[e].unacked \in BOOLEAN
         /\ Len(inbox[e]) \in Nat /\ Others \in Nat /\ MaxSessions \in Nat
         /\ is_primary[e] \in BOOLEAN /\ waiting[e] \in BOOLEAN
         /\ secondary_state[e] \in {"idle", "setup", "p1_data", "unmarshalled", "bt_data"}
         /\ \A i \in 1 .. Len(inbox[e]) : inbox[e][i] \in Messages
  <1>1. primary_state[e] \in 0 .. 26 /\ seen[e] \in Seen /\ inbox[e] \in Seq(Messages)
    BY StateTable DEF TypeOK
  <1>2. session_id[e] \in 0 .. SessionIds - 1 /\ bt_left[e] \in 0 .. Others /\ p1_left[e] \in 0 .. Others + 1
    BY DEF TypeOK
  <1>3. SessionIds \in Nat /\ Others \in Nat /\ MaxSessions \in Nat
    BY HandoverAssumption
  <1>4. Len(inbox[e]) \in Nat /\ \A i \in 1 .. Len(inbox[e]) : inbox[e][i] \in Messages
    BY <1>1, LenProperties, ElementOfSeq
  <1>5. /\ seen[e].accepted \in Nat /\ seen[e].unmarshalled \in Nat
        /\ seen[e].gave_up \in BOOLEAN /\ seen[e].unacked \in BOOLEAN
    BY <1>1 DEF Seen
  <1>6. /\ is_primary[e] \in BOOLEAN /\ waiting[e] \in BOOLEAN
        /\ secondary_state[e] \in {"idle", "setup", "p1_data", "unmarshalled", "bt_data"}
    BY DEF TypeOK
  <1>7. primary_state[e] \in Nat /\ primary_state[e] <= 26
    <2>1. primary_state[e] \in 0 .. 26
      BY <1>1
    <2> QED
      BY ONLY <2>1
  <1>8. session_id[e] \in Nat /\ bt_left[e] \in Nat /\ bt_left[e] <= Others /\ p1_left[e] \in Nat
    BY ONLY <1>2, <1>3
  <1> QED
    BY ONLY <1>3, <1>4, <1>5, <1>6, <1>7, <1>8

(* The channel to an earbud that is handing over, or is about to. *)
LEMMA ToPrimary ==
  ASSUME RoleInv, NEW a \in Earbuds, NEW o \in Earbuds, o # a, OnlyPrimary(a, o),
         NEW r, NEW sent, Passes(a, o, r, sent),
         \A i \in 1 .. Len(sent) : sent[i].type # "START_CFM",
         primary_state[a] # 0 \/ is_primary[a],
         r = 0 \/ is_primary[a],
         \/ is_primary'[a] <=> is_primary[a]
         \/ ~is_primary'[a] /\ Accepted(a),
         Accepted(a)' => Accepted(a)
  PROVE  From(o, a)'
  <1>1. TypeOK /\ From(o, a) /\ From(a, o)
    BY DEF RoleInv
  <1>2. Sessions(o, a)'
    <2>1. Sessions(o, a)
      BY <1>1 DEF From
    <2>2. \A i \in 1 .. Len(inbox'[o]) : inbox'[o][i].type = "START_CFM" =>
             i \in 1 .. Len(inbox[o]) /\ inbox'[o][i] = inbox[o][i]
      BY DEF Passes
    <2>3. /\ \A i \in 1 .. Len(inbox'[a]) :
                i + r \in 1 .. Len(inbox[a]) /\ inbox'[a][i] = inbox[a][i + r]
          /\ Len(inbox'[a]) + r = Len(inbox[a]) /\ r \in Nat /\ Len(inbox'[a]) \in Nat
      BY DEF Passes
    <2>4. /\ primary_state'[o] = primary_state[o] /\ session_id'[o] = session_id[o]
          /\ is_primary'[o] = is_primary[o] /\ seen'[a].accepted = seen[a].accepted
      BY DEF OnlyPrimary
    <2>5. \A i \in 1 .. Len(inbox'[a]) : inbox'[a][i].type = "START_REQ" =>
             /\ seen[a].accepted < inbox'[a][i].session
             /\ inbox'[a][i].session <= session_id[o]
             /\ primary_state[o] = 5 /\ inbox'[a][i].session = session_id[o] => i = Len(inbox'[a])
             /\ is_primary[o]
      <3> SUFFICES ASSUME NEW i \in 1 .. Len(inbox'[a]), inbox'[a][i].type = "START_REQ"
                   PROVE  /\ seen[a].accepted < inbox'[a][i].session
                          /\ inbox'[a][i].session <= session_id[o]
                          /\ primary_state[o] = 5 /\ inbox'[a][i].session = session_id[o] =>
                                 i = Len(inbox'[a])
                          /\ is_primary[o]
        OBVIOUS
      <3>1. i + r \in 1 .. Len(inbox[a]) /\ inbox'[a][i] = inbox[a][i + r]
        BY <2>3
      <3>2. i + r = Len(inbox[a]) => i = Len(inbox'[a])
        BY <2>3
      <3>3. /\ seen[a].accepted < inbox[a][i + r].session
            /\ inbox[a][i + r].session <= session_id[o]
            /\ primary_state[o] = 5 /\ inbox[a][i + r].session = session_id[o] =>
                   i + r = Len(inbox[a])
            /\ is_primary[o]
        BY <2>1, <3>1 DEF Sessions
      <3> QED
        BY ONLY <3>1, <3>2, <3>3
    <2>6. \A i, j \in 1 .. Len(inbox'[a]) :
             i < j /\ inbox'[a][i].type = "START_REQ" /\ inbox'[a][j].type = "START_REQ" =>
                 inbox'[a][i].session < inbox'[a][j].session
      <3> SUFFICES ASSUME NEW i \in 1 .. Len(inbox'[a]), NEW j \in 1 .. Len(inbox'[a]), i < j,
                          inbox'[a][i].type = "START_REQ", inbox'[a][j].type = "START_REQ"
                   PROVE  inbox'[a][i].session < inbox'[a][j].session
        OBVIOUS
      <3>1. /\ i + r \in 1 .. Len(inbox[a]) /\ inbox'[a][i] = inbox[a][i + r]
            /\ j + r \in 1 .. Len(inbox[a]) /\ inbox'[a][j] = inbox[a][j + r]
        BY ONLY <2>3, i \in 1 .. Len(inbox'[a]), j \in 1 .. Len(inbox'[a])
      <3>3. i + r < j + r
        BY ONLY <2>3, i \in 1 .. Len(inbox'[a]), j \in 1 .. Len(inbox'[a]), i < j
      <3>2. \A x, y \in 1 .. Len(inbox[a]) :
               x < y /\ inbox[a][x].type = "START_REQ" /\ inbox[a][y].type = "START_REQ" =>
                   inbox[a][x].session < inbox[a][y].session
        BY <2>1 DEF Sessions
      <3> QED
        BY ONLY <3>1, <3>2, <3>3, inbox'[a][i].type = "START_REQ", inbox'[a][j].type = "START_REQ"
    <2>7. \A i \in 1 .. Len(inbox'[o]) : inbox'[o][i].type = "START_CFM" /\ inbox'[o][i].accepted =>
             inbox'[o][i].session <= seen[a].accepted
      BY <2>1, <2>2 DEF Sessions
    <2> QED
      BY <2>1, <2>4, <2>5, <2>6, <2>7 DEF Sessions
  <1>3. Accepted(o)' <=> Accepted(o)
    <2>1. \A i \in 1 .. Len(inbox'[o]) : inbox'[o][i].type = "START_CFM" =>
             i \in 1 .. Len(inbox[o]) /\ inbox'[o][i] = inbox[o][i]
      BY DEF Passes
    <2>2. \A i \in 1 .. Len(inbox[o]) : i \in 1 .. Len(inbox'[o]) /\ inbox'[o][i] = inbox[o][i]
      BY DEF Passes
    <2>3. primary_state'[o] = primary_state[o] /\ session_id'[o] = session_id[o]
      BY DEF OnlyPrimary
    <2> QED
      BY <2>1, <2>2, <2>3 DEF Accepted, Confirms
  <1>4. Roles(o, a)'
    BY <1>1, <1>3 DEF From, Roles, OnlyPrimary, secondaryVars
  <1>5. is_primary[a] => \A i \in 1 .. Len(inbox'[a]) : ~IsData(inbox'[a][i])
    BY <1>1 DEF From, DataInTurn, Passes
  <1>6. ~is_primary[a] => /\ Len(inbox'[a]) = Len(inbox[a])
                          /\ \A i \in 1 .. Len(inbox[a]) : inbox'[a][i] = inbox[a][i]
    <2>1. SUFFICES ASSUME ~is_primary[a]
                   PROVE  /\ Len(inbox'[a]) = Len(inbox[a])
                          /\ \A i \in 1 .. Len(inbox[a]) : inbox'[a][i] = inbox[a][i]
      OBVIOUS
    <2>2. /\ r = 0 /\ Len(inbox'[a]) \in Nat /\ Len(inbox[a]) = Len(inbox'[a]) + 0
          /\ \A i \in 1 .. Len(inbox'[a]) : inbox'[a][i] = inbox[a][i + 0]
      BY <2>1 DEF Passes
    <2>3. Len(inbox'[a]) = Len(inbox[a])
      BY ONLY <2>2
    <2>4. \A i \in 1 .. Len(inbox'[a]) : i + 0 = i
      BY ONLY <2>2
    <2> QED
      BY ONLY <2>2, <2>3, <2>4
  <1>7. DataInTurn(o, a)'
    <2>1. CASE is_primary[a]
      BY <1>5, <2>1 DEF DataInTurn
    <2>2. CASE ~is_primary[a]
      <3>1. ~is_primary'[a]
        BY <2>2
      <3>2. /\ secondary_state'[o] = secondary_state[o] /\ primary_state'[o] = primary_state[o]
            /\ seen'[o] = seen[o] /\ is_primary'[o] = is_primary[o]
        BY DEF OnlyPrimary, secondaryVars
      <3>3. DataInTurn(o, a)
        BY <1>1 DEF From
      <3> QED
        BY <1>6, <2>2, <3>1, <3>2, <3>3 DEF DataInTurn
    <2> QED
      BY <2>1, <2>2
  <1>8. DataFits(a)'
    <2>1. CASE is_primary[a]
      <3>1. secondary_state'[a] = "idle"
        BY <1>1, <2>1 DEF From, Roles, OnlyPrimary, secondaryVars
      <3> QED
        BY <3>1 DEF DataFits, HasRequested
    <2>2. CASE ~is_primary[a]
      <3>1. DataFits(a)
        BY <1>1 DEF From
      <3> QED
        BY <1>6, <2>2, <3>1 DEF DataFits, HasRequested, OnlyPrimary, secondaryVars
    <2> QED
      BY <2>1, <2>2
  <1>9. ~(Accepted(o) /\ primary_state[o] <= 22)
    <2>1. primary_state[a] \in 0 .. 26
      BY <1>1, Typed
    <2>2. CASE is_primary[a]
      BY <1>1, <2>2 DEF From, InSession
    <2>3. CASE ~is_primary[a]
      <3>1. Accepted(a)
        BY <1>1, <2>1, <2>3 DEF From, Roles, Accepted
      <3> QED
        BY <1>1, <3>1 DEF From, Roles
    <2> QED
      BY <2>2, <2>3
  <1>10. InSession(o, a)'
    BY <1>3, <1>9 DEF InSession, OnlyPrimary
  <1>11. Unmarshalled(o, a)'
    BY <1>1 DEF From, Unmarshalled, OnlyPrimary
  <1>12. Committing(o, a)'
    <2>1. SUFFICES ASSUME primary_state[o] \in 23 .. 24 PROVE TakenOver(a)'
      BY DEF Committing, OnlyPrimary
    <2>2. TakenOver(a) /\ Accepted(o)
      BY <1>1, <2>1 DEF From, Committing, Accepted
    <2>3. CASE is_primary[a]
      <3>1. is_primary'[a] <=> is_primary[a]
        BY <1>1, <2>2 DEF From, Roles
      <3> QED
        BY <2>3, <3>1 DEF TakenOver
    <2>4. CASE seen[a].gave_up
      BY <2>4 DEF TakenOver, OnlyPrimary
    <2>5. CASE ~is_primary[a] /\ HasRequested(a) /\ waiting[a] /\ bt_left[a] + 1 <= Len(inbox[a])
               /\ inbox[a][bt_left[a] + 1].type = "BT_DATA"
      <3>1. bt_left[a] + 1 \in 1 .. Len(inbox[a])
        BY <1>1, <2>5, Numbers
      <3> QED
        BY <1>6, <2>5, <3>1 DEF TakenOver, HasRequested, OnlyPrimary, secondaryVars
    <2> QED
      BY <2>2, <2>3, <2>4, <2>5 DEF TakenOver
  <1> QED
    BY <1>2, <1>4, <1>7, <1>8, <1>10, <1>11, <1>12 DEF From


(* What a step of a's message handler leaves alone. *)
OnlySecondary(a, o) ==
    /\ UNCHANGED primaryVars /\ primary_state[a] = 0
    /\ is_primary'[o] = is_primary[o] /\ seen'[o] = seen[o] /\ waiting'[o] = waiting[o]
    /\ secondary_state'[o] = secondary_state[o]
    /\ p1_left'[o] = p1_left[o] /\ bt_left'[o] = bt_left[o]
    /\ is_primary[a] => is_primary'[a]
    /\ is_primary'[a] => secondary_state'[a] = "idle"
    /\ seen'[a].unacked = seen[a].unacked

(* The channel from an earbud that answers its peer. *)
LEMMA FromSecondary ==
  ASSUME RoleInv, NEW a \in Earbuds, NEW o \in Earbuds, o # a, OnlySecondary(a, o),
         NEW r, NEW sent, Passes(a, o, r, sent),
         \A i \in 1 .. Len(sent) : sent[i].type \in {"START_CFM", "UNMARSHAL_P1_CFM"},
         \/ secondary_state'[a] = "idle" /\ is_primary'[a] = is_primary[a]
         \/ secondary_state[a] # "idle"
         \/ is_primary[o]
  PROVE  From(a, o)'
  <1>1. TypeOK /\ From(o, a) /\ From(a, o)
    BY DEF RoleInv
  <1>2. /\ \A i \in 1 .. Len(inbox'[o]) :
              inbox'[o][i].type \notin {"START_CFM", "UNMARSHAL_P1_CFM"} =>
                  i \in 1 .. Len(inbox[o]) /\ inbox'[o][i] = inbox[o][i]
        /\ \A i \in 1 .. Len(inbox[o]) : i \in 1 .. Len(inbox'[o]) /\ inbox'[o][i] = inbox[o][i]
    BY DEF Passes
  <1>3. /\ \A i \in 1 .. Len(inbox'[a]) :
              i + r \in 1 .. Len(inbox[a]) /\ inbox'[a][i] = inbox[a][i + r]
    BY DEF Passes
  <1>4. /\ primary_state'[a] = 0 /\ primary_state[a] = 0 /\ session_id'[a] = session_id[a]
        /\ is_primary'[o] = is_primary[o] /\ seen'[o] = seen[o]
        /\ is_primary[a] => is_primary'[a]
    BY DEF OnlySecondary, primaryVars
  <1>5. Sessions(a, o)'
    <2>1. Sessions(a, o)
      BY <1>1 DEF From
    <2>2. \A i \in 1 .. Len(inbox'[o]) : inbox'[o][i].type = "START_REQ" =>
             /\ seen[o].accepted < inbox'[o][i].session
             /\ inbox'[o][i].session <= session_id[a]
             /\ is_primary'[a]
      BY <1>2, <1>4, <2>1 DEF Sessions
    <2>3. \A i, j \in 1 .. Len(inbox'[o]) :
             i < j /\ inbox'[o][i].type = "START_REQ" /\ inbox'[o][j].type = "START_REQ" =>
                 inbox'[o][i].session < inbox'[o][j].session
      BY <1>2, <2>1 DEF Sessions
    <2>4. \A i \in 1 .. Len(inbox'[a]) : inbox'[a][i].type = "START_CFM" /\ inbox'[a][i].accepted =>
             inbox'[a][i].session <= seen[o].accepted
      BY <1>3, <2>1 DEF Sessions
    <2> QED
      BY <1>4, <2>1, <2>2, <2>3, <2>4 DEF Sessions
  <1>6. ~Accepted(a)'
    BY <1>4 DEF Accepted
  <1>7. Roles(a, o)'
    BY <1>4, <1>6 DEF Roles, OnlySecondary
  <1>8. DataInTurn(a, o)'
    <2>1. SUFFICES ASSUME NEW i \in 1 .. Len(inbox'[o]), IsData(inbox'[o][i])
                   PROVE  /\ ~is_primary[o]
                          /\ secondary_state'[a] = "idle"
                          /\ \A j \in 1 .. i : IsData(inbox'[o][j])
                          /\ inbox'[o][i].type = "BT_DATA" /\ inbox'[o][i].mirrored =>
                                seen'[a].unacked \/ ~is_primary'[a]
      BY <1>4 DEF DataInTurn
    <2>2. i \in 1 .. Len(inbox[o]) /\ inbox'[o][i] = inbox[o][i]
      BY <1>2, <2>1 DEF IsData
    <2>3. /\ ~is_primary[o] /\ secondary_state[a] = "idle"
          /\ \A j \in 1 .. i : IsData(inbox[o][j])
          /\ inbox[o][i].type = "BT_DATA" /\ inbox[o][i].mirrored =>
                seen[a].unacked \/ ~is_primary[a]
      BY <1>1, <1>4, <2>1, <2>2 DEF From, DataInTurn
    <2>4. secondary_state'[a] = "idle" /\ is_primary'[a] = is_primary[a]
      BY <2>3
    <2>5. \A j \in 1 .. i : j \in 1 .. Len(inbox[o])
      BY <1>1, <2>2, Numbers
    <2> QED
      BY <1>2, <2>2, <2>3, <2>4, <2>5 DEF OnlySecondary
  <1>9. DataFits(o)'
    <2>1. DataFits(o)
      BY <1>1 DEF From
    <2>2. /\ secondary_state'[o] = secondary_state[o]
          /\ p1_left'[o] = p1_left[o] /\ bt_left'[o] = bt_left[o]
      BY DEF OnlySecondary
    <2>3. HasRequested(o)' <=> HasRequested(o)
      BY <2>2 DEF HasRequested
    <2>4. \A i \in 1 .. Len(inbox'[o]) : inbox'[o][i].type \in {"P1_DATA", "BT_DATA"} =>
             i \in 1 .. Len(inbox[o]) /\ inbox'[o][i] = inbox[o][i]
      BY <1>2
    <2> QED
      BY <2>1, <2>2, <2>3, <2>4 DEF DataFits
  <1>10. InSession(a, o)' /\ Unmarshalled(a, o)' /\ Committing(a, o)'
    BY <1>4, <1>6 DEF InSession, Unmarshalled, Committing
  <1> QED
    BY <1>5, <1>7, <1>8, <1>9, <1>10 DEF From

(* How a's own handover moves on: where it goes, what it has taken from    *)
(* its inbox to go there, and what it tells its peer.                      *)
Progress(a) ==
    \/ primary_state[a] \in (1 .. 23) \cup {26} /\ primary_state'[a] = 0
    \/ /\ primary_state[a] = 0 /\ primary_state'[a] = 2
       /\ is_primary[a] /\ ~waiting[a] /\ session_id[a] < MaxSessions
    \/ primary_state[a] \in 1 .. 25 /\ primary_state'[a] = primary_state[a] + 1
    \/ primary_state[a] \in {5, 7} /\ primary_state'[a] = primary_state[a]

Takes(a, r) ==
    /\ r # 0 => primary_state[a] \in {0, 5, 7}
    /\ primary_state[a] = 5 /\ primary_state'[a] = 6 =>
           r = 1 /\ 1 \in 1 .. Len(inbox[a]) /\ Confirms(inbox[a][1], session_id[a])
    /\ primary_state[a] = 7 /\ primary_state'[a] = 8 =>
           r = 1 /\ 1 \in 1 .. Len(inbox[a]) /\ inbox[a][1].type = "UNMARSHAL_P1_CFM"

Sends(a, sent) ==
    \/ Len(sent) = 0 /\ ~(primary_state[a] \in {4, 6, 14, 22} /\ primary_state'[a] # 0)
    \/ /\ primary_state[a] = 4 /\ primary_state'[a] = 5 /\ Len(sent) = 1
       /\ sent[1].type = "START_REQ" /\ sent[1].session = session_id'[a]
    \/ /\ primary_state[a] = 6 /\ primary_state'[a] = 7 /\ Len(sent) = Others + 1
       /\ \A i \in 1 .. Len(sent) : sent[i].type = "P1_DATA"
    \/ /\ primary_state[a] = 14 /\ primary_state'[a] = 15 /\ Len(sent) = Others
       /\ \A i \in 1 .. Len(sent) : sent[i].type = "BT_DATA" /\ ~sent[i].mirrored
    \/ /\ primary_state[a] = 22 /\ primary_state'[a] = 23 /\ Len(sent) = 1
       /\ sent[1].type = "BT_DATA" /\ sent[1].mirrored
    \/ /\ primary_state'[a] = 0
       /\ \A i \in 1 .. Len(sent) :
             \/ sent[i].type = "CANCEL_IND"
             \/ /\ primary_state[a] = 6 /\ i <= Others + 1
                /\ \A j \in 1 .. i : sent[j].type = "P1_DATA"

Moves(a, o, r, sent) ==
    /\ OnlyPrimary(a, o) /\ Passes(a, o, r, sent)
    /\ Progress(a) /\ Takes(a, r) /\ Sends(a, sent)
    /\ session_id'[a] = IF primary_state[a] = 4 THEN session_id[a] + 1 ELSE session_id[a]
    /\ is_primary'[a] <=> is_primary[a] /\ primary_state[a] # 24
    /\ primary_state[a] = 23 /\ primary_state'[a] = 0 => seen'[a].unacked
    /\ seen[a].unacked => seen'[a].unacked \/ (primary_state[a] = 5 /\ primary_state'[a] = 6)

(* The numbers of a move, and the messages it may send. *)
LEMMA MovesSends ==
  ASSUME RoleInv, NEW a \in Earbuds, NEW o \in Earbuds, o # a, NEW r, NEW sent,
         Moves(a, o, r, sent)
  PROVE  /\ primary_state[a] \in 0 .. 26 /\ primary_state'[a] \in 0 .. 26
         /\ \A i \in 1 .. Len(sent) :
               /\ sent[i].type \in {"START_REQ", "P1_DATA", "BT_DATA", "CANCEL_IND"}
               /\ sent[i].type = "START_REQ" =>
                      /\ primary_state[a] = 4 /\ primary_state'[a] = 5 /\ Len(sent) = 1 /\ i = 1
                      /\ sent[1].session = session_id'[a]
               /\ IsData(sent[i]) =>
                      /\ primary_state[a] \in {6, 14, 22}
                      /\ \A j \in 1 .. i : IsData(sent[j])
                      /\ sent[i].type = "BT_DATA" /\ sent[i].mirrored => primary_state'[a] = 23
         /\ primary_state'[a] # 0 /\ primary_state[a] # 4 =>
                \A i \in 1 .. Len(sent) : IsData(sent[i])
  <1>1. primary_state[a] \in 0 .. 26
    BY Typed DEF RoleInv
  <1>2. primary_state'[a] \in 0 .. 26
    BY <1>1 DEF Moves, Progress
  <1>3. Len(sent) \in Nat /\ Sends(a, sent)
    BY DEF Moves, Passes
  <1>4. ASSUME NEW i \in 1 .. Len(sent)
        PROVE  /\ sent[i].type \in {"START_REQ", "P1_DATA", "BT_DATA", "CANCEL_IND"}
               /\ sent[i].type = "START_REQ" =>
                      /\ primary_state[a] = 4 /\ primary_state'[a] = 5 /\ Len(sent) = 1 /\ i = 1
                      /\ sent[1].session = session_id'[a]
               /\ IsData(sent[i]) =>
                      /\ primary_state[a] \in {6, 14, 22}
                      /\ \A j \in 1 .. i : IsData(sent[j])
                      /\ sent[i].type = "BT_DATA" /\ sent[i].mirrored => primary_state'[a] = 23
               /\ primary_state'[a] # 0 /\ primary_state[a] # 4 => IsData(sent[i])
    <2>1. i \in Nat /\ i >= 1 /\ i <= Len(sent) /\ \A j \in 1 .. i : j \in 1 .. Len(sent)
      BY <1>3
    <2>2. CASE primary_state[a] = 4 /\ primary_state'[a] = 5 /\ Len(sent) = 1
               /\ sent[1].type = "START_REQ" /\ sent[1].session = session_id'[a]
      <3>1. i = 1
        BY <2>1, <2>2
      <3> QED
        BY <2>2, <3>1 DEF IsData
    <2>3. CASE primary_state[a] = 22 /\ primary_state'[a] = 23 /\ Len(sent) = 1
               /\ sent[1].type = "BT_DATA" /\ sent[1].mirrored
      <3>1. i = 1 /\ \A j \in 1 .. i : j = 1
        BY <2>1, <2>3
      <3> QED
        BY <2>3, <3>1 DEF IsData
    <2>4. CASE primary_state[a] = 6 /\ primary_state'[a] = 7
               /\ \A j \in 1 .. Len(sent) : sent[j].type = "P1_DATA"
      BY <2>1, <2>4 DEF IsData
    <2>5. CASE primary_state[a] = 14 /\ primary_state'[a] = 15
               /\ \A j \in 1 .. Len(sent) : sent[j].type = "BT_DATA" /\ ~sent[j].mirrored
      BY <2>1, <2>5 DEF IsData
    <2>6. CASE /\ primary_state'[a] = 0
               /\ \/ sent[i].type = "CANCEL_IND"
                  \/ /\ primary_state[a] = 6 /\ i <= Others + 1
                     /\ \A j \in 1 .. i : sent[j].type = "P1_DATA"
      <3>1. i \in 1 .. i
        BY <2>1
      <3> QED
        BY <2>6, <3>1 DEF IsData
    <2>7. Len(sent) # 0
      BY <1>3, <2>1
    <2> QED
      BY <1>3, <2>2, <2>3, <2>4, <2>5, <2>6, <2>7 DEF Sends
  <1> QED
    BY <1>1, <1>2, <1>4

LEMMA MovesPositions ==
  ASSUME RoleInv, NEW a \in Earbuds, NEW o \in Earbuds, o # a, NEW r, NEW sent,
         Moves(a, o, r, sent)
  PROVE  LET k == primary_state[a]
             n == primary_state'[a]
         IN  /\ n = 5 => k \in {4, 5}
             /\ n = 6 => k = 5
             /\ n = 7 => k \in {6, 7}
             /\ n > 7 => k \in 7 .. 25 /\ n = k + 1
  <1> DEFINE k == primary_state[a]
             n == primary_state'[a]
  <1>1. k \in 0 .. 26 /\ n \in 0 .. 26
    BY MovesSends
  <1>2. \/ n = 0
        \/ n = 2
        \/ k \in 1 .. 25 /\ n = k + 1
        \/ k \in {5, 7} /\ n = k
    BY DEF Moves, Progress
  <1> HIDE DEF k, n
  <1>3. n = 5 => k \in {4, 5}
    BY ONLY <1>1, <1>2
  <1>4. n = 6 => k = 5
    BY ONLY <1>1, <1>2
  <1>5. n = 7 => k \in {6, 7}
    BY ONLY <1>1, <1>2
  <1>6. n > 7 => k \in 7 .. 25 /\ n = k + 1
    BY ONLY <1>1, <1>2
  <1> QED
    BY <1>3, <1>4, <1>5, <1>6 DEF k, n

LEMMA MovesAccepted ==
  ASSUME RoleInv, NEW a \in Earbuds, NEW o \in Earbuds, o # a, NEW r, NEW sent,
         Moves(a, o, r, sent), Accepted(a)'
  PROVE  /\ Accepted(a) /\ primary_state[a] \in 5 .. 26
         /\ primary_state'[a] # 0 /\ session_id'[a] = session_id[a]
  <1>1. /\ primary_state[a] \in 0 .. 26 /\ primary_state'[a] >= 5 /\ Progress(a) /\ Takes(a, r)
        /\ session_id'[a] = IF primary_state[a] = 4 THEN session_id[a] + 1 ELSE session_id[a]
    <2>1. primary_state[a] \in 0 .. 26 /\ primary_state'[a] \in 0 .. 26
      BY MovesSends
    <2>2. primary_state'[a] > 5 \/ primary_state'[a] = 5
      BY DEF Accepted
    <2>3. primary_state'[a] >= 5
      BY ONLY <2>1, <2>2
    <2> QED
      BY <2>1, <2>3 DEF Moves
  <1>2. \A i \in 1 .. Len(inbox'[a]) :
           i + r \in 1 .. Len(inbox[a]) /\ inbox'[a][i] = inbox[a][i + r]
    BY DEF Moves, Passes
  <1>3. primary_state[a] # 4
    <2>1. SUFFICES ASSUME primary_state[a] = 4 PROVE FALSE
      OBVIOUS
    <2>2. primary_state'[a] = 5 /\ session_id'[a] = session_id[a] + 1
      BY <1>1, <2>1 DEF Progress
    <2>3. PICK i \in 1 .. Len(inbox'[a]) : Confirms(inbox'[a][i], session_id'[a])
      BY <2>2 DEF Accepted
    <2>4. Confirms(inbox[a][i + r], session_id[a] + 1) /\ i + r \in 1 .. Len(inbox[a])
      BY <1>2, <2>2, <2>3
    <2>5. session_id[a] + 1 <= seen[o].accepted /\ seen[o].accepted <= session_id[a]
      BY <2>4 DEF RoleInv, From, Sessions, Confirms
    <2>6. session_id[a] \in Nat /\ seen[o].accepted \in Nat
      BY Numbers DEF RoleInv
    <2> QED
      BY <2>5, <2>6
  <1>4. primary_state[a] \in 5 .. 26 /\ primary_state'[a] # 0
    BY <1>1, <1>3 DEF Progress
  <1>5. Accepted(a)
    <2>1. CASE primary_state[a] > 5
      BY <2>1 DEF Accepted
    <2>2. CASE primary_state[a] = 5 /\ primary_state'[a] = 6
      BY <1>1, <2>2 DEF Accepted, Takes
    <2>3. CASE primary_state[a] = 5 /\ primary_state'[a] = 5
      <3>1. PICK i \in 1 .. Len(inbox'[a]) : Confirms(inbox'[a][i], session_id'[a])
        BY <2>3 DEF Accepted
      <3> QED
        BY <1>1, <1>2, <2>3, <3>1 DEF Accepted
    <2> QED
      BY <1>1, <1>4, <2>1, <2>2, <2>3 DEF Progress
  <1> QED
    BY <1>1, <1>3, <1>4, <1>5

LEMMA MovesSessions ==
  ASSUME RoleInv, NEW a \in Earbuds, NEW o \in Earbuds, o # a, NEW r, NEW sent,
         Moves(a, o, r, sent)
  PROVE  Sessions(a, o)'
  <1> DEFINE id == session_id[a]
             k == primary_state[a]
             n == primary_state'[a]
             acc == seen[o].accepted
  <1>1. /\ id \in Nat /\ acc \in Nat /\ MaxSessions \in Nat /\ k \in 0 .. 26 /\ n \in 0 .. 26
        /\ Len(inbox[o]) \in Nat
    BY Numbers, MovesSends DEF RoleInv
  <1>2. Sessions(a, o) /\ Roles(a, o)
    BY DEF RoleInv, From
  <1>3. /\ Progress(a) /\ session_id'[a] = IF k = 4 THEN id + 1 ELSE id
        /\ seen'[o].accepted = acc
    BY DEF Moves, OnlyPrimary
  <1>4. k \in 1 .. 4 => id < MaxSessions
    BY <1>2 DEF Sessions
  <1>5. session_id'[a] <= MaxSessions /\ (n \in 1 .. 4 => session_id'[a] < MaxSessions)
    <2>1. id <= MaxSessions
      BY <1>2 DEF Sessions
    <2>2. \/ n = 0
          \/ k = 0 /\ n = 2 /\ id < MaxSessions
          \/ k \in 1 .. 25 /\ n = k + 1
          \/ k \in {5, 7} /\ n = k
      BY <1>3 DEF Progress
    <2> HIDE DEF id, k, n
    <2> QED
      BY <1>1, <1>3, <1>4, <2>1, <2>2
  <1>6. acc <= session_id'[a] /\ (k = 4 => acc < session_id'[a] /\ id < session_id'[a])
    BY <1>1, <1>2, <1>3 DEF Sessions
  <1>7. n > 5 => acc = session_id'[a]
    <2>1. CASE k > 5
      BY <1>1, <1>2, <1>3, <2>1 DEF Sessions
    <2>2. CASE k = 5 /\ n = 6
      <3>1. Confirms(inbox[a][1], id) /\ 1 \in 1 .. Len(inbox[a])
        BY <2>2 DEF Moves, Takes
      <3>2. id <= acc /\ acc <= id
        BY <1>2, <3>1 DEF Sessions, Confirms
      <3> QED
        BY <1>1, <1>3, <2>2, <3>2
    <2>3. n = 0 \/ n = 2 \/ (k \in 1 .. 25 /\ n = k + 1) \/ (k \in {5, 7} /\ n = k)
      BY <1>3 DEF Progress
    <2>4. n > 5 => k > 5 \/ (k = 5 /\ n = 6)
      <3> HIDE DEF k, n
      <3> QED
        BY ONLY <1>1, <2>3
    <2> QED
      BY <2>1, <2>2, <2>4
  <1>8. \A i \in 1 .. Len(inbox[o]) : inbox[o][i].type = "START_REQ" =>
           acc < inbox[o][i].session /\ inbox[o][i].session <= id /\ is_primary[a]
    BY <1>2 DEF Sessions
  <1>9. /\ \A i \in 1 .. Len(inbox[o]) : inbox'[o][i] = inbox[o][i]
        /\ Len(inbox'[o]) = Len(inbox[o]) + Len(sent)
        /\ \A i \in 1 .. Len(inbox'[o]) : inbox'[o][i].type = "START_REQ" =>
              \/ i \in 1 .. Len(inbox[o])
              \/ /\ k = 4 /\ n = 5 /\ i = Len(inbox'[o]) /\ i = Len(inbox[o]) + 1
                 /\ inbox'[o][i].session = session_id'[a]
    <2>1. /\ \A i \in 1 .. Len(inbox[o]) : inbox'[o][i] = inbox[o][i]
          /\ Len(inbox'[o]) = Len(inbox[o]) + Len(sent)
      BY DEF Moves, Passes
    <2>2. ASSUME NEW i \in 1 .. Len(inbox'[o]), inbox'[o][i].type = "START_REQ",
                 i \notin 1 .. Len(inbox[o])
          PROVE  /\ k = 4 /\ n = 5 /\ i = Len(inbox'[o]) /\ i = Len(inbox[o]) + 1
                 /\ inbox'[o][i].session = session_id'[a]
      <3>1. i - Len(inbox[o]) \in 1 .. Len(sent) /\ inbox'[o][i] = sent[i - Len(inbox[o])]
        BY <2>2 DEF Moves, Passes
      <3>2. k = 4 /\ n = 5 /\ Len(sent) = 1 /\ i - Len(inbox[o]) = 1
            /\ sent[1].session = session_id'[a]
        BY <2>2, <3>1, MovesSends
      <3> QED
        BY <1>1, <2>1, <3>1, <3>2
    <2> QED
      BY <2>1, <2>2
  <1>10. ASSUME NEW i \in 1 .. Len(inbox'[o]), inbox'[o][i].type = "START_REQ"
         PROVE  /\ acc < inbox'[o][i].session
                /\ inbox'[o][i].session <= session_id'[a]
                /\ n = 5 /\ inbox'[o][i].session = session_id'[a] => i = Len(inbox'[o])
                /\ is_primary'[a]
    <2>1. CASE i \in 1 .. Len(inbox[o])
      <3> DEFINE num == inbox[o][i].session
      <3>1. inbox'[o][i] = inbox[o][i] /\ inbox[o][i].type = "START_REQ"
        BY <1>9, <1>10, <2>1
      <3>2. acc < num /\ num <= id /\ is_primary[a] /\ num \in Nat
        <4>1. inbox[o][i] \in Messages
          BY <2>1, Numbers DEF RoleInv
        <4>2. inbox[o][i].session \in Nat
          BY <3>1, <4>1, HandoverAssumption DEF Messages
        <4> QED
          BY <1>8, <2>1, <3>1, <4>2
      <3>3. k <= 5
        <4>1. k > 5 => acc = id
          BY <1>2 DEF Sessions
        <4> HIDE DEF id, k, acc, num
        <4>2. ~(acc = id)
          BY ONLY <1>1, <3>2
        <4> QED
          BY ONLY <1>1, <4>1, <4>2
      <3>4. is_primary'[a]
        <4>1. k # 24
          BY <1>1, <3>3
        <4> QED
          BY <3>2, <4>1 DEF Moves
      <3>5. ASSUME n = 5, num = session_id'[a] PROVE i = Len(inbox'[o])
        <4>1. k = 5
          <5>1. k # 4
            <6> HIDE DEF id, k, n, num
            <6>1. session_id'[a] = num /\ num <= id /\ id \in Nat /\ num \in Nat
              BY <1>1, <3>2, <3>5
            <6> QED
              BY ONLY <1>3, <6>1
          <5> QED
            BY <3>5, <5>1, MovesPositions
        <4>2. Len(sent) = 0
          BY <3>5, <4>1 DEF Moves, Sends
        <4>3. i = Len(inbox[o])
          BY <1>2, <1>3, <2>1, <3>1, <3>5, <4>1 DEF Sessions
        <4> QED
          BY <1>1, <1>9, <4>2, <4>3
      <3> QED
        BY <1>1, <1>3, <3>1, <3>2, <3>4, <3>5
    <2>2. CASE /\ k = 4 /\ n = 5 /\ i = Len(inbox'[o])
               /\ inbox'[o][i].session = session_id'[a]
      <3>1. k \in 1 .. 24 /\ k # 24
        BY <2>2
      <3>2. is_primary'[a]
        BY <1>2, <3>1 DEF Roles, Moves
      <3> QED
        BY <1>1, <1>3, <1>6, <2>2, <3>2
    <2> QED
      BY <1>9, <1>10, <2>1, <2>2
  <1>11. ASSUME NEW i \in 1 .. Len(inbox'[o]), NEW j \in 1 .. Len(inbox'[o]), i < j,
                inbox'[o][i].type = "START_REQ", inbox'[o][j].type = "START_REQ"
         PROVE  inbox'[o][i].session < inbox'[o][j].session
    <2>1. CASE j \in 1 .. Len(inbox[o])
      <3>1. i \in 1 .. Len(inbox[o])
        BY <1>1, <1>11, <2>1
      <3> QED
        BY <1>2, <1>9, <1>11, <2>1, <3>1 DEF Sessions
    <2>2. CASE /\ k = 4 /\ j = Len(inbox'[o]) /\ j = Len(inbox[o]) + 1
               /\ inbox'[o][j].session = session_id'[a]
      <3>1. i \in 1 .. Len(inbox[o])
        BY <1>1, <1>11, <2>2
      <3>2. inbox'[o][i].session <= id /\ inbox'[o][i].session \in Nat
        <4>1. inbox[o][i] \in Messages /\ inbox'[o][i] = inbox[o][i]
          BY <1>9, <3>1, Numbers DEF RoleInv
        <4>2. inbox[o][i].session \in Nat
          BY <1>11, <4>1, HandoverAssumption DEF Messages
        <4> QED
          BY <1>8, <1>11, <3>1, <4>1, <4>2
      <3> QED
        BY <1>1, <1>3, <2>2, <3>2
    <2> QED
      BY <1>9, <1>11, <2>1, <2>2
  <1>12. ASSUME NEW i \in 1 .. Len(inbox'[a]), inbox'[a][i].type = "START_CFM",
                inbox'[a][i].accepted
         PROVE  inbox'[a][i].session <= acc
    <2>1. i + r \in 1 .. Len(inbox[a]) /\ inbox'[a][i] = inbox[a][i + r]
      BY DEF Moves, Passes
    <2> QED
      BY <1>2, <1>12, <2>1 DEF Sessions
  <1> QED
    BY <1>3, <1>5, <1>6, <1>7, <1>10, <1>11, <1>12 DEF Sessions

LEMMA MovesRoles ==
  ASSUME RoleInv, NEW a \in Earbuds, NEW o \in Earbuds, o # a, NEW r, NEW sent,
         Moves(a, o, r, sent)
  PROVE  Roles(a, o)'
  <1>1. /\ primary_state[a] \in 0 .. 26 /\ primary_state'[a] \in 0 .. 26
        /\ OnlyPrimary(a, o) /\ Progress(a)
        /\ is_primary'[a] <=> is_primary[a] /\ primary_state[a] # 24
    BY MovesSends DEF Moves
  <1>2. Roles(a, o) /\ Roles(o, a)
    BY DEF RoleInv, From
  <1>3. is_primary'[a] => secondary_state'[a] = "idle"
    BY <1>1, <1>2 DEF Roles, OnlyPrimary, secondaryVars
  <1>4. waiting'[a] => primary_state'[a] = 0
    <2>1. ~waiting[a]
      BY <1>1, <1>2 DEF Roles, Progress
    <2> QED
      BY <1>1, <2>1 DEF OnlyPrimary, secondaryVars
  <1>5. /\ primary_state'[a] \in 1 .. 24 => is_primary'[a]
        /\ primary_state'[a] \in 25 .. 26 => ~is_primary'[a]
    <2>1. CASE primary_state'[a] = 0
      BY <2>1
    <2>2. CASE primary_state[a] = 0 /\ primary_state'[a] = 2 /\ is_primary[a]
      BY <1>1, <2>2
    <2>3. CASE primary_state[a] \in 1 .. 25 /\ primary_state'[a] = primary_state[a] + 1
      <3>1. CASE primary_state[a] \in 1 .. 23
        <4>1. is_primary'[a] /\ primary_state'[a] \in 2 .. 24
          BY <1>1, <1>2, <2>3, <3>1 DEF Roles
        <4> QED
          BY <4>1
      <3>2. CASE primary_state[a] \in 24 .. 25
        <4>1. ~is_primary'[a] /\ primary_state'[a] \in 25 .. 26
          <5>1. primary_state[a] = 24 \/ primary_state[a] = 25
            BY <3>2
          <5> QED
            BY <1>1, <1>2, <2>3, <5>1 DEF Roles
        <4> QED
          BY <4>1
      <3> QED
        BY <2>3, <3>1, <3>2
    <2>4. CASE primary_state[a] \in {5, 7} /\ primary_state'[a] = primary_state[a]
      BY <1>1, <1>2, <2>4 DEF Roles
    <2> QED
      BY <1>1, <2>1, <2>2, <2>3, <2>4 DEF Progress
  <1>6. Accepted(a)' => ~Accepted(o)'
    <2>1. Accepted(o)' => Accepted(o)
      <3>1. \A i \in 1 .. Len(inbox'[o]) : inbox'[o][i].type = "START_CFM" =>
               i \in 1 .. Len(inbox[o]) /\ inbox'[o][i] = inbox[o][i]
        <4>1. \A i \in 1 .. Len(sent) : sent[i].type # "START_CFM"
          BY MovesSends
        <4>2. \A i \in 1 .. Len(inbox'[o]) :
                 \/ i \in 1 .. Len(inbox[o])
                 \/ /\ i - Len(inbox[o]) \in 1 .. Len(sent)
                    /\ inbox'[o][i] = sent[i - Len(inbox[o])]
          BY DEF Moves, Passes
        <4>3. \A i \in 1 .. Len(inbox[o]) : inbox'[o][i] = inbox[o][i]
          BY DEF Moves, Passes
        <4> QED
          BY ONLY <4>1, <4>2, <4>3
      <3> QED
        BY <1>1, <3>1 DEF Accepted, Confirms, OnlyPrimary
    <2>2. Accepted(a)' => Accepted(a)
      BY MovesAccepted
    <2> QED
      BY <1>2, <2>1, <2>2 DEF Roles
  <1> QED
    BY <1>3, <1>4, <1>5, <1>6 DEF Roles

LEMMA MovesInTurn ==
  ASSUME RoleInv, NEW a \in Earbuds, NEW o \in Earbuds, o # a, NEW r, NEW sent,
         Moves(a, o, r, sent)
  PROVE  DataInTurn(a, o)'
  <1>1. /\ primary_state[a] \in 0 .. 26 /\ primary_state'[a] \in 0 .. 26
        /\ OnlyPrimary(a, o) /\ Progress(a)
        /\ is_primary'[a] <=> is_primary[a] /\ primary_state[a] # 24
    BY MovesSends DEF Moves
  <1>2. Roles(a, o) /\ DataInTurn(a, o) /\ InSession(a, o)
    BY DEF RoleInv, From
  <1>3. secondary_state'[a] = secondary_state[a] /\ is_primary'[o] = is_primary[o]
    BY <1>1 DEF OnlyPrimary, secondaryVars
  <1>4. Len(inbox[o]) \in Nat /\ Len(sent) \in Nat /\ Len(inbox'[o]) = Len(inbox[o]) + Len(sent)
        /\ \A i \in 1 .. Len(inbox[o]) : inbox'[o][i] = inbox[o][i]
    BY DEF Moves, Passes
  <1> SUFFICES ASSUME NEW i \in 1 .. Len(inbox'[o]), IsData(inbox'[o][i])
               PROVE  /\ ~is_primary[o]
                      /\ secondary_state[a] = "idle"
                      /\ \A j \in 1 .. i : IsData(inbox'[o][j])
                      /\ inbox'[o][i].type = "BT_DATA" /\ inbox'[o][i].mirrored =>
                            primary_state'[a] > 22 \/ seen'[a].unacked \/ ~is_primary'[a]
    BY <1>3 DEF DataInTurn
  <1>5. CASE i \in 1 .. Len(inbox[o])
    <2>1. inbox'[o][i] = inbox[o][i] /\ \A j \in 1 .. i : inbox'[o][j] = inbox[o][j]
      <3>1. \A j \in 1 .. i : j \in 1 .. Len(inbox[o])
        BY <1>4, <1>5
      <3> QED
        BY <1>4, <1>5, <3>1
    <2>2. /\ ~is_primary[o] /\ secondary_state[a] = "idle" /\ \A j \in 1 .. i : IsData(inbox[o][j])
          /\ inbox[o][i].type = "BT_DATA" /\ inbox[o][i].mirrored =>
                primary_state[a] > 22 \/ seen[a].unacked \/ ~is_primary[a]
      BY <1>2, <1>5, <2>1 DEF DataInTurn
    <2>3. CASE primary_state[a] > 22
      <3>1. \/ primary_state'[a] > 22
            \/ primary_state[a] = 23 /\ primary_state'[a] = 0
            \/ primary_state[a] = 26
        <4> DEFINE k == primary_state[a]
                   n == primary_state'[a]
        <4>1. \/ k \in 1 .. 23 /\ n = 0
              \/ k = 26
              \/ n = k + 1
          BY <1>1, <2>3 DEF Progress
        <4>2. k \in 0 .. 26 /\ k > 22
          BY <1>1, <2>3
        <4> HIDE DEF k, n
        <4>3. n > 22 \/ (k = 23 /\ n = 0) \/ k = 26
          BY ONLY <4>1, <4>2
        <4> QED
          BY <4>3 DEF k, n
      <3>2. primary_state[a] = 26 => ~is_primary[a]
        BY <1>2 DEF Roles
      <3> QED
        BY <1>1, <2>1, <2>2, <3>1, <3>2 DEF Moves
    <2>4. CASE seen[a].unacked
      <3>1. ~(primary_state[a] = 5 /\ primary_state'[a] = 6)
        <4>1. SUFFICES ASSUME primary_state[a] = 5, primary_state'[a] = 6 PROVE FALSE
          OBVIOUS
        <4>2. Accepted(a)
          BY <4>1 DEF Moves, Takes, Accepted
        <4>3. Len(inbox[o]) = 0
          BY <1>2, <4>1, <4>2 DEF InSession, Opened
        <4> QED
          BY <1>5, <4>3
      <3> QED
        BY <2>1, <2>2, <2>4, <3>1 DEF Moves
    <2>5. CASE ~is_primary[a]
      BY <1>1, <2>1, <2>2, <2>5
    <2> QED
      BY <2>1, <2>2, <2>3, <2>4, <2>5
  <1>6. CASE i \notin 1 .. Len(inbox[o])
    <2> DEFINE h == i - Len(inbox[o])
    <2>1. h \in 1 .. Len(sent) /\ inbox'[o][i] = sent[h]
      BY <1>6 DEF Moves, Passes
    <2>2. /\ primary_state[a] \in {6, 14, 22}
          /\ \A j \in 1 .. h : IsData(sent[j])
          /\ sent[h].type = "BT_DATA" /\ sent[h].mirrored => primary_state'[a] = 23
      BY <2>1, MovesSends
    <2>3. is_primary[a] /\ secondary_state[a] = "idle" /\ Accepted(a)
      BY <1>2, <2>2 DEF Roles, Accepted
    <2>4. ~is_primary[o] /\ \A j \in 1 .. Len(inbox[o]) : IsData(inbox[o][j])
      BY <1>2, <2>2, <2>3 DEF InSession
    <2>5. ASSUME NEW j \in 1 .. i PROVE IsData(inbox'[o][j])
      <3>1. CASE j \in 1 .. Len(inbox[o])
        BY <1>4, <2>4, <3>1
      <3>2. CASE j \notin 1 .. Len(inbox[o])
        <4>1. j \in 1 .. Len(inbox'[o]) /\ j - Len(inbox[o]) <= h
          BY <1>4
        <4>2. j - Len(inbox[o]) \in 1 .. Len(sent) /\ inbox'[o][j] = sent[j - Len(inbox[o])]
          BY <3>2, <4>1 DEF Moves, Passes
        <4>3. j - Len(inbox[o]) \in 1 .. h
          BY <1>4, <2>1, <4>1, <4>2
        <4> QED
          BY <2>2, <4>2, <4>3
      <3> QED
        BY <3>1, <3>2
    <2> QED
      BY <2>1, <2>2, <2>3, <2>4, <2>5
  <1> QED
    BY <1>5, <1>6

LEMMA MovesFit ==
  ASSUME RoleInv, NEW a \in Earbuds, NEW o \in Earbuds, o # a, NEW r, NEW sent,
         Moves(a, o, r, sent)
  PROVE  DataFits(o)'
  <1>1. /\ primary_state[a] \in 0 .. 26 /\ primary_state'[a] \in 0 .. 26
        /\ OnlyPrimary(a, o) /\ Sends(a, sent)
    BY MovesSends DEF Moves
  <1>2. DataFits(o) /\ InSession(a, o)
    BY DEF RoleInv, From
  <1>3. /\ secondary_state'[o] = secondary_state[o] /\ p1_left'[o] = p1_left[o]
        /\ bt_left'[o] = bt_left[o]
    BY <1>1 DEF OnlyPrimary, secondaryVars
  <1>4. /\ Len(inbox[o]) \in Nat /\ Len(sent) \in Nat
        /\ Len(inbox'[o]) = Len(inbox[o]) + Len(sent)
        /\ Others \in Nat /\ bt_left[o] \in Nat /\ bt_left[o] <= Others /\ p1_left[o] \in Nat
    BY Numbers DEF Moves, Passes, RoleInv
  <1>5. ASSUME NEW i \in 1 .. Len(inbox'[o])
        PROVE  /\ secondary_state[o] \in {"setup", "p1_data"} =>
                     /\ inbox'[o][i].type # "BT_DATA"
                     /\ inbox'[o][i].type = "P1_DATA" => i <= p1_left[o]
               /\ HasRequested(o) =>
                     /\ inbox'[o][i].type # "P1_DATA"
                     /\ inbox'[o][i].type = "BT_DATA" =>
                           /\ i <= bt_left[o] + 1
                           /\ inbox'[o][i].mirrored <=> i = bt_left[o] + 1
    <2>1. CASE i \in 1 .. Len(inbox[o])
      <3>1. inbox'[o][i] = inbox[o][i]
        BY <2>1 DEF Moves, Passes
      <3> QED
        BY <1>2, <2>1, <3>1 DEF DataFits
    <2>2. CASE i \notin 1 .. Len(inbox[o])
      <3> DEFINE h == i - Len(inbox[o])
      <3>1. h \in 1 .. Len(sent) /\ inbox'[o][i] = sent[h]
        BY <2>2 DEF Moves, Passes
      <3>2. CASE ~IsData(sent[h])
        BY <3>1, <3>2 DEF IsData
      <3>3. CASE IsData(sent[h]) /\ primary_state[a] = 6
        <4>1. InSession(a, o) /\ Accepted(a) /\ primary_state[a] <= 6
          BY <1>2, <3>3 DEF Accepted
        <4>2. /\ Len(inbox[o]) = 0 /\ secondary_state[o] \in {"idle", "setup"}
              /\ secondary_state[o] = "setup" => p1_left[o] = Others + 1
          BY <3>3, <4>1 DEF InSession, Opened
        <4>4. i = h
          BY <1>4, <4>2
        <4>5. sent[h].type = "P1_DATA" /\ h <= Others + 1
          <5>1. h \in 1 .. h
            BY <3>1
          <5> HIDE DEF h
          <5> QED
            BY <1>1, <1>4, <3>1, <3>3, <5>1 DEF Sends, IsData
        <4> QED
          BY <3>1, <4>2, <4>4, <4>5 DEF HasRequested
      <3>4. CASE IsData(sent[h]) /\ primary_state[a] \in {14, 22}
        <4>1. InSession(a, o) /\ Accepted(a) /\ primary_state[a] <= 22 /\ primary_state[a] > 7
          BY <1>2, <3>4 DEF Accepted
        <4>2. /\ Ready(o)
              /\ HasRequested(o) => Len(inbox[o]) + ToSend(primary_state[a]) = bt_left[o]
          BY <4>1 DEF InSession, Confirmed
        <4>3. secondary_state[o] \notin {"setup", "p1_data"}
          BY <4>2 DEF Ready, GaveUp, HasRequested
        <4>4. CASE primary_state[a] = 14
          <5>1. sent[h].type = "BT_DATA" /\ ~sent[h].mirrored /\ h <= Others
            <6>1. Len(sent) # 0
              BY <1>4, <3>1
            <6>2. Len(sent) = Others /\ \A j \in 1 .. Len(sent) : sent[j].type = "BT_DATA" /\ ~sent[j].mirrored
              BY <1>1, <3>1, <3>4, <4>4, <6>1 DEF Sends, IsData
            <6> QED
              BY <1>4, <3>1, <6>2
          <5>2. HasRequested(o) => Len(inbox[o]) = 0 /\ bt_left[o] = Others
            BY <1>4, <4>2, <4>4 DEF ToSend
          <5>3. HasRequested(o) => i <= bt_left[o]
            BY <1>4, <5>1, <5>2
          <5> HIDE DEF h
          <5> QED
            BY <1>4, <3>1, <4>3, <5>1, <5>3
        <4>5. CASE primary_state[a] = 22
          <5>1. sent[1].type = "BT_DATA" /\ sent[1].mirrored /\ h = 1
            <6>1. Len(sent) # 0
              BY <1>4, <3>1
            <6>2. Len(sent) = 1 /\ sent[1].type = "BT_DATA" /\ sent[1].mirrored
              BY <1>1, <3>1, <3>4, <4>5, <6>1 DEF Sends, IsData
            <6> QED
              BY <3>1, <6>2
          <5>2. HasRequested(o) => Len(inbox[o]) = bt_left[o]
            BY <1>4, <4>2, <4>5 DEF ToSend
          <5>3. HasRequested(o) => i = bt_left[o] + 1
            BY <1>4, <5>1, <5>2
          <5> HIDE DEF h
          <5> QED
            BY <1>4, <3>1, <4>3, <5>1, <5>3
        <4> QED
          BY <3>4, <4>4, <4>5
      <3> QED
        BY <3>1, <3>2, <3>3, <3>4, MovesSends
    <2> QED
      BY <2>1, <2>2
  <1> QED
    BY <1>2, <1>3, <1>5 DEF DataFits, HasRequested

LEMMA MovesInSession ==
  ASSUME RoleInv, NEW a \in Earbuds, NEW o \in Earbuds, o # a, NEW r, NEW sent,
         Moves(a, o, r, sent)
  PROVE  InSession(a, o)' /\ Unmarshalled(a, o)'
  <1>1. /\ primary_state[a] \in 0 .. 26 /\ primary_state'[a] \in 0 .. 26
        /\ OnlyPrimary(a, o) /\ Sends(a, sent) /\ Takes(a, r)
    BY MovesSends DEF Moves
  <1>2. DataFits(o) /\ InSession(a, o) /\ Unmarshalled(a, o)
    BY DEF RoleInv, From
  <1>3. /\ secondary_state'[o] = secondary_state[o] /\ p1_left'[o] = p1_left[o]
        /\ bt_left'[o] = bt_left[o] /\ waiting'[o] = waiting[o]
        /\ is_primary'[o] = is_primary[o] /\ seen'[o] = seen[o]
    BY <1>1 DEF OnlyPrimary, secondaryVars
  <1>4. /\ Len(inbox[o]) \in Nat /\ Len(sent) \in Nat
        /\ Len(inbox'[o]) = Len(inbox[o]) + Len(sent)
        /\ \A i \in 1 .. Len(inbox'[o]) :
              \/ i \in 1 .. Len(inbox[o]) /\ inbox'[o][i] = inbox[o][i]
              \/ i - Len(inbox[o]) \in 1 .. Len(sent) /\ inbox'[o][i] = sent[i - Len(inbox[o])]
    BY DEF Moves, Passes
  <1>5. \A i \in 1 .. Len(inbox'[a]) :
           i + r \in 1 .. Len(inbox[a]) /\ inbox'[a][i] = inbox[a][i + r]
    BY DEF Moves, Passes
  <1>6. Others \in Nat /\ bt_left[o] \in Nat /\ bt_left[o] <= Others
    BY Numbers DEF RoleInv
  <1>7. /\ primary_state'[a] = 5 => primary_state[a] \in {4, 5}
        /\ primary_state'[a] = 6 => primary_state[a] = 5
        /\ primary_state'[a] = 7 => primary_state[a] \in {6, 7}
        /\ primary_state'[a] > 7 => /\ primary_state[a] \in 7 .. 25
                                    /\ primary_state'[a] = primary_state[a] + 1
    BY MovesPositions
  <1>8. ASSUME primary_state[a] = 7, primary_state'[a] > 7
        PROVE  /\ Ready(o) /\ seen[o].unmarshalled = session_id[a]
               /\ HasRequested(o) => Len(inbox[o]) = 0 /\ bt_left[o] = Others
               /\ primary_state'[a] = 8
    <2>1. primary_state'[a] = 8
      BY <1>7, <1>8
    <2>2. 1 \in 1 .. Len(inbox[a]) /\ inbox[a][1].type = "UNMARSHAL_P1_CFM"
      BY <1>1, <1>8, <2>1 DEF Takes
    <2>3. /\ \A i \in 1 .. Len(inbox[o]) : IsData(inbox[o][i]) /\ inbox[o][i].type # "BT_DATA"
          /\ HasRequested(o) => bt_left[o] = Others
          /\ Ready(o) /\ seen[o].unmarshalled = session_id[a]
      BY <1>2, <1>8, <2>2 DEF InSession, Marshalled, Accepted
    <2>4. ASSUME HasRequested(o) PROVE Len(inbox[o]) = 0
      <3>1. \A i \in 1 .. Len(inbox[o]) : FALSE
        BY <1>2, <2>3, <2>4 DEF DataFits, IsData
      <3> QED
        BY <1>4, <3>1
    <2> QED
      BY <2>1, <2>3, <2>4
  <1>9. Unmarshalled(a, o)'
    <2>1. SUFFICES ASSUME primary_state'[a] > 7
                   PROVE  seen[o].unmarshalled = session_id'[a]
      BY <1>3 DEF Unmarshalled
    <2>2. session_id'[a] = session_id[a]
      BY <1>7, <2>1 DEF Moves
    <2>3. CASE primary_state[a] > 7
      BY <1>2, <2>2, <2>3 DEF Unmarshalled
    <2>4. CASE primary_state[a] = 7
      BY <1>8, <2>1, <2>2, <2>4
    <2> QED
      BY <1>7, <2>1, <2>3, <2>4
  <1>10. ASSUME Accepted(a)', primary_state'[a] <= 22
         PROVE  /\ ~is_primary'[o]
                /\ \A i \in 1 .. Len(inbox'[o]) : IsData(inbox'[o][i])
                /\ Opened(a, o)' /\ Marshalled(a, o)' /\ Confirmed(a, o)'
    <2>1. /\ Accepted(a) /\ primary_state[a] \in 5 .. 26
          /\ primary_state'[a] # 0 /\ session_id'[a] = session_id[a]
      BY <1>10, MovesAccepted
    <2>2. primary_state[a] \in 5 .. 22 /\ primary_state'[a] \in 5 .. 22
      <3>1. primary_state'[a] >= 5
        BY <1>1, <1>10 DEF Accepted
      <3>2. primary_state'[a] \in 5 .. 22
        BY <1>1, <1>10, <3>1
      <3> QED
        BY <1>7, <2>1, <3>2
    <2>3. /\ ~is_primary[o] /\ \A i \in 1 .. Len(inbox[o]) : IsData(inbox[o][i])
          /\ Opened(a, o) /\ Marshalled(a, o) /\ Confirmed(a, o)
      BY <1>2, <2>1, <2>2 DEF InSession
    <2>4. \A i \in 1 .. Len(inbox'[o]) : IsData(inbox'[o][i])
      <3>1. \A i \in 1 .. Len(sent) : IsData(sent[i])
        <4>1. primary_state'[a] # 0 /\ primary_state[a] # 4
          BY <2>1
        <4> QED
          BY <4>1, MovesSends
      <3> QED
        BY <1>4, <2>3, <3>1
    <2>5. Opened(a, o)'
      <3>1. SUFFICES ASSUME primary_state'[a] <= 6
                     PROVE  /\ Len(inbox'[o]) = 0
                            /\ secondary_state'[o] \in {"idle", "setup"}
                            /\ secondary_state'[o] = "setup" => p1_left'[o] = Others + 1
                            /\ \A i \in 1 .. Len(inbox'[a]) :
                                  inbox'[a][i].type = "UNMARSHAL_P1_CFM" =>
                                      /\ primary_state'[a] = 5
                                      /\ \A j \in 1 .. i : ~Confirms(inbox'[a][j], session_id'[a])
        BY DEF Opened
      <3>2. primary_state[a] = 5
        BY <1>7, <2>1, <2>2, <3>1
      <3>3. /\ Len(inbox[o]) = 0 /\ secondary_state[o] \in {"idle", "setup"}
            /\ secondary_state[o] = "setup" => p1_left[o] = Others + 1
            /\ \A i \in 1 .. Len(inbox[a]) : inbox[a][i].type = "UNMARSHAL_P1_CFM" =>
                  \A j \in 1 .. i : ~Confirms(inbox[a][j], session_id[a])
        BY <2>3, <3>2 DEF Opened
      <3>4. Len(inbox'[o]) = 0
        <4>1. Len(sent) = 0
          BY <1>1, <2>1, <3>2 DEF Sends
        <4> QED
          BY <1>4, <3>3, <4>1
      <3>5. ASSUME NEW i \in 1 .. Len(inbox'[a]), inbox'[a][i].type = "UNMARSHAL_P1_CFM"
            PROVE  /\ primary_state'[a] = 5
                   /\ \A j \in 1 .. i : ~Confirms(inbox'[a][j], session_id'[a])
        <4>1. i + r \in 1 .. Len(inbox[a]) /\ \A j \in 1 .. i + r : ~Confirms(inbox[a][j], session_id[a])
          BY <1>5, <3>3, <3>5
        <4>2. r \in Nat /\ Len(inbox'[a]) \in Nat
          BY DEF Moves, Passes
        <4>3. ASSUME NEW j \in 1 .. i PROVE ~Confirms(inbox'[a][j], session_id'[a])
          <5>1. j \in 1 .. Len(inbox'[a]) /\ j + r \in 1 .. i + r
            BY <4>2
          <5> QED
            BY <1>5, <2>1, <4>1, <5>1
        <4>4. primary_state'[a] # 6
          <5>1. SUFFICES ASSUME primary_state'[a] = 6 PROVE FALSE
            OBVIOUS
          <5>2. Confirms(inbox[a][1], session_id[a])
            BY <1>1, <3>2, <5>1 DEF Takes
          <5>3. 1 \in 1 .. i + r
            BY <4>2
          <5> QED
            BY <4>1, <5>2, <5>3
        <4> QED
          BY <2>2, <3>1, <4>3, <4>4
      <3> QED
        BY <1>3, <3>3, <3>4, <3>5
    <2>6. Marshalled(a, o)'
      <3>1. SUFFICES ASSUME primary_state'[a] = 7
                     PROVE  /\ \A i \in 1 .. Len(inbox'[o]) : inbox'[o][i].type # "BT_DATA"
                            /\ HasRequested(o) => bt_left[o] = Others
                            /\ \A i \in 1 .. Len(inbox'[a]) :
                                  inbox'[a][i].type = "UNMARSHAL_P1_CFM" =>
                                      Ready(o) /\ seen[o].unmarshalled = session_id[a]
        BY <1>3, <2>1 DEF Marshalled, HasRequested, Ready, GaveUp
      <3>2. CASE primary_state[a] = 6
        <4>1. /\ Len(inbox[o]) = 0 /\ ~HasRequested(o)
              /\ \A i \in 1 .. Len(inbox[a]) : inbox[a][i].type # "UNMARSHAL_P1_CFM"
          BY <2>3, <3>2 DEF Opened, HasRequested
        <4>2. \A i \in 1 .. Len(sent) : sent[i].type # "BT_DATA"
          BY <1>1, <3>1, <3>2 DEF Sends
        <4>3. \A i \in 1 .. Len(inbox'[o]) : inbox'[o][i].type # "BT_DATA"
          BY <1>4, <4>1, <4>2
        <4> QED
          BY <1>5, <4>1, <4>3
      <3>3. CASE primary_state[a] = 7
        <4>1. Len(sent) = 0
          BY <1>1, <2>1, <3>1, <3>3 DEF Sends
        <4>2. \A i \in 1 .. Len(inbox'[o]) : inbox'[o][i].type # "BT_DATA"
          BY <1>4, <2>3, <3>3, <4>1 DEF Marshalled
        <4> QED
          BY <1>5, <2>3, <3>3, <4>2 DEF Marshalled
      <3> QED
        BY <1>7, <3>1, <3>2, <3>3
    <2>7. Confirmed(a, o)'
      <3>1. SUFFICES ASSUME primary_state'[a] > 7
                     PROVE  /\ Ready(o)
                            /\ HasRequested(o) =>
                                  Len(inbox'[o]) + ToSend(primary_state'[a]) = bt_left[o]
        BY <1>3 DEF Confirmed, HasRequested, Ready, GaveUp
      <3>2. primary_state[a] \in 7 .. 21 /\ primary_state'[a] = primary_state[a] + 1
        BY <1>7, <2>2, <3>1
      <3>3. CASE primary_state[a] = 7
        <4>1. Len(sent) = 0
          BY <1>1, <3>2, <3>3 DEF Sends
        <4>2. ToSend(primary_state'[a]) = Others
          BY <3>2, <3>3 DEF ToSend
        <4> QED
          BY <1>4, <1>6, <1>8, <3>1, <3>3, <4>1, <4>2
      <3>4. CASE primary_state[a] > 7
        <4>1. /\ Ready(o)
              /\ HasRequested(o) => Len(inbox[o]) + ToSend(primary_state[a]) = bt_left[o]
          BY <2>3, <3>4 DEF Confirmed
        <4>2. Len(sent) + ToSend(primary_state'[a]) = ToSend(primary_state[a])
          <5>1. CASE primary_state[a] = 14
            <6>1. Len(sent) = Others
              BY <1>1, <3>2, <5>1 DEF Sends
            <6> QED
              BY <1>6, <3>2, <5>1, <6>1 DEF ToSend
          <5>2. CASE primary_state[a] # 14
            <6>1. Len(sent) = 0
              BY <1>1, <3>2, <3>4, <5>2 DEF Sends
            <6>2. primary_state[a] <= 14 <=> primary_state'[a] <= 14
              BY <3>2, <5>2
            <6> QED
              BY <1>6, <6>1, <6>2 DEF ToSend
          <5> QED
            BY <5>1, <5>2
        <4>3. ToSend(primary_state[a]) \in Nat /\ ToSend(primary_state'[a]) \in Nat
          BY <1>6 DEF ToSend
        <4> QED
          BY <1>4, <1>6, <4>1, <4>2, <4>3
      <3> QED
        BY <3>2, <3>3, <3>4
    <2> QED
      BY <1>3, <2>3, <2>4, <2>5, <2>6, <2>7
  <1> QED
    BY <1>9, <1>10 DEF InSession

(* The peer's promise to take over outlasts a move. *)
LEMMA MovesTakenOver ==
  ASSUME RoleInv, NEW a \in Earbuds, NEW o \in Earbuds, o # a, NEW r, NEW sent,
         Moves(a, o, r, sent), TakenOver(o)
  PROVE  TakenOver(o)'
  <1>1. /\ secondary_state'[o] = secondary_state[o] /\ waiting'[o] = waiting[o]
        /\ bt_left'[o] = bt_left[o] /\ is_primary'[o] = is_primary[o] /\ seen'[o] = seen[o]
    BY DEF Moves, OnlyPrimary, secondaryVars
  <1>2. CASE is_primary[o] \/ seen[o].gave_up
    BY <1>1, <1>2 DEF TakenOver
  <1>3. CASE /\ HasRequested(o) /\ waiting[o] /\ bt_left[o] + 1 <= Len(inbox[o])
             /\ inbox[o][bt_left[o] + 1].type = "BT_DATA"
    <2>1. bt_left[o] + 1 \in 1 .. Len(inbox[o])
      BY <1>3, Numbers DEF RoleInv
    <2>2. /\ inbox'[o][bt_left[o] + 1] = inbox[o][bt_left[o] + 1]
          /\ bt_left[o] + 1 \in 1 .. Len(inbox'[o])
      BY <2>1 DEF Moves, Passes
    <2> QED
      BY <1>1, <1>3, <2>2 DEF TakenOver, HasRequested
  <1> QED
    BY <1>2, <1>3 DEF TakenOver

LEMMA MovesCommitting ==
  ASSUME RoleInv, NEW a \in Earbuds, NEW o \in Earbuds, o # a, NEW r, NEW sent,
         Moves(a, o, r, sent)
  PROVE  Committing(a, o)'
  <1> SUFFICES ASSUME primary_state'[a] \in 23 .. 24 PROVE TakenOver(o)'
    BY DEF Committing
  <1>1. primary_state[a] \in 22 .. 23 /\ primary_state'[a] = primary_state[a] + 1
    BY MovesPositions
  <1>2. InSession(a, o) /\ Committing(a, o)
    BY DEF RoleInv, From
  <1>3. CASE primary_state[a] = 22
    <2>1. Ready(o) /\ (HasRequested(o) => Len(inbox[o]) + ToSend(22) = bt_left[o])
      BY <1>2, <1>3 DEF InSession, Confirmed, Accepted
    <2>2. /\ secondary_state'[o] = secondary_state[o] /\ waiting'[o] = waiting[o]
          /\ bt_left'[o] = bt_left[o] /\ seen'[o] = seen[o]
      BY DEF Moves, OnlyPrimary, secondaryVars
    <2>3. CASE seen[o].gave_up
      BY <2>2, <2>3 DEF TakenOver
    <2>4. CASE HasRequested(o) /\ waiting[o]
      <3>1. Len(inbox[o]) = bt_left[o] /\ Len(inbox[o]) \in Nat
        BY <2>1, <2>4, Numbers DEF ToSend, RoleInv
      <3>2. Len(sent) = 1 /\ sent[1].type = "BT_DATA"
        BY <1>1, <1>3 DEF Moves, Sends
      <3>3. Len(inbox'[o]) = Len(inbox[o]) + Len(sent)
        BY DEF Moves, Passes
      <3>4. Len(inbox'[o]) = bt_left[o] + 1 /\ bt_left[o] + 1 \in 1 .. Len(inbox'[o])
            /\ bt_left[o] + 1 \notin 1 .. Len(inbox[o])
        BY <3>1, <3>2, <3>3
      <3>5. inbox'[o][bt_left[o] + 1] = sent[(bt_left[o] + 1) - Len(inbox[o])]
        <4>1. \A i \in 1 .. Len(inbox'[o]) :
                 i \in 1 .. Len(inbox[o]) \/ inbox'[o][i] = sent[i - Len(inbox[o])]
          BY DEF Moves, Passes
        <4> QED
          BY ONLY <3>4, <4>1
      <3>6. (bt_left[o] + 1) - Len(inbox[o]) = 1
        BY <3>1
      <3> QED
        BY <2>2, <2>4, <3>2, <3>4, <3>5, <3>6 DEF TakenOver, HasRequested
    <2> QED
      BY <2>1, <2>3, <2>4 DEF Ready, GaveUp
  <1>4. CASE primary_state[a] = 23
    BY <1>2, <1>4, MovesTakenOver DEF Committing
  <1> QED
    BY <1>1, <1>3, <1>4

LEMMA Moved ==
  ASSUME RoleInv, TypeOK', NEW a \in Earbuds, NEW o \in Earbuds, o # a, NEW r, NEW sent,
         Moves(a, o, r, sent)
  PROVE  RoleInv'
  <1>1. From(a, o)'
    BY MovesSessions, MovesRoles, MovesInTurn, MovesFit, MovesInSession, MovesCommitting DEF From
  <1>2. /\ OnlyPrimary(a, o) /\ Passes(a, o, r, sent) /\ Progress(a) /\ Takes(a, r)
        /\ is_primary'[a] <=> is_primary[a] /\ primary_state[a] # 24
        /\ is_primary'[o] = is_primary[o]
    BY DEF Moves, OnlyPrimary
  <1>3. Earbuds = {a, o}
    BY ThePeer
  <1>4. From(a, o) /\ From(o, a) /\ SomePrimary /\ TwoPrimaries
    BY DEF RoleInv
  <1>5. r = 0 \/ is_primary[a]
    <2>1. r # 0 => primary_state[a] \in {0, 5, 7}
      BY <1>2 DEF Takes
    <2>2. primary_state[a] \in {5, 7} => is_primary[a]
      BY <1>4 DEF From, Roles
    <2>3. primary_state[a] = 0 => is_primary[a]
      BY <1>2 DEF Progress
    <2> QED
      BY <2>1, <2>2, <2>3
  <1>6. From(o, a)'
    <2>1. \A i \in 1 .. Len(sent) : sent[i].type # "START_CFM"
      BY MovesSends
    <2>2. primary_state[a] # 0 \/ is_primary[a]
      BY <1>2 DEF Progress
    <2>3. \/ is_primary'[a] <=> is_primary[a]
          \/ ~is_primary'[a] /\ Accepted(a)
      BY <1>2 DEF Accepted
    <2>4. Accepted(a)' => Accepted(a)
      BY MovesAccepted
    <2> QED
      BY <1>2, <1>5, <2>1, <2>2, <2>3, <2>4, ToPrimary
  <1>7. SomePrimary'
    <2>1. SUFFICES ASSUME \A e \in Earbuds : ~is_primary'[e]
                   PROVE  \E p \in Earbuds : TakenOver(p)'
      BY DEF SomePrimary
    <2>2. ~is_primary[o]
      BY <1>2, <2>1
    <2>3. CASE primary_state[a] = 24
      <3>1. TakenOver(o)
        BY <1>4, <2>3 DEF From, Committing
      <3> QED
        BY <3>1, MovesTakenOver
    <2>4. CASE primary_state[a] # 24
      <3>1. ~is_primary[a]
        BY <1>2, <2>1, <2>4
      <3>2. TakenOver(a) \/ TakenOver(o)
        BY <1>3, <1>4, <2>2, <3>1 DEF SomePrimary
      <3>3. CASE TakenOver(o)
        BY <3>3, MovesTakenOver
      <3>4. CASE TakenOver(a)
        <4>1. /\ secondary_state' = secondary_state /\ waiting' = waiting /\ bt_left' = bt_left
              /\ seen'[a].gave_up = seen[a].gave_up
          BY <1>2 DEF OnlyPrimary, secondaryVars
        <4>2. r = 0
          BY <1>5, <3>1
        <4>3. /\ Len(inbox'[a]) + 0 = Len(inbox[a]) /\ Len(inbox'[a]) \in Nat
              /\ \A i \in 1 .. Len(inbox'[a]) : inbox'[a][i] = inbox[a][i + 0]
          BY <1>2, <4>2 DEF Passes
        <4>4. Len(inbox'[a]) = Len(inbox[a]) /\ \A i \in 1 .. Len(inbox'[a]) : i + 0 = i
          BY ONLY <4>3
        <4>5. bt_left[a] + 1 <= Len(inbox[a]) => bt_left[a] + 1 \in 1 .. Len(inbox'[a])
          BY <4>4, Numbers DEF RoleInv
        <4>6. bt_left[a] + 1 <= Len(inbox[a]) =>
                 inbox'[a][bt_left[a] + 1] = inbox[a][bt_left[a] + 1]
          BY <4>3, <4>4, <4>5
        <4> QED
          BY <3>1, <3>4, <4>1, <4>4, <4>6 DEF TakenOver, HasRequested
      <3> QED
        BY <3>2, <3>3, <3>4
    <2> QED
      BY <2>3, <2>4
  <1>8. TwoPrimaries'
    <2>1. SUFFICES ASSUME \A e \in Earbuds : is_primary'[e]
                   PROVE  \E e \in Earbuds : seen'[e].unacked \/ primary_state'[e] \in 23 .. 24
      BY DEF TwoPrimaries
    <2>2. is_primary[o] /\ is_primary[a] /\ primary_state[a] # 24
      BY <1>2, <2>1
    <2>3. /\ seen'[o] = seen[o] /\ primary_state'[o] = primary_state[o]
      BY <1>2 DEF OnlyPrimary
    <2>4. \/ seen[o].unacked \/ primary_state[o] \in 23 .. 24
          \/ seen[a].unacked \/ primary_state[a] \in 23 .. 24
      BY <1>3, <1>4, <2>2 DEF TwoPrimaries
    <2>5. CASE seen[o].unacked \/ primary_state[o] \in 23 .. 24
      BY <2>3, <2>5
    <2>6. CASE seen[a].unacked
      <3>1. ~(primary_state[a] = 5 /\ primary_state'[a] = 6)
        <4>1. SUFFICES ASSUME primary_state[a] = 5, primary_state'[a] = 6 PROVE FALSE
          OBVIOUS
        <4>2. Accepted(a)
          BY <1>2, <4>1 DEF Takes, Accepted
        <4> QED
          BY <1>4, <2>2, <4>1, <4>2 DEF From, InSession
      <3>2. seen'[a].unacked
        BY <2>6, <3>1 DEF Moves
      <3> QED
        BY <3>2
    <2>7. CASE primary_state[a] \in 23 .. 24
      <3>1. primary_state[a] = 23
        BY <2>2, <2>7
      <3>2. primary_state'[a] = 24 \/ primary_state'[a] = 0
        BY <1>2, <3>1 DEF Progress
      <3>3. seen'[a].unacked \/ primary_state'[a] \in 23 .. 24
        BY <3>1, <3>2 DEF Moves
      <3> QED
        BY <3>3
    <2> QED
      BY <2>4, <2>5, <2>6, <2>7
  <1>9. \A e, p \in Earbuds : e # p => From(e, p)'
    BY <1>1, <1>3, <1>6
  <1> QED
    BY <1>7, <1>8, <1>9 DEF RoleInv

(* A state that succeeds. *)
LEMMA AdvanceMoves ==
  ASSUME RoleInv, TypeOK', NEW a \in Earbuds, NEW o \in Earbuds, o # a,
         UNCHANGED secondaryVars, primary_state[a] \in 1 .. 25, Advance(a),
         \/ primary_state[a] # 24 /\ is_primary' = is_primary
         \/ primary_state[a] = 24 /\ is_primary' = [is_primary EXCEPT ![a] = FALSE],
         \/ primary_state[a] # 4 /\ session_id' = session_id
         \/ primary_state[a] = 4 /\ session_id' = [session_id EXCEPT ![a] = session_id[a] + 1],
         UNCHANGED seen \/ (primary_state[a] = 5 /\ seen' = [seen EXCEPT ![a].unacked = FALSE]),
         NEW r, NEW sent, Passes(a, o, r, sent), Takes(a, r), Sends(a, sent)
  PROVE  RoleInv'
  <1>1. TypeOK
    BY DEF RoleInv
  <1>2. primary_state'[a] = primary_state[a] + 1 /\ primary_state'[o] = primary_state[o]
    BY <1>1 DEF Advance, TypeOK
  <1>3. Progress(a)
    BY <1>2 DEF Progress
  <1>4. /\ is_primary'[a] <=> is_primary[a] /\ primary_state[a] # 24
        /\ is_primary'[o] = is_primary[o]
    BY <1>1 DEF TypeOK
  <1>5. /\ session_id'[a] = IF primary_state[a] = 4 THEN session_id[a] + 1 ELSE session_id[a]
        /\ session_id'[o] = session_id[o]
    BY <1>1 DEF TypeOK
  <1>6. /\ seen'[o] = seen[o] /\ seen'[a].accepted = seen[a].accepted
        /\ seen'[a].unmarshalled = seen[a].unmarshalled /\ seen'[a].gave_up = seen[a].gave_up
        /\ primary_state[a] # 5 => (seen[a].unacked => seen'[a].unacked)
    <2>1. CASE UNCHANGED seen
      BY <2>1
    <2>2. CASE primary_state[a] = 5 /\ seen' = [seen EXCEPT ![a].unacked = FALSE]
      <3>1. seen \in [Earbuds -> Seen] /\ seen[a] \in Seen
        BY <1>1 DEF TypeOK
      <3>2. seen'[o] = seen[o] /\ seen'[a] = [seen[a] EXCEPT !.unacked = FALSE]
        BY <2>2, <3>1
      <3> QED
        BY <2>2, <3>1, <3>2 DEF Seen
    <2> QED
      BY <2>1, <2>2
  <1>7. OnlyPrimary(a, o)
    BY <1>2, <1>4, <1>5, <1>6 DEF OnlyPrimary
  <1>8. Moves(a, o, r, sent)
    <2>1. ~(primary_state[a] = 23 /\ primary_state'[a] = 0)
      BY <1>2
    <2>2. primary_state[a] = 5 => primary_state'[a] = 6
      BY <1>2
    <2>3. seen[a].unacked => seen'[a].unacked \/ (primary_state[a] = 5 /\ primary_state'[a] = 6)
      BY ONLY <1>6, <2>2
    <2> QED
      BY <1>3, <1>4, <1>5, <1>7, <2>1, <2>3 DEF Moves
  <1> QED
    BY <1>8, Moved

LEMMA BeforeCommit == \A n \in 1 .. 23 : n # 24
  OBVIOUS

(* A state that fails. *)
LEMMA FailMoves ==
  ASSUME RoleInv, TypeOK', NEW a \in Earbuds, NEW o \in Earbuds, o # a,
         UNCHANGED <<is_primary, secondaryVars>>, primary_state[a] \in 1 .. 23,
         \/ primary_state[a] # 4 /\ session_id' = session_id
         \/ primary_state[a] = 4 /\ session_id' = [session_id EXCEPT ![a] = session_id[a] + 1],
         \/ primary_state[a] # 23 /\ UNCHANGED seen
         \/ primary_state[a] = 23 /\ seen' = [seen EXCEPT ![a].unacked = TRUE],
         NEW sent \in Seq(Messages), NEW part, NEW rest,
         \/ rest = inbox[a]
         \/ rest = Tail(inbox[a]) /\ inbox[a] # <<>> /\ primary_state[a] = 5,
         \A i \in 1 .. Len(sent) :
             primary_state[a] = 6 /\ i <= Others + 1 /\ sent[i].type = "P1_DATA",
         Fail(a, rest, sent, part)
  PROVE  RoleInv'
  <1>1. TypeOK
    BY DEF RoleInv
  <1>2. primary_state'[a] = 0 /\ primary_state'[o] = primary_state[o]
    BY <1>1 DEF Fail, TypeOK
  <1>3. /\ session_id'[a] = IF primary_state[a] = 4 THEN session_id[a] + 1 ELSE session_id[a]
        /\ session_id'[o] = session_id[o]
    BY <1>1 DEF TypeOK
  <1>4. /\ seen'[o] = seen[o] /\ seen'[a].accepted = seen[a].accepted
        /\ seen'[a].unmarshalled = seen[a].unmarshalled /\ seen'[a].gave_up = seen[a].gave_up
        /\ seen[a].unacked => seen'[a].unacked
        /\ primary_state[a] = 23 => seen'[a].unacked
    <2>1. CASE primary_state[a] # 23 /\ UNCHANGED seen
      BY <2>1
    <2>2. CASE seen' = [seen EXCEPT ![a].unacked = TRUE]
      <3>1. seen \in [Earbuds -> Seen] /\ seen[a] \in Seen
        BY <1>1 DEF TypeOK
      <3>2. seen'[o] = seen[o] /\ seen'[a] = [seen[a] EXCEPT !.unacked = TRUE]
        BY <2>2, <3>1
      <3> QED
        BY <3>1, <3>2 DEF Seen
    <2> QED
      BY <2>1, <2>2
  <1>5. OnlyPrimary(a, o) /\ Progress(a) /\ is_primary' = is_primary /\ primary_state[a] # 24
    <2>1. OnlyPrimary(a, o)
      BY <1>2, <1>3, <1>4 DEF OnlyPrimary
    <2>2. Progress(a)
      BY <1>2 DEF Progress
    <2>3. primary_state[a] # 24
      BY BeforeCommit, Zenon
    <2> QED
      BY <2>1, <2>2, <2>3
  <1>10. /\ is_primary'[a] <=> is_primary[a] /\ primary_state[a] # 24
         /\ primary_state[a] = 23 /\ primary_state'[a] = 0 => seen'[a].unacked
         /\ seen[a].unacked => seen'[a].unacked \/ (primary_state[a] = 5 /\ primary_state'[a] = 6)
    <2>1. is_primary'[a] <=> is_primary[a] /\ primary_state[a] # 24
      BY <1>5
    <2>2. primary_state[a] = 23 /\ primary_state'[a] = 0 => seen'[a].unacked
      BY <1>4
    <2>3. seen[a].unacked => seen'[a].unacked \/ (primary_state[a] = 5 /\ primary_state'[a] = 6)
      BY <1>4
    <2> QED
      BY <2>1, <2>2, <2>3
  <1>6. ASSUME NEW s \in Seq(Messages), Exchange(a, rest, s), Sends(a, s) PROVE RoleInv'
    <2>1. CASE rest = inbox[a]
      <3>1. Passes(a, o, 0, s)
        BY <1>1, <1>6, <2>1, TakesNone
      <3>2. Takes(a, 0)
        BY <1>2 DEF Takes
      <3>3. Moves(a, o, 0, s)
        BY ONLY <1>3, <1>5, <1>6, <1>10, <3>1, <3>2 DEF Moves
      <3> QED
        BY <3>3, Moved
    <2>2. CASE rest = Tail(inbox[a]) /\ inbox[a] # <<>> /\ primary_state[a] = 5
      <3>1. Passes(a, o, 1, s)
        BY <1>1, <1>6, <2>2, TakesOne
      <3>2. Takes(a, 1)
        BY <1>2, <2>2 DEF Takes
      <3>3. Moves(a, o, 1, s)
        BY ONLY <1>3, <1>5, <1>6, <1>10, <3>1, <3>2 DEF Moves
      <3> QED
        BY <3>3, Moved
    <2> QED
      BY <2>1, <2>2
  <1>7. \A i \in 1 .. Len(sent) : /\ primary_state[a] = 6 /\ i <= Others + 1
                                  /\ \A j \in 1 .. i : sent[j].type = "P1_DATA"
    <2>1. Len(sent) \in Nat
      BY LenProperties
    <2>2. \A i \in 1 .. Len(sent) : \A j \in 1 .. i : j \in 1 .. Len(sent)
      BY <2>1
    <2> QED
      BY <2>2
  <1>8. CASE Exchange(a, rest, sent)
    BY <1>2, <1>6, <1>7, <1>8 DEF Sends
  <1>9. CASE Exchange(a, rest, Append(sent, [type |-> "CANCEL_IND"]))
    <2> DEFINE c == [type |-> "CANCEL_IND"]
               s == Append(sent, c)
    <2>1. c \in Messages /\ c.type = "CANCEL_IND"
      BY DEF Messages
    <2>2. /\ s \in Seq(Messages) /\ Len(s) = Len(sent) + 1 /\ Len(sent) \in Nat
          /\ s[Len(sent) + 1] = c /\ \A i \in 1 .. Len(sent) : s[i] = sent[i]
      BY <2>1, AppendProperties, LenProperties
    <2> HIDE DEF s, c
    <2>3. ASSUME NEW i \in 1 .. Len(s)
          PROVE  \/ s[i].type = "CANCEL_IND"
                 \/ /\ primary_state[a] = 6 /\ i <= Others + 1
                    /\ \A j \in 1 .. i : s[j].type = "P1_DATA"
      <3>1. i = Len(sent) + 1 \/ i \in 1 .. Len(sent)
        BY <2>2
      <3>2. CASE i \in 1 .. Len(sent)
        <4>1. \A j \in 1 .. i : j \in 1 .. Len(sent)
          BY <2>2, <3>2
        <4> QED
          BY <1>7, <2>2, <3>2, <4>1
      <3> QED
        BY <2>1, <2>2, <3>1, <3>2
    <2>4. Sends(a, s)
      BY <1>2, <2>3 DEF Sends
    <2> QED
      BY <1>6, <1>9, <2>2, <2>4 DEF s, c
  <1> QED
    BY <1>8, <1>9 DEF Fail

(* The states that exchange messages or change the role. *)
LEMMA MarshallingStates ==
  \A i \in 1 .. 26 :
      /\ States[i] = "send_start_req" <=> i = 4
      /\ States[i] = "wait_for_start_cfm" <=> i = 5
      /\ States[i] = "send_p1_marshal_data" <=> i = 6
      /\ States[i] = "wait_for_marshal_data_cfm" <=> i = 7
      /\ States[i] = "send_inactive_marshal_data" <=> i = 14
      /\ States[i] = "send_active_marshal_data" <=> i = 22
      /\ States[i] = "clear_pending_peer_data" <=> i = 23
  <1>1. SUFFICES ASSUME NEW i \in 1 .. 26
                 PROVE  /\ States[i] = "send_start_req" <=> i = 4
                        /\ States[i] = "wait_for_start_cfm" <=> i = 5
                        /\ States[i] = "send_p1_marshal_data" <=> i = 6
                        /\ States[i] = "wait_for_marshal_data_cfm" <=> i = 7
                        /\ States[i] = "send_inactive_marshal_data" <=> i = 14
                        /\ States[i] = "send_active_marshal_data" <=> i = 22
                        /\ States[i] = "clear_pending_peer_data" <=> i = 23
    OBVIOUS
  <1>2. /\ States[1] = "setup" /\ States[2] = "self_veto"
        /\ States[3] = "veto" /\ States[4] = "send_start_req"
        /\ States[5] = "wait_for_start_cfm" /\ States[6] = "send_p1_marshal_data"
        /\ States[7] = "wait_for_marshal_data_cfm" /\ States[8] = "veto"
        /\ States[9] = "performance_request" /\ States[10] = "halt_inactive"
        /\ States[11] = "veto" /\ States[12] = "prepare_inactive"
        /\ States[13] = "veto" /\ States[14] = "send_inactive_marshal_data"
        /\ States[15] = "wait_for_a2dp_packet" /\ States[16] = "halt_active"
        /\ States[17] = "veto" /\ States[18] = "set_peer_link_active"
        /\ States[19] = "prepare_active" /\ States[20] = "wait_for_peer_link_active"
        /\ States[21] = "veto" /\ States[22] = "send_active_marshal_data"
        /\ States[23] = "clear_pending_peer_data" /\ States[24] = "commit_to_secondary_role"
        /\ States[25] = "performance_relinquish" /\ States[26] = "cleanup"
    BY DEF States
  <1>3. i \in {1, 2, 3, 4, 5, 6, 7, 8, 9, 10, 11, 12, 13, 14, 15, 16, 17, 18, 19, 20, 21, 22, 23,
               24, 25, 26}
    OBVIOUS
  <1>4. States[i] = "send_start_req" <=> i = 4
    BY <1>2, <1>3
  <1>5. States[i] = "wait_for_start_cfm" <=> i = 5
    BY <1>2, <1>3
  <1>6. States[i] = "send_p1_marshal_data" <=> i = 6
    BY <1>2, <1>3
  <1>7. States[i] = "wait_for_marshal_data_cfm" <=> i = 7
    BY <1>2, <1>3
  <1>8. States[i] = "send_inactive_marshal_data" <=> i = 14
    BY <1>2, <1>3
  <1>9. States[i] = "send_active_marshal_data" <=> i = 22
    BY <1>2, <1>3
  <1>10. States[i] = "clear_pending_peer_data" <=> i = 23
    BY <1>2, <1>3
  <1> QED
    BY <1>4, <1>5, <1>6, <1>7, <1>8, <1>9, <1>10

(* Any other state speaks to nobody. *)
Silent == {"self_veto", "veto", "wait_for_a2dp_packet", "performance_request", "halt_inactive",
           "prepare_inactive", "halt_active", "set_peer_link_active", "prepare_active",
           "wait_for_peer_link_active"}

LEMMA SilentStates ==
  ASSUME TypeOK, NEW e \in Earbuds, NEW s \in Silent, InState(e, s)
  PROVE  primary_state[e] \in 1 .. 22 /\ primary_state[e] \notin {4, 5, 6, 7, 14, 22}
  <1>1. primary_state[e] \in 1 .. 26 /\ States[primary_state[e]] = s
    BY Position
  <1>2. primary_state[e] \notin {4, 5, 6, 7, 14, 22, 23}
    BY <1>1, MarshallingStates DEF Silent
  <1>3. primary_state[e] \notin {24, 25, 26}
    BY <1>1, StateTable DEF Silent
  <1> QED
    BY <1>1, <1>2, <1>3

LEMMA NoMessages == <<>> \in Seq(Messages) /\ Len(<<>>) = 0
  OBVIOUS

LEMMA SilentAdvance ==
  ASSUME RoleInv, TypeOK', NEW a \in Earbuds, NEW o \in Earbuds, o # a,
         UNCHANGED <<secondaryVars, is_primary, inbox, session_id, seen>>,
         primary_state[a] \in 1 .. 25, primary_state[a] \notin {4, 5, 6, 7, 14, 22, 24}, Advance(a)
  PROVE  RoleInv'
  <1>1. Passes(a, o, 0, <<>>)
    BY PassesNothing DEF RoleInv
  <1>2. Takes(a, 0) /\ Sends(a, <<>>)
    BY NoMessages DEF Takes, Sends
  <1> QED
    BY <1>1, <1>2, AdvanceMoves

LEMMA SilentFail ==
  ASSUME RoleInv, TypeOK', NEW a \in Earbuds, NEW o \in Earbuds, o # a, NEW part,
         UNCHANGED <<secondaryVars, is_primary, session_id, seen>>,
         primary_state[a] \in 1 .. 22, primary_state[a] # 4, Fail(a, inbox[a], <<>>, part)
  PROVE  RoleInv'
  <1>1. primary_state[a] \in 1 .. 23 /\ primary_state[a] # 23
    OBVIOUS
  <1>2. \A i \in 1 .. Len(<<>>) :
           primary_state[a] = 6 /\ i <= Others + 1 /\ <<>>[i].type = "P1_DATA"
    BY NoMessages
  <1>3. inbox[a] = inbox[a] /\ <<>> \in Seq(Messages)
    BY NoMessages
  <1> QED
    BY <1>1, <1>2, <1>3, FailMoves

LEMMA MayProceedRoles ==
  ASSUME RoleInv, TypeOK', NEW a \in Earbuds, NEW o \in Earbuds, o # a, MayProceed(a)
  PROVE  RoleInv'
  <1>1. PICK s \in {"self_veto", "veto", "wait_for_a2dp_packet"} : InState(a, s)
    BY DEF MayProceed
  <1>2. primary_state[a] \in 1 .. 22 /\ primary_state[a] \notin {4, 5, 6, 7, 14, 22}
    BY <1>1, SilentStates DEF RoleInv, Silent
  <1>3. CASE Advance(a) /\ UNCHANGED inbox
    <2>1. primary_state[a] \in 1 .. 25 /\ primary_state[a] # 24
      BY <1>2
    <2> QED
      BY <1>2, <1>3, <2>1, SilentAdvance DEF MayProceed
  <1>4. CASE Fail(a, inbox[a], <<>>, {})
    BY <1>2, <1>4, SilentFail DEF MayProceed
  <1> QED
    BY <1>3, <1>4 DEF MayProceed

LEMMA PerformanceRequestRoles ==
  ASSUME RoleInv, TypeOK', NEW a \in Earbuds, NEW o \in Earbuds, o # a, PerformanceRequest(a)
  PROVE  RoleInv'
  <1>1. primary_state[a] \in 1 .. 22 /\ primary_state[a] \notin {4, 5, 6, 7, 14, 22}
    BY SilentStates DEF RoleInv, Silent, PerformanceRequest
  <1>2. primary_state[a] \in 1 .. 25 /\ primary_state[a] # 24
    BY <1>1
  <1> QED
    BY <1>1, <1>2, SilentAdvance DEF PerformanceRequest

LEMMA WorkOnLinksRoles ==
  ASSUME RoleInv, TypeOK', NEW a \in Earbuds, NEW o \in Earbuds, o # a, WorkOnLinks(a)
  PROVE  RoleInv'
  <1>1. PICK s \in {"halt_inactive", "prepare_inactive", "halt_active", "set_peer_link_active",
                    "prepare_active", "wait_for_peer_link_active"} :
           /\ InState(a, s)
           /\ \/ Advance(a) /\ UNCHANGED inbox
              \/ \E part \in SUBSET ({s} \cap PartlyDone) : Fail(a, inbox[a], <<>>, part)
           /\ UNCHANGED <<is_primary, session_id, secondaryVars, seen>>
    BY DEF WorkOnLinks
  <1>2. primary_state[a] \in 1 .. 22 /\ primary_state[a] \notin {4, 5, 6, 7, 14, 22}
    BY <1>1, SilentStates DEF RoleInv, Silent
  <1>3. primary_state[a] \in 1 .. 25 /\ primary_state[a] # 24
    BY <1>2
  <1> QED
    BY <1>1, <1>2, <1>3, SilentAdvance, SilentFail

LEMMA SendStartReqRoles ==
  ASSUME RoleInv, TypeOK', NEW a \in Earbuds, NEW o \in Earbuds, o # a, SendStartReq(a)
  PROVE  RoleInv'
  <1>1. TypeOK /\ session_id[a] \in Nat /\ MaxSessions \in Nat
    BY Numbers DEF RoleInv
  <1>2. primary_state[a] = 4
    <2>1. primary_state[a] \in 1 .. 26 /\ States[primary_state[a]] = "send_start_req"
      BY <1>1, Position DEF SendStartReq
    <2> QED
      BY <2>1, MarshallingStates
  <1>3. session_id[a] < MaxSessions
    BY <1>2 DEF RoleInv, From, Sessions
  <1>4. (session_id[a] + 1) % SessionIds = session_id[a] + 1
    <2>1. SessionIds \in Nat /\ session_id[a] + 1 < SessionIds
      BY <1>1, <1>3, HandoverAssumption
    <2> QED
      BY <1>1, <2>1
  <1>5. session_id' = [session_id EXCEPT ![a] = session_id[a] + 1]
    <2>1. session_id' = [session_id EXCEPT ![a] = (session_id[a] + 1) % SessionIds]
      BY DEF SendStartReq
    <2> QED
      BY <1>4, <2>1
  <1> DEFINE req == [type |-> "START_REQ", session |-> session_id'[a]]
  <1>6. req \in Messages /\ <<req>> \in Seq(Messages)
    BY DEF TypeOK, Messages
  <1>9. /\ UNCHANGED secondaryVars /\ is_primary' = is_primary /\ UNCHANGED seen
        /\ primary_state[a] \in 1 .. 25 /\ primary_state[a] \in 1 .. 23
        /\ primary_state[a] # 24 /\ primary_state[a] # 23
    BY <1>2 DEF SendStartReq
  <1>7. CASE Exchange(a, inbox[a], <<req>>) /\ Advance(a)
    <2>1. Passes(a, o, 0, <<req>>)
      BY <1>1, <1>6, <1>7, TakesNone
    <2>2. primary_state'[a] = 5
      BY <1>1, <1>2, <1>7 DEF Advance, TypeOK
    <2>3. Takes(a, 0) /\ Sends(a, <<req>>)
      BY <1>2, <2>2 DEF Takes, Sends
    <2> HIDE DEF req
    <2> QED
      BY <1>2, <1>5, <1>7, <1>9, <2>1, <2>3, AdvanceMoves
  <1>8. CASE Fail(a, inbox[a], <<>>, {})
    <2>1. \A i \in 1 .. Len(<<>>) :
             primary_state[a] = 6 /\ i <= Others + 1 /\ <<>>[i].type = "P1_DATA"
      BY NoMessages
    <2>2. inbox[a] = inbox[a] /\ <<>> \in Seq(Messages)
      BY NoMessages
    <2> QED
      BY <1>2, <1>5, <1>8, <1>9, <2>1, <2>2, FailMoves
  <1> QED
    BY <1>7, <1>8 DEF SendStartReq

(* A step of a's own handover that stays in a state, begins or ends. *)
LEMMA OtherMoves ==
  ASSUME RoleInv, TypeOK', NEW a \in Earbuds, NEW o \in Earbuds, o # a,
         UNCHANGED <<secondaryVars, is_primary, session_id, seen>>,
         NEW n, primary_state' = [primary_state EXCEPT ![a] = n],
         \/ primary_state[a] = 26 /\ n = 0
         \/ /\ primary_state[a] = 0 /\ n = 2
            /\ is_primary[a] /\ ~waiting[a] /\ session_id[a] < MaxSessions
         \/ primary_state[a] \in {5, 7} /\ n = primary_state[a],
         NEW r, Passes(a, o, r, <<>>), r # 0 => primary_state[a] \in {0, 5, 7}
  PROVE  RoleInv'
  <1>1. TypeOK
    BY DEF RoleInv
  <1>2. primary_state'[a] = n /\ primary_state'[o] = primary_state[o]
    BY <1>1 DEF TypeOK
  <1>3. primary_state[a] \in {0, 5, 7, 26}
    OBVIOUS
  <1>4. Progress(a) /\ Takes(a, r) /\ Sends(a, <<>>)
    BY <1>2, <1>3, NoMessages DEF Progress, Takes, Sends
  <1>5. OnlyPrimary(a, o)
    BY <1>2 DEF OnlyPrimary
  <1>6. primary_state[a] # 4 /\ primary_state[a] # 23 /\ primary_state[a] # 24
    BY <1>3
  <1>7. Moves(a, o, r, <<>>)
    BY <1>4, <1>5, <1>6 DEF Moves
  <1> QED
    BY <1>7, Moved

LEMMA PrimarySetupRoles ==
  ASSUME RoleInv, TypeOK', NEW a \in Earbuds, NEW o \in Earbuds, o # a, PrimarySetup(a)
  PROVE  RoleInv'
  <1>1. PICK received \in 0 .. Len(inbox[a]) :
           Exchange(a, SubSeq(inbox[a], received + 1, Len(inbox[a])), <<>>)
    BY DEF PrimarySetup
  <1>2. Passes(a, o, received, <<>>)
    BY <1>1, ExchangePasses, NoMessages DEF RoleInv
  <1>3. primary_state' = [primary_state EXCEPT ![a] = 2]
    BY Positions DEF PrimarySetup
  <1>4. /\ UNCHANGED <<secondaryVars, is_primary, session_id, seen>>
        /\ primary_state[a] = 0 /\ is_primary[a] /\ ~waiting[a] /\ session_id[a] < MaxSessions
    BY DEF PrimarySetup
  <1> QED
    BY <1>2, <1>3, <1>4, OtherMoves

LEMMA WaitForStartCfmRoles ==
  ASSUME RoleInv, TypeOK', NEW a \in Earbuds, NEW o \in Earbuds, o # a, WaitForStartCfm(a)
  PROVE  RoleInv'
  <1> DEFINE m == Head(inbox[a])
             ok == IsAnswer(a, m)
  <1>1. TypeOK
    BY DEF RoleInv
  <1>2. primary_state[a] = 5
    <2>1. primary_state[a] \in 1 .. 26 /\ States[primary_state[a]] = "wait_for_start_cfm"
      BY <1>1, Position DEF WaitForStartCfm
    <2> QED
      BY <2>1, MarshallingStates
  <1>3. /\ UNCHANGED secondaryVars /\ is_primary' = is_primary /\ session_id' = session_id
        /\ inbox[a] # <<>>
    BY DEF WaitForStartCfm
  <1>4. /\ primary_state[a] \in 1 .. 23 /\ primary_state[a] \in 1 .. 25
        /\ primary_state[a] \notin {4, 23, 24}
    BY <1>2
  <1>5. CASE ok /\ ~m.accepted
    <2>1. Fail(a, Tail(inbox[a]), <<>>, {}) /\ UNCHANGED seen
      BY <1>5 DEF WaitForStartCfm
    <2>2. \A i \in 1 .. Len(<<>>) :
             primary_state[a] = 6 /\ i <= Others + 1 /\ <<>>[i].type = "P1_DATA"
      BY NoMessages
    <2>3. Tail(inbox[a]) = Tail(inbox[a]) /\ <<>> \in Seq(Messages)
      BY NoMessages
    <2> QED
      BY <1>2, <1>3, <1>4, <2>1, <2>2, <2>3, FailMoves
  <1>6. CASE ~(ok /\ ~m.accepted)
    <2>1. Exchange(a, Tail(inbox[a]), <<>>)
      BY <1>6 DEF WaitForStartCfm
    <2>2. Passes(a, o, 1, <<>>) /\ 1 \in 1 .. Len(inbox[a]) /\ m = inbox[a][1]
      BY <1>1, <1>3, <2>1, NoMessages, TakesOne
    <2>3. CASE ok
      <3>1. Advance(a) /\ seen' = [seen EXCEPT ![a].unacked = FALSE]
        BY <1>6, <2>3 DEF WaitForStartCfm
      <3>2. Confirms(inbox[a][1], session_id[a])
        BY <1>6, <2>2, <2>3 DEF Confirms, IsAnswer
      <3>3. primary_state'[a] = 6
        BY <1>1, <1>2, <3>1 DEF Advance, TypeOK
      <3>4. Takes(a, 1) /\ Sends(a, <<>>)
        BY <1>2, <2>2, <3>2, <3>3, NoMessages DEF Takes, Sends
      <3> QED
        BY <1>2, <1>3, <1>4, <2>2, <3>1, <3>4, AdvanceMoves
    <2>4. CASE ~ok
      <3>1. UNCHANGED <<primary_state, seen>>
        BY <1>6, <2>4 DEF WaitForStartCfm
      <3>2. primary_state' = [primary_state EXCEPT ![a] = 5]
        BY <1>1, <1>2, <3>1 DEF TypeOK
      <3>3. UNCHANGED <<secondaryVars, is_primary, session_id, seen>>
        BY <1>3, <3>1
      <3> QED
        BY <1>2, <2>2, <3>2, <3>3, OtherMoves
    <2> QED
      BY <2>3, <2>4
  <1> QED
    BY <1>5, <1>6

LEMMA WaitForUnmarshalP1CfmRoles ==
  ASSUME RoleInv, TypeOK', NEW a \in Earbuds, NEW o \in Earbuds, o # a, WaitForUnmarshalP1Cfm(a)
  PROVE  RoleInv'
  <1>1. TypeOK
    BY DEF RoleInv
  <1>2. primary_state[a] = 7
    <2>1. primary_state[a] \in 1 .. 26 /\ States[primary_state[a]] = "wait_for_marshal_data_cfm"
      BY <1>1, Position DEF WaitForUnmarshalP1Cfm
    <2> QED
      BY <2>1, MarshallingStates
  <1>3. UNCHANGED <<secondaryVars, is_primary, session_id, seen>>
    BY DEF WaitForUnmarshalP1Cfm
  <1>4. Passes(a, o, 1, <<>>) /\ 1 \in 1 .. Len(inbox[a]) /\ Head(inbox[a]) = inbox[a][1]
    BY <1>1, NoMessages, TakesOne DEF WaitForUnmarshalP1Cfm
  <1>5. CASE Head(inbox[a]).type = "UNMARSHAL_P1_CFM"
    <2>1. Advance(a)
      BY <1>5 DEF WaitForUnmarshalP1Cfm
    <2>2. primary_state'[a] = 8
      BY <1>1, <1>2, <2>1 DEF Advance, TypeOK
    <2>3. Takes(a, 1) /\ Sends(a, <<>>)
      BY <1>2, <1>4, <1>5, <2>2, NoMessages DEF Takes, Sends
    <2>4. primary_state[a] \in 1 .. 25 /\ primary_state[a] \notin {4, 24}
      BY <1>2
    <2> QED
      BY <1>3, <1>4, <2>1, <2>3, <2>4, AdvanceMoves
  <1>6. CASE Head(inbox[a]).type # "UNMARSHAL_P1_CFM"
    <2>1. primary_state' = primary_state
      BY <1>6 DEF WaitForUnmarshalP1Cfm
    <2>2. primary_state' = [primary_state EXCEPT ![a] = 7]
      BY <1>1, <1>2, <2>1 DEF TypeOK
    <2> QED
      BY <1>2, <1>3, <1>4, <2>2, OtherMoves
  <1> QED
    BY <1>5, <1>6

LEMMA ProtocolTimeoutRoles ==
  ASSUME RoleInv, TypeOK', NEW a \in Earbuds, NEW o \in Earbuds, o # a, ProtocolTimeout(a)
  PROVE  RoleInv'
  <1>1. primary_state[a] \in {5, 7}
    <2>1. TypeOK
      BY DEF RoleInv
    <2>2. PICK s \in {"wait_for_start_cfm", "wait_for_marshal_data_cfm"} : InState(a, s)
      BY DEF ProtocolTimeout
    <2>3. primary_state[a] \in 1 .. 26 /\ States[primary_state[a]] = s
      BY <2>1, <2>2, Position
    <2> QED
      BY <2>2, <2>3, MarshallingStates
  <1>2. primary_state[a] \in 1 .. 22 /\ primary_state[a] # 4
    BY <1>1
  <1> QED
    BY <1>2, SilentFail DEF ProtocolTimeout

LEMMA SendP1MarshalDataRoles ==
  ASSUME RoleInv, TypeOK', NEW a \in Earbuds, NEW o \in Earbuds, o # a, SendP1MarshalData(a)
  PROVE  RoleInv'
  <1> DEFINE data(n) == [k \in 1 .. n |-> [type |-> "P1_DATA"]]
  <1>1. TypeOK /\ Others \in Nat
    BY Numbers DEF RoleInv
  <1>2. primary_state[a] = 6
    <2>1. primary_state[a] \in 1 .. 26 /\ States[primary_state[a]] = "send_p1_marshal_data"
      BY <1>1, Position DEF SendP1MarshalData
    <2> QED
      BY <2>1, MarshallingStates
  <1>3. UNCHANGED <<secondaryVars, is_primary, session_id, seen>>
    BY DEF SendP1MarshalData
  <1>4. PICK n \in 0 .. Others + 1 :
           IF n = Others + 1
           THEN Exchange(a, inbox[a], data(n)) /\ Advance(a)
           ELSE Fail(a, inbox[a], data(n), {"send_p1_marshal_data"})
    BY DEF SendP1MarshalData
  <1>5. n \in Nat /\ n <= Others + 1
    BY <1>1
  <1>6. /\ data(n) \in Seq(Messages) /\ Len(data(n)) = n
        /\ \A i \in 1 .. n : data(n)[i].type = "P1_DATA"
    <2>1. [type |-> "P1_DATA"] \in Messages
      BY DEF Messages
    <2> QED
      BY <1>5, <2>1
  <1>7. \A i \in 1 .. n : i <= Others + 1
    BY <1>1, <1>5
  <1> HIDE DEF data
  <1>8. CASE n = Others + 1
    <2>1. Passes(a, o, 0, data(n))
      BY <1>1, <1>4, <1>6, <1>8, TakesNone
    <2>2. primary_state'[a] = 7
      BY <1>1, <1>2, <1>4, <1>8 DEF Advance, TypeOK
    <2>3. Takes(a, 0) /\ Sends(a, data(n))
      BY <1>2, <1>6, <1>8, <2>2 DEF Takes, Sends
    <2>4. primary_state[a] \in 1 .. 25 /\ primary_state[a] \notin {4, 24}
      BY <1>2
    <2> QED
      BY <1>3, <1>4, <1>8, <2>1, <2>3, <2>4, AdvanceMoves
  <1>9. CASE n # Others + 1
    <2>1. Fail(a, inbox[a], data(n), {"send_p1_marshal_data"})
      BY <1>4, <1>9
    <2>2. \A i \in 1 .. Len(data(n)) :
             primary_state[a] = 6 /\ i <= Others + 1 /\ data(n)[i].type = "P1_DATA"
      BY <1>2, <1>6, <1>7
    <2>3. /\ primary_state[a] \in 1 .. 23 /\ primary_state[a] \notin {4, 23}
          /\ inbox[a] = inbox[a]
      BY <1>2
    <2> QED
      BY <1>3, <1>6, <2>1, <2>2, <2>3, FailMoves
  <1> QED
    BY <1>8, <1>9

LEMMA SendBtStackMarshalDataRoles ==
  ASSUME RoleInv, TypeOK', NEW a \in Earbuds, NEW o \in Earbuds, o # a, SendBtStackMarshalData(a)
  PROVE  RoleInv'
  <1>1. TypeOK /\ Others \in Nat
    BY Numbers DEF RoleInv
  <1>2. UNCHANGED <<secondaryVars, is_primary, session_id, seen>> /\ Advance(a)
    BY DEF SendBtStackMarshalData
  <1>3. primary_state'[a] = primary_state[a] + 1
    BY <1>1, <1>2 DEF Advance, TypeOK
  <1>4. ASSUME NEW data \in Seq(Messages), Exchange(a, inbox[a], data), Sends(a, data),
               primary_state[a] \in {14, 22}
        PROVE  RoleInv'
    <2>1. Passes(a, o, 0, data)
      BY <1>1, <1>4, TakesNone
    <2>2. Takes(a, 0)
      BY <1>4 DEF Takes
    <2>3. primary_state[a] \in 1 .. 25 /\ primary_state[a] \notin {4, 24}
      BY <1>4
    <2> QED
      BY <1>2, <1>4, <2>1, <2>2, <2>3, AdvanceMoves
  <1>5. CASE InState(a, "send_inactive_marshal_data")
             /\ Exchange(a, inbox[a], [k \in 1 .. Others |-> [type |-> "BT_DATA", mirrored |-> FALSE]])
    <2> DEFINE data == [k \in 1 .. Others |-> [type |-> "BT_DATA", mirrored |-> FALSE]]
    <2>1. primary_state[a] = 14
      <3>1. primary_state[a] \in 1 .. 26 /\ States[primary_state[a]] = "send_inactive_marshal_data"
        BY <1>1, <1>5, Position
      <3> QED
        BY <3>1, MarshallingStates
    <2>2. [type |-> "BT_DATA", mirrored |-> FALSE] \in Messages
      BY DEF Messages
    <2>3. /\ data \in Seq(Messages) /\ Len(data) = Others
          /\ \A i \in 1 .. Len(data) : data[i].type = "BT_DATA" /\ ~data[i].mirrored
      BY <1>1, <2>2
    <2> HIDE DEF data
    <2>4. Sends(a, data)
      BY <1>3, <2>1, <2>3 DEF Sends
    <2> QED
      BY <1>4, <1>5, <2>1, <2>3, <2>4 DEF data
  <1>6. CASE InState(a, "send_active_marshal_data")
             /\ Exchange(a, inbox[a], <<[type |-> "BT_DATA", mirrored |-> TRUE]>>)
    <2> DEFINE data == <<[type |-> "BT_DATA", mirrored |-> TRUE]>>
    <2>1. primary_state[a] = 22
      <3>1. primary_state[a] \in 1 .. 26 /\ States[primary_state[a]] = "send_active_marshal_data"
        BY <1>1, <1>6, Position
      <3> QED
        BY <3>1, MarshallingStates
    <2>2. [type |-> "BT_DATA", mirrored |-> TRUE] \in Messages
      BY DEF Messages
    <2>3. /\ data \in Seq(Messages) /\ Len(data) = 1
          /\ data[1].type = "BT_DATA" /\ data[1].mirrored
      BY <2>2
    <2> HIDE DEF data
    <2>4. Sends(a, data)
      BY <1>3, <2>1, <2>3 DEF Sends
    <2> QED
      BY <1>4, <1>6, <2>1, <2>3, <2>4 DEF data
  <1> QED
    BY <1>5, <1>6 DEF SendBtStackMarshalData

LEMMA ClearPendingPeerDataRoles ==
  ASSUME RoleInv, TypeOK', NEW a \in Earbuds, NEW o \in Earbuds, o # a, ClearPendingPeerData(a)
  PROVE  RoleInv'
  <1>1. primary_state[a] = 23
    <2>1. primary_state[a] \in 1 .. 26 /\ States[primary_state[a]] = "clear_pending_peer_data"
      BY Position DEF ClearPendingPeerData, RoleInv
    <2> QED
      BY <2>1, MarshallingStates
  <1>2. /\ UNCHANGED <<is_primary, session_id, secondaryVars>>
        /\ primary_state[a] \in 1 .. 25 /\ primary_state[a] \in 1 .. 23
        /\ primary_state[a] \notin {4, 5, 6, 7, 14, 22, 24}
    BY <1>1 DEF ClearPendingPeerData
  <1>3. CASE Advance(a) /\ UNCHANGED <<inbox, seen>>
    BY <1>2, <1>3, SilentAdvance
  <1>4. CASE Fail(a, inbox[a], <<>>, {}) /\ seen' = [seen EXCEPT ![a].unacked = TRUE]
    <2>1. \A i \in 1 .. Len(<<>>) :
             primary_state[a] = 6 /\ i <= Others + 1 /\ <<>>[i].type = "P1_DATA"
      BY NoMessages
    <2>2. inbox[a] = inbox[a] /\ <<>> \in Seq(Messages)
      BY NoMessages
    <2> QED
      BY <1>1, <1>2, <1>4, <2>1, <2>2, FailMoves
  <1> QED
    BY <1>3, <1>4 DEF ClearPendingPeerData

LEMMA CommitSecondaryRoleRoles ==
  ASSUME RoleInv, TypeOK', NEW a \in Earbuds, NEW o \in Earbuds, o # a, CommitSecondaryRole(a)
  PROVE  RoleInv'
  <1>1. primary_state[a] = 24
    <2>1. primary_state[a] \in 1 .. 26 /\ States[primary_state[a]] = "commit_to_secondary_role"
      BY Position DEF CommitSecondaryRole, RoleInv
    <2> QED
      BY <2>1, StateTable
  <1>2. /\ UNCHANGED <<secondaryVars, inbox, session_id, seen>> /\ Advance(a)
        /\ is_primary' = [is_primary EXCEPT ![a] = FALSE]
        /\ primary_state[a] \in 1 .. 25 /\ primary_state[a] # 4
    BY <1>1 DEF CommitSecondaryRole
  <1>3. Passes(a, o, 0, <<>>)
    BY <1>2, PassesNothing DEF RoleInv
  <1>4. Takes(a, 0) /\ Sends(a, <<>>)
    BY <1>1, NoMessages DEF Takes, Sends
  <1> QED
    BY <1>1, <1>2, <1>3, <1>4, AdvanceMoves

LEMMA PerformanceRelinquishRoles ==
  ASSUME RoleInv, TypeOK', NEW a \in Earbuds, NEW o \in Earbuds, o # a, PerformanceRelinquish(a)
  PROVE  RoleInv'
  <1>1. primary_state[a] = 25
    <2>1. primary_state[a] \in 1 .. 26 /\ States[primary_state[a]] = "performance_relinquish"
      BY Position DEF PerformanceRelinquish, RoleInv
    <2> QED
      BY <2>1, StateTable
  <1>2. primary_state[a] \in 1 .. 25 /\ primary_state[a] \notin {4, 5, 6, 7, 14, 22, 24}
    BY <1>1
  <1> QED
    BY <1>2, SilentAdvance DEF PerformanceRelinquish

LEMMA PrimaryCleanupRoles ==
  ASSUME RoleInv, TypeOK', NEW a \in Earbuds, NEW o \in Earbuds, o # a, PrimaryCleanup(a)
  PROVE  RoleInv'
  <1>1. primary_state[a] = 26
    <2>1. primary_state[a] \in 1 .. 26 /\ States[primary_state[a]] = "cleanup"
      BY Position DEF PrimaryCleanup, RoleInv
    <2> QED
      BY <2>1, StateTable
  <1>2. Passes(a, o, 0, <<>>)
    BY PassesNothing DEF RoleInv, PrimaryCleanup
  <1>3. /\ UNCHANGED <<secondaryVars, is_primary, session_id, seen>>
        /\ primary_state' = [primary_state EXCEPT ![a] = 0]
    BY DEF PrimaryCleanup
  <1> QED
    BY <1>1, <1>2, <1>3, OtherMoves

LEMMA HandoverAsPrimaryRoles ==
  ASSUME RoleInv, TypeOK', NEW a \in Earbuds, NEW o \in Earbuds, o # a, HandoverAsPrimary(a)
  PROVE  RoleInv'
  BY MayProceedRoles, SendStartReqRoles, WaitForStartCfmRoles, WaitForUnmarshalP1CfmRoles,
     ProtocolTimeoutRoles, SendP1MarshalDataRoles, PerformanceRequestRoles, WorkOnLinksRoles,
     SendBtStackMarshalDataRoles, ClearPendingPeerDataRoles, CommitSecondaryRoleRoles,
     PerformanceRelinquishRoles, PrimaryCleanupRoles DEF HandoverAsPrimary

(* The channel to an earbud that handles a message of its peer, or waits   *)
(* for one in vain, and accepts nothing.                                   *)
LEMMA ToSecondary ==
  ASSUME RoleInv, NEW a \in Earbuds, NEW o \in Earbuds, o # a, OnlySecondary(a, o),
         NEW r \in {0, 1}, NEW sent, Passes(a, o, r, sent),
         seen'[a].accepted = seen[a].accepted,
         \A i \in 1 .. Len(sent) :
             sent[i].type = "UNMARSHAL_P1_CFM" \/ (sent[i].type = "START_CFM" /\ ~sent[i].accepted),
         is_primary'[a] => \A i \in 1 .. Len(inbox'[a]) : ~IsData(inbox'[a][i])
  PROVE  /\ Sessions(o, a)' /\ Roles(o, a)' /\ DataInTurn(o, a)'
         /\ Accepted(o)' <=> Accepted(o)
  <1>1. TypeOK /\ From(o, a) /\ From(a, o)
    BY DEF RoleInv
  <1>2. /\ \A i \in 1 .. Len(inbox'[o]) :
              inbox'[o][i].type = "START_CFM" /\ inbox'[o][i].accepted =>
                  i \in 1 .. Len(inbox[o]) /\ inbox'[o][i] = inbox[o][i]
        /\ \A i \in 1 .. Len(inbox[o]) : i \in 1 .. Len(inbox'[o]) /\ inbox'[o][i] = inbox[o][i]
    BY DEF Passes
  <1>3. /\ \A i \in 1 .. Len(inbox'[a]) :
              i + r \in 1 .. Len(inbox[a]) /\ inbox'[a][i] = inbox[a][i + r]
        /\ Len(inbox'[a]) + r = Len(inbox[a]) /\ r \in Nat
        /\ Len(inbox'[a]) \in Nat /\ Len(inbox[a]) \in Nat
    BY DEF Passes
  <1>4. /\ primary_state'[o] = primary_state[o] /\ session_id'[o] = session_id[o]
        /\ is_primary'[o] = is_primary[o] /\ seen'[o] = seen[o] /\ waiting'[o] = waiting[o]
        /\ secondary_state'[o] = secondary_state[o] /\ primary_state'[a] = 0
    BY DEF OnlySecondary, primaryVars
  <1>5. Sessions(o, a)'
    <2>1. Sessions(o, a)
      BY <1>1 DEF From
    <2>2. ASSUME NEW i \in 1 .. Len(inbox'[a]), inbox'[a][i].type = "START_REQ"
          PROVE  /\ seen[a].accepted < inbox'[a][i].session
                 /\ inbox'[a][i].session <= session_id[o]
                 /\ primary_state[o] = 5 /\ inbox'[a][i].session = session_id[o] =>
                        i = Len(inbox'[a])
                 /\ is_primary[o]
      <3>1. i + r = Len(inbox[a]) => i = Len(inbox'[a])
        BY <1>3
      <3> QED
        BY <1>3, <2>1, <2>2, <3>1 DEF Sessions
    <2>3. ASSUME NEW i \in 1 .. Len(inbox'[a]), NEW j \in 1 .. Len(inbox'[a]), i < j,
                 inbox'[a][i].type = "START_REQ", inbox'[a][j].type = "START_REQ"
          PROVE  inbox'[a][i].session < inbox'[a][j].session
      <3>1. i + r < j + r
        BY <1>3, <2>3
      <3> QED
        <4>1. /\ i + r \in 1 .. Len(inbox[a]) /\ inbox'[a][i] = inbox[a][i + r]
              /\ j + r \in 1 .. Len(inbox[a]) /\ inbox'[a][j] = inbox[a][j + r]
          BY <1>3
        <4>2. \A x, y \in 1 .. Len(inbox[a]) :
                 x < y /\ inbox[a][x].type = "START_REQ" /\ inbox[a][y].type = "START_REQ" =>
                     inbox[a][x].session < inbox[a][y].session
          BY <2>1 DEF Sessions
        <4> QED
          BY ONLY <2>3, <3>1, <4>1, <4>2
    <2>4. \A i \in 1 .. Len(inbox'[o]) : inbox'[o][i].type = "START_CFM" /\ inbox'[o][i].accepted =>
             inbox'[o][i].session <= seen[a].accepted
      BY <1>2, <2>1 DEF Sessions
    <2> QED
      BY <1>4, <2>1, <2>2, <2>3, <2>4 DEF Sessions
  <1>6. Accepted(o)' <=> Accepted(o)
    BY <1>2, <1>4 DEF Accepted, Confirms
  <1>7. Roles(o, a)'
    <2>1. ~Accepted(a)'
      BY <1>4 DEF Accepted
    <2> QED
      BY <1>1, <1>4, <2>1 DEF From, Roles
  <1>8. DataInTurn(o, a)'
    <2>1. SUFFICES ASSUME NEW i \in 1 .. Len(inbox'[a]), IsData(inbox'[a][i])
                   PROVE  /\ ~is_primary'[a]
                          /\ secondary_state[o] = "idle"
                          /\ \A j \in 1 .. i : IsData(inbox'[a][j])
                          /\ inbox'[a][i].type = "BT_DATA" /\ inbox'[a][i].mirrored =>
                                primary_state[o] > 22 \/ seen[o].unacked \/ ~is_primary[o]
      BY <1>4 DEF DataInTurn
    <2>2. i + r \in 1 .. Len(inbox[a]) /\ inbox'[a][i] = inbox[a][i + r]
      BY <1>3
    <2>3. /\ secondary_state[o] = "idle"
          /\ \A j \in 1 .. i + r : IsData(inbox[a][j])
          /\ inbox[a][i + r].type = "BT_DATA" /\ inbox[a][i + r].mirrored =>
                primary_state[o] > 22 \/ seen[o].unacked \/ ~is_primary[o]
      BY <1>1, <2>1, <2>2 DEF From, DataInTurn
    <2>4. ASSUME NEW j \in 1 .. i PROVE IsData(inbox'[a][j])
      <3>1. j \in 1 .. Len(inbox'[a]) /\ j + r \in 1 .. i + r
        BY <1>3
      <3> QED
        BY <1>3, <2>3, <3>1
    <2> QED
      BY <2>1, <2>2, <2>3, <2>4
  <1> QED
    BY <1>5, <1>6, <1>7, <1>8

(* Nothing is waiting at the other end but what was there. *)
LEMMA Handled ==
  ASSUME RoleInv, TypeOK', NEW a \in Earbuds, NEW o \in Earbuds, o # a, OnlySecondary(a, o),
         NEW r, NEW sent, Passes(a, o, r, sent),
         \A i \in 1 .. Len(sent) : sent[i].type \in {"START_CFM", "UNMARSHAL_P1_CFM"},
         \/ secondary_state'[a] = "idle" /\ is_primary'[a] = is_primary[a]
         \/ secondary_state[a] # "idle"
         \/ is_primary[o],
         From(o, a)',
         TakenOver(a) /\ ~is_primary[o] => TakenOver(a)',
         is_primary'[a] /\ is_primary[o] =>
             is_primary[a] \/ primary_state[o] \in 23 .. 24 \/ seen[o].unacked
  PROVE  RoleInv'
  <1>1. From(a, o)'
    BY FromSecondary
  <1>2. Earbuds = {a, o}
    BY ThePeer
  <1>3. \A e, p \in Earbuds : e # p => From(e, p)'
    BY <1>1, <1>2
  <1>4. /\ is_primary'[o] = is_primary[o] /\ seen'[o] = seen[o] /\ waiting'[o] = waiting[o]
        /\ secondary_state'[o] = secondary_state[o] /\ bt_left'[o] = bt_left[o]
        /\ primary_state' = primary_state
        /\ is_primary[a] => is_primary'[a]
        /\ seen'[a].unacked = seen[a].unacked
    BY DEF OnlySecondary, primaryVars
  <1>5. SomePrimary'
    <2>1. SUFFICES ASSUME \A e \in Earbuds : ~is_primary'[e]
                   PROVE  \E p \in Earbuds : TakenOver(p)'
      BY DEF SomePrimary
    <2>2. ~is_primary[o] /\ ~is_primary[a]
      BY <1>4, <2>1
    <2>3. TakenOver(a) \/ TakenOver(o)
      BY <1>2, <2>2 DEF RoleInv, SomePrimary
    <2>4. CASE TakenOver(a)
      BY <2>2, <2>4
    <2>5. CASE TakenOver(o)
      <3>1. \/ seen[o].gave_up
            \/ /\ HasRequested(o) /\ waiting[o] /\ bt_left[o] + 1 <= Len(inbox[o])
               /\ inbox[o][bt_left[o] + 1].type = "BT_DATA"
        BY <2>2, <2>5 DEF TakenOver
      <3>2. CASE seen[o].gave_up
        BY <1>4, <3>2 DEF TakenOver
      <3>3. CASE /\ HasRequested(o) /\ waiting[o] /\ bt_left[o] + 1 <= Len(inbox[o])
                 /\ inbox[o][bt_left[o] + 1].type = "BT_DATA"
        <4>1. bt_left[o] + 1 \in 1 .. Len(inbox[o])
          BY <3>3, Numbers DEF RoleInv
        <4>2. /\ inbox'[o][bt_left[o] + 1] = inbox[o][bt_left[o] + 1]
              /\ bt_left[o] + 1 \in 1 .. Len(inbox'[o])
          BY <4>1 DEF Passes
        <4>3. bt_left[o] + 1 <= Len(inbox'[o])
          BY <4>2
        <4>4. HasRequested(o)'
          BY <1>4, <3>3 DEF HasRequested
        <4> QED
          BY <1>4, <3>3, <4>2, <4>3, <4>4 DEF TakenOver
      <3> QED
        BY <3>1, <3>2, <3>3
    <2> QED
      BY <2>3, <2>4, <2>5
  <1>6. TwoPrimaries'
    <2>1. SUFFICES ASSUME \A e \in Earbuds : is_primary'[e]
                   PROVE  \E e \in Earbuds : seen'[e].unacked \/ primary_state[e] \in 23 .. 24
      BY <1>4 DEF TwoPrimaries
    <2>2. is_primary'[a] /\ is_primary[o]
      BY <1>4, <2>1
    <2>3. CASE is_primary[a]
      <3>1. \A e \in Earbuds : is_primary[e]
        BY <1>2, <2>2, <2>3
      <3>2. PICK e \in Earbuds : seen[e].unacked \/ primary_state[e] \in 23 .. 24
        BY <3>1 DEF RoleInv, TwoPrimaries
      <3> QED
        BY <1>2, <1>4, <3>2
    <2>4. CASE primary_state[o] \in 23 .. 24 \/ seen[o].unacked
      BY <1>4, <2>4
    <2> QED
      BY <2>2, <2>3, <2>4
  <1> QED
    BY <1>3, <1>5, <1>6 DEF RoleInv

LEMMA NoneSent ==
  ASSUME NEW a, NEW o, NEW r, Passes(a, o, r, <<>>)
  PROVE  /\ Len(inbox'[o]) = Len(inbox[o])
         /\ \A i \in 1 .. Len(inbox'[o]) : i \in 1 .. Len(inbox[o]) /\ inbox'[o][i] = inbox[o][i]
  <1>1. Len(inbox[o]) \in Nat /\ Len(<<>>) = 0 /\ Len(inbox'[o]) = Len(inbox[o]) + Len(<<>>)
    BY NoMessages DEF Passes
  <1>2. Len(inbox'[o]) = Len(inbox[o])
    BY <1>1
  <1> QED
    BY <1>2 DEF Passes

(* The secondary comes to an end of its session, or drops data after that. *)
LEMMA Stops ==
  ASSUME RoleInv, TypeOK', NEW a \in Earbuds, NEW o \in Earbuds, o # a, OnlySecondary(a, o),
         NEW r \in {0, 1}, Passes(a, o, r, <<>>), r = 1 => secondary_state[a] = "idle",
         secondary_state'[a] = "idle", is_primary' = is_primary,
         seen'[a].accepted = seen[a].accepted, seen'[a].unmarshalled = seen[a].unmarshalled,
         seen'[a].gave_up <=> seen[a].gave_up \/ HasRequested(a)
  PROVE  RoleInv'
  <1>1. From(o, a) /\ From(a, o)
    BY DEF RoleInv
  <1>2. /\ \A i \in 1 .. Len(inbox'[a]) :
              i + r \in 1 .. Len(inbox[a]) /\ inbox'[a][i] = inbox[a][i + r]
        /\ Len(inbox'[a]) + r = Len(inbox[a]) /\ r \in Nat
        /\ Len(inbox'[a]) \in Nat /\ Len(inbox[a]) \in Nat
    BY DEF Passes
  <1>3. \A i \in 1 .. Len(inbox'[o]) : i \in 1 .. Len(inbox[o]) /\ inbox'[o][i] = inbox[o][i]
    BY NoneSent
  <1>4. is_primary'[a] => \A i \in 1 .. Len(inbox'[a]) : ~IsData(inbox'[a][i])
    BY <1>1, <1>2 DEF From, DataInTurn
  <1>5. \A i \in 1 .. Len(<<>>) : FALSE
    BY NoMessages
  <1>6. /\ Sessions(o, a)' /\ Roles(o, a)' /\ DataInTurn(o, a)'
        /\ Accepted(o)' <=> Accepted(o)
    BY <1>4, <1>5, ToSecondary
  <1>7. ~HasRequested(a)' /\ secondary_state'[a] \notin {"setup", "p1_data"}
    BY DEF HasRequested
  <1>8. DataFits(a)'
    BY <1>7 DEF DataFits
  <1>9. primary_state'[o] = primary_state[o] /\ session_id'[o] = session_id[o]
    BY DEF OnlySecondary, primaryVars
  <1>10. Ready(a) => GaveUp(a)'
    BY DEF Ready, GaveUp
  <1>11. ASSUME Accepted(o), primary_state[o] <= 22
         PROVE  /\ ~is_primary'[a]
                /\ \A i \in 1 .. Len(inbox'[a]) : IsData(inbox'[a][i])
                /\ Opened(o, a)' /\ Marshalled(o, a)' /\ Confirmed(o, a)'
    <2>1. /\ ~is_primary[a] /\ \A i \in 1 .. Len(inbox[a]) : IsData(inbox[a][i])
          /\ Opened(o, a) /\ Marshalled(o, a) /\ Confirmed(o, a)
      BY <1>1, <1>11 DEF From, InSession
    <2>2. \A i \in 1 .. Len(inbox'[a]) : IsData(inbox'[a][i])
      BY <1>2, <2>1
    <2>3. Opened(o, a)'
      <3>1. SUFFICES ASSUME primary_state[o] <= 6
                     PROVE  /\ Len(inbox'[a]) = 0
                            /\ \A i \in 1 .. Len(inbox'[o]) :
                                  inbox'[o][i].type = "UNMARSHAL_P1_CFM" =>
                                      /\ primary_state[o] = 5
                                      /\ \A j \in 1 .. i : ~Confirms(inbox'[o][j], session_id[o])
        BY <1>9 DEF Opened
      <3>2. /\ Len(inbox[a]) = 0
            /\ \A i \in 1 .. Len(inbox[o]) : inbox[o][i].type = "UNMARSHAL_P1_CFM" =>
                  /\ primary_state[o] = 5
                  /\ \A j \in 1 .. i : ~Confirms(inbox[o][j], session_id[o])
        BY <2>1, <3>1 DEF Opened
      <3>3. Len(inbox'[a]) = 0
        BY <1>2, <3>2
      <3>4. Len(inbox[o]) \in Nat
        BY Numbers DEF RoleInv
      <3>5. \A i \in 1 .. Len(inbox[o]) : \A j \in 1 .. i :
               j \in 1 .. Len(inbox[o]) /\ inbox'[o][j] = inbox[o][j]
        BY <3>4 DEF Passes
      <3> QED
        BY <1>3, <3>2, <3>3, <3>5
    <2>4. Marshalled(o, a)'
      BY <1>2, <1>3, <1>7, <1>9, <1>10, <2>1 DEF Marshalled, Ready
    <2>5. Confirmed(o, a)'
      BY <1>7, <1>9, <1>10, <2>1 DEF Confirmed, Ready
    <2> QED
      BY <2>1, <2>2, <2>3, <2>4, <2>5
  <1>12. InSession(o, a)'
    BY <1>6, <1>9, <1>11 DEF InSession
  <1>13. Unmarshalled(o, a)'
    BY <1>1, <1>9 DEF From, Unmarshalled
  <1>14. TakenOver(a) => TakenOver(a)'
    BY DEF TakenOver
  <1>15. Committing(o, a)'
    BY <1>1, <1>9, <1>14 DEF From, Committing
  <1>16. From(o, a)'
    BY <1>6, <1>8, <1>12, <1>13, <1>15 DEF From
  <1> QED
    BY <1>5, <1>14, <1>16, Handled

(* A message that is no data, and accepts no session, finds no data after  *)
(* it either.                                                              *)
LEMMA Drops ==
  ASSUME RoleInv, TypeOK', NEW a \in Earbuds, NEW o \in Earbuds, o # a, OnlySecondary(a, o),
         NEW sent, Passes(a, o, 1, sent),
         \A i \in 1 .. Len(sent) : sent[i].type = "START_CFM" /\ ~sent[i].accepted,
         1 \in 1 .. Len(inbox[a]), ~IsData(inbox[a][1]), is_primary' = is_primary,
         \/ secondary_state'[a] = "idle"
         \/ secondary_state'[a] = secondary_state[a] /\ bt_left'[a] = bt_left[a],
         seen'[a].accepted = seen[a].accepted, seen'[a].unmarshalled = seen[a].unmarshalled,
         seen'[a].gave_up = seen[a].gave_up
  PROVE  RoleInv'
  <1>1. From(o, a) /\ From(a, o)
    BY DEF RoleInv
  <1>2. /\ \A i \in 1 .. Len(inbox'[a]) :
              i + 1 \in 1 .. Len(inbox[a]) /\ inbox'[a][i] = inbox[a][i + 1]
        /\ Len(inbox[a]) \in Nat
    BY DEF Passes
  <1>3. \A i \in 1 .. Len(inbox[a]) : ~IsData(inbox[a][i])
    <2>1. \A i \in 1 .. Len(inbox[a]) : 1 \in 1 .. i
      BY <1>2
    <2> QED
      BY <1>1, <2>1 DEF From, DataInTurn
  <1>4. \A i \in 1 .. Len(inbox'[a]) : ~IsData(inbox'[a][i])
    BY <1>2, <1>3
  <1>5. \A i \in 1 .. Len(sent) :
           sent[i].type = "UNMARSHAL_P1_CFM" \/ (sent[i].type = "START_CFM" /\ ~sent[i].accepted)
    OBVIOUS
  <1>6. /\ Sessions(o, a)' /\ Roles(o, a)' /\ DataInTurn(o, a)'
        /\ Accepted(o)' <=> Accepted(o)
    BY <1>4, <1>5, ToSecondary
  <1>7. DataFits(a)'
    <2>1. \A i \in 1 .. Len(inbox'[a]) : inbox'[a][i].type \notin {"P1_DATA", "BT_DATA"}
      BY <1>4 DEF IsData
    <2>2. CASE secondary_state'[a] = "idle"
      BY <2>2 DEF DataFits, HasRequested
    <2>3. CASE secondary_state'[a] = secondary_state[a] /\ bt_left'[a] = bt_left[a]
      <3>1. DataFits(a)
        BY <1>1 DEF From
      <3> QED
        BY <2>1, <2>3, <3>1 DEF DataFits, HasRequested
    <2> QED
      BY <2>2, <2>3
  <1>8. primary_state'[o] = primary_state[o] /\ session_id'[o] = session_id[o]
    BY DEF OnlySecondary, primaryVars
  <1>9. InSession(o, a)'
    <2>1. ~(Accepted(o) /\ primary_state[o] <= 22)
      BY <1>1 DEF From, InSession
    <2> QED
      BY <1>6, <1>8, <2>1 DEF InSession
  <1>10. Unmarshalled(o, a)'
    BY <1>1, <1>8 DEF From, Unmarshalled
  <1>11. TakenOver(a) => TakenOver(a)'
    <2>1. SUFFICES ASSUME TakenOver(a) PROVE is_primary[a] \/ seen[a].gave_up
      BY DEF TakenOver
    <2>2. ASSUME bt_left[a] + 1 <= Len(inbox[a]), inbox[a][bt_left[a] + 1].type = "BT_DATA"
          PROVE  FALSE
      <3>1. bt_left[a] + 1 \in 1 .. Len(inbox[a])
        BY <1>2, <2>2, Numbers DEF RoleInv
      <3> QED
        BY <1>3, <2>2, <3>1 DEF IsData
    <2> QED
      BY <2>1, <2>2 DEF TakenOver
  <1>12. Committing(o, a)'
    BY <1>1, <1>8, <1>11 DEF From, Committing
  <1>13. From(o, a)'
    BY <1>6, <1>7, <1>9, <1>10, <1>12 DEF From
  <1>14. \/ secondary_state'[a] = "idle" /\ is_primary'[a] = is_primary[a]
         \/ secondary_state[a] # "idle"
         \/ is_primary[o]
    OBVIOUS
  <1>15. \A i \in 1 .. Len(sent) : sent[i].type \in {"START_CFM", "UNMARSHAL_P1_CFM"}
    OBVIOUS
  <1> QED
    BY <1>11, <1>13, <1>14, <1>15, Handled

(* P1 data for the next handset; with the last of it comes the             *)
(* confirmation, which may not get into the sink.                          *)
LEMMA Unmarshals ==
  ASSUME RoleInv, TypeOK', NEW a \in Earbuds, NEW o \in Earbuds, o # a, OnlySecondary(a, o),
         NEW sent, Passes(a, o, 1, sent), is_primary' = is_primary, ~is_primary[a],
         1 \in 1 .. Len(inbox[a]), inbox[a][1].type = "P1_DATA",
         secondary_state[a] \in {"setup", "p1_data"}, waiting'[a],
         p1_left'[a] = p1_left[a] - 1, bt_left'[a] = bt_left[a],
         secondary_state'[a] = IF p1_left[a] = 1 THEN "unmarshalled" ELSE "p1_data",
         seen'[a].accepted = seen[a].accepted, seen'[a].gave_up = seen[a].gave_up,
         seen'[a].unmarshalled = IF p1_left[a] = 1 THEN seen[a].accepted ELSE seen[a].unmarshalled,
         \A i \in 1 .. Len(sent) : sent[i].type = "UNMARSHAL_P1_CFM" /\ p1_left[a] = 1
  PROVE  RoleInv'
  <1>1. From(o, a) /\ From(a, o)
    BY DEF RoleInv
  <1>2. /\ \A i \in 1 .. Len(inbox'[a]) :
              i + 1 \in 1 .. Len(inbox[a]) /\ inbox'[a][i] = inbox[a][i + 1]
        /\ Len(inbox'[a]) \in Nat /\ Len(inbox[a]) \in Nat
    BY DEF Passes
  <1>3. ~is_primary'[a]
    OBVIOUS
  <1>4. /\ Sessions(o, a)' /\ Roles(o, a)' /\ DataInTurn(o, a)'
        /\ Accepted(o)' <=> Accepted(o)
    BY <1>3, ToSecondary
  <1>5. p1_left[a] \in Nat /\ bt_left[a] = Others
    BY <1>1, Numbers DEF From, DataFits, RoleInv
  <1>6. \A i \in 1 .. Len(inbox'[a]) :
           /\ inbox'[a][i].type # "BT_DATA"
           /\ inbox'[a][i].type = "P1_DATA" => i + 1 <= p1_left[a]
    <2>1. \A i \in 1 .. Len(inbox[a]) :
             /\ inbox[a][i].type # "BT_DATA"
             /\ inbox[a][i].type = "P1_DATA" => i <= p1_left[a]
      BY <1>1 DEF From, DataFits
    <2> QED
      BY ONLY <1>2, <2>1
  <1>7. DataFits(a)'
    <2>1. CASE p1_left[a] = 1
      <3>1. \A i \in 1 .. Len(inbox'[a]) : inbox'[a][i].type \notin {"P1_DATA", "BT_DATA"}
        BY <1>6, <2>1
      <3> QED
        BY <2>1, <3>1 DEF DataFits, HasRequested
    <2>2. CASE p1_left[a] # 1
      <3>1. \A i \in 1 .. Len(inbox'[a]) :
               /\ inbox'[a][i].type # "BT_DATA"
               /\ inbox'[a][i].type = "P1_DATA" => i <= p1_left'[a]
        BY <1>5, <1>6
      <3>2. ~HasRequested(a)'
        BY <2>2 DEF HasRequested
      <3> QED
        BY <1>5, <3>1, <3>2 DEF DataFits
    <2> QED
      BY <2>1, <2>2
  <1>8. primary_state'[o] = primary_state[o] /\ session_id'[o] = session_id[o]
    BY DEF OnlySecondary, primaryVars
  <1>9. ~Ready(a) /\ ~HasRequested(a)
    BY DEF Ready, GaveUp, HasRequested
  <1>10. primary_state[o] \in 0 .. 26
    BY Typed DEF RoleInv
  <1>11. ASSUME Accepted(o), primary_state[o] <= 22
         PROVE  /\ \A i \in 1 .. Len(inbox'[a]) : IsData(inbox'[a][i])
                /\ primary_state[o] = 7 /\ Marshalled(o, a)'
    <2>1. /\ \A i \in 1 .. Len(inbox[a]) : IsData(inbox[a][i])
          /\ Opened(o, a) /\ Marshalled(o, a) /\ Confirmed(o, a)
      BY <1>1, <1>11 DEF From, InSession
    <2>2. primary_state[o] = 7
      <3>1. ~(primary_state[o] > 7)
        BY <1>9, <2>1 DEF Confirmed
      <3>2. ~(primary_state[o] <= 6)
        <4>1. Len(inbox[a]) # 0
          BY <1>2
        <4> QED
          BY <2>1, <4>1 DEF Opened
      <3> QED
        BY ONLY <1>10, <3>1, <3>2
    <2>3. seen[a].accepted = session_id[o]
      BY <1>1, <2>2 DEF From, Sessions
    <2>4. ASSUME NEW i \in 1 .. Len(inbox'[o]), inbox'[o][i].type = "UNMARSHAL_P1_CFM"
          PROVE  p1_left[a] = 1
      <3>1. i \notin 1 .. Len(inbox[o])
        <4>1. \A x \in 1 .. Len(inbox[o]) : inbox[o][x].type # "UNMARSHAL_P1_CFM"
          BY <1>9, <2>1, <2>2 DEF Marshalled
        <4> QED
          BY <2>4, <4>1 DEF Passes
      <3>2. i - Len(inbox[o]) \in 1 .. Len(sent)
        BY <3>1 DEF Passes
      <3> QED
        BY <3>2
    <2>5. p1_left[a] = 1 => Ready(a)' /\ seen'[a].unmarshalled = session_id[o]
      BY <2>3 DEF Ready, HasRequested
    <2>6. Marshalled(o, a)'
      BY <1>5, <1>6, <1>8, <2>4, <2>5 DEF Marshalled
    <2> QED
      BY <1>2, <2>1, <2>2, <2>6
  <1>12. InSession(o, a)'
    <2>1. primary_state[o] = 7 => Opened(o, a)' /\ Confirmed(o, a)'
      BY <1>8 DEF Opened, Confirmed
    <2> QED
      BY <1>3, <1>4, <1>8, <1>11, <2>1 DEF InSession
  <1>13. Unmarshalled(o, a)'
    <2>1. primary_state[o] > 7 => primary_state[o] > 5
      BY ONLY <1>10
    <2>2. primary_state[o] > 7 => seen[a].unmarshalled = session_id[o]
      BY <1>1 DEF From, Unmarshalled
    <2>3. primary_state[o] > 5 => seen[a].accepted = session_id[o]
      BY <1>1 DEF From, Sessions
    <2> QED
      BY <1>8, <2>1, <2>2, <2>3 DEF Unmarshalled
  <1>14. TakenOver(a) => TakenOver(a)'
    BY <1>9 DEF TakenOver
  <1>15. Committing(o, a)'
    BY <1>1, <1>8, <1>14 DEF From, Committing
  <1>16. From(o, a)'
    BY <1>4, <1>7, <1>12, <1>13, <1>15 DEF From
  <1>17. secondary_state[a] # "idle"
    OBVIOUS
  <1>18. \A i \in 1 .. Len(sent) : sent[i].type \in {"START_CFM", "UNMARSHAL_P1_CFM"}
    OBVIOUS
  <1> QED
    BY <1>3, <1>14, <1>16, <1>17, <1>18, Handled

(* Stack data for a handset beside the mirrored one. *)
LEMMA CountsDown ==
  ASSUME RoleInv, TypeOK', NEW a \in Earbuds, NEW o \in Earbuds, o # a, OnlySecondary(a, o),
         Passes(a, o, 1, <<>>), is_primary' = is_primary, ~is_primary[a],
         1 \in 1 .. Len(inbox[a]), inbox[a][1].type = "BT_DATA",
         HasRequested(a), bt_left[a] > 0, waiting'[a], bt_left'[a] = bt_left[a] - 1,
         secondary_state'[a] = "bt_data", seen'[a] = seen[a]
  PROVE  RoleInv'
  <1>1. From(o, a) /\ From(a, o)
    BY DEF RoleInv
  <1>2. /\ \A i \in 1 .. Len(inbox'[a]) :
              i + 1 \in 1 .. Len(inbox[a]) /\ inbox'[a][i] = inbox[a][i + 1]
        /\ Len(inbox'[a]) + 1 = Len(inbox[a])
        /\ Len(inbox'[a]) \in Nat /\ Len(inbox[a]) \in Nat
    BY DEF Passes
  <1>3. ~is_primary'[a] /\ \A i \in 1 .. Len(<<>>) : FALSE
    BY NoMessages
  <1>4. /\ Sessions(o, a)' /\ Roles(o, a)' /\ DataInTurn(o, a)'
        /\ Accepted(o)' <=> Accepted(o)
    BY <1>3, ToSecondary
  <1>5. bt_left[a] \in Nat /\ Others \in Nat /\ primary_state[o] \in 0 .. 26
    BY Numbers, Typed DEF RoleInv
  <1>6. HasRequested(a)' /\ secondary_state'[a] \notin {"setup", "p1_data"}
    BY DEF HasRequested
  <1>7. DataFits(a)'
    <2>1. ASSUME NEW i \in 1 .. Len(inbox'[a])
          PROVE  /\ inbox'[a][i].type # "P1_DATA"
                 /\ inbox'[a][i].type = "BT_DATA" =>
                       /\ i <= bt_left'[a] + 1
                       /\ inbox'[a][i].mirrored <=> i = bt_left'[a] + 1
      <3>1. /\ inbox[a][i + 1].type # "P1_DATA"
            /\ inbox[a][i + 1].type = "BT_DATA" =>
                  /\ i + 1 <= bt_left[a] + 1
                  /\ inbox[a][i + 1].mirrored <=> i + 1 = bt_left[a] + 1
        BY <1>1, <1>2 DEF From, DataFits
      <3>2. /\ i + 1 <= bt_left[a] + 1 => i <= bt_left'[a] + 1
            /\ i + 1 = bt_left[a] + 1 <=> i = bt_left'[a] + 1
        BY <1>2, <1>5
      <3> QED
        BY <1>2, <3>1, <3>2
    <2> QED
      BY <1>6, <2>1 DEF DataFits
  <1>8. primary_state'[o] = primary_state[o] /\ session_id'[o] = session_id[o]
    BY DEF OnlySecondary, primaryVars
  <1>9. Ready(a)'
    BY <1>6 DEF Ready
  <1>10. ASSUME Accepted(o), primary_state[o] <= 22
         PROVE  /\ \A i \in 1 .. Len(inbox'[a]) : IsData(inbox'[a][i])
                /\ primary_state[o] > 7 /\ Confirmed(o, a)'
    <2>1. /\ \A i \in 1 .. Len(inbox[a]) : IsData(inbox[a][i])
          /\ Opened(o, a) /\ Marshalled(o, a) /\ Confirmed(o, a)
      BY <1>1, <1>10 DEF From, InSession
    <2>2. primary_state[o] > 7
      <3>1. primary_state[o] # 7
        BY <2>1 DEF Marshalled
      <3>2. ~(primary_state[o] <= 6)
        <4>1. Len(inbox[a]) # 0
          BY <1>2
        <4> QED
          BY <2>1, <4>1 DEF Opened
      <3> QED
        BY ONLY <1>5, <3>1, <3>2
    <2>3. Len(inbox[a]) + ToSend(primary_state[o]) = bt_left[a]
      BY <2>1, <2>2 DEF Confirmed
    <2>4. Len(inbox'[a]) + ToSend(primary_state[o]) = bt_left'[a]
      <3>1. ToSend(primary_state[o]) \in Nat
        BY <1>5 DEF ToSend
      <3> QED
        BY <1>2, <1>5, <2>3, <3>1
    <2> QED
      BY <1>2, <1>8, <1>9, <2>1, <2>2, <2>4 DEF Confirmed
  <1>11. InSession(o, a)'
    <2>1. primary_state[o] > 7 => Opened(o, a)' /\ Marshalled(o, a)'
      <3>1. primary_state[o] > 7 => ~(primary_state[o] <= 6) /\ primary_state[o] # 7
        BY ONLY <1>5
      <3> QED
        BY <1>8, <3>1 DEF Opened, Marshalled
    <2> QED
      BY <1>3, <1>4, <1>8, <1>10, <2>1 DEF InSession
  <1>12. Unmarshalled(o, a)'
    BY <1>1, <1>8 DEF From, Unmarshalled
  <1>13. TakenOver(a) => TakenOver(a)'
    <2>1. CASE seen[a].gave_up
      BY <2>1 DEF TakenOver
    <2>2. CASE bt_left[a] + 1 <= Len(inbox[a]) /\ inbox[a][bt_left[a] + 1].type = "BT_DATA"
      <3>1. bt_left'[a] + 1 = bt_left[a] /\ bt_left[a] \in 1 .. Len(inbox'[a])
        BY <1>2, <1>5, <2>2
      <3>2. inbox'[a][bt_left[a]] = inbox[a][bt_left[a] + 1]
        BY <1>2, <3>1
      <3>3. bt_left'[a] + 1 <= Len(inbox'[a])
        BY <3>1
      <3> QED
        BY <1>6, <2>2, <3>1, <3>2, <3>3 DEF TakenOver
    <2> QED
      BY <2>1, <2>2 DEF TakenOver
  <1>14. Committing(o, a)'
    BY <1>1, <1>8, <1>13 DEF From, Committing
  <1>15. From(o, a)'
    BY <1>4, <1>7, <1>11, <1>12, <1>14 DEF From
  <1>16. secondary_state[a] # "idle"
    BY DEF HasRequested
  <1> QED
    BY <1>3, <1>13, <1>15, <1>16, Handled

(* The last stack data, which makes the secondary primary. *)
LEMMA TakesOver ==
  ASSUME RoleInv, TypeOK', NEW a \in Earbuds, NEW o \in Earbuds, o # a, OnlySecondary(a, o),
         Passes(a, o, 1, <<>>), is_primary'[a], ~is_primary[a],
         1 \in 1 .. Len(inbox[a]), inbox[a][1].type = "BT_DATA",
         HasRequested(a), ~(bt_left[a] > 0),
         secondary_state'[a] = "idle",
         seen'[a].accepted = seen[a].accepted, seen'[a].unmarshalled = seen[a].unmarshalled
  PROVE  RoleInv'
  <1>1. From(o, a) /\ From(a, o)
    BY DEF RoleInv
  <1>2. /\ \A i \in 1 .. Len(inbox'[a]) :
              i + 1 \in 1 .. Len(inbox[a]) /\ inbox'[a][i] = inbox[a][i + 1]
        /\ Len(inbox[a]) \in Nat
    BY DEF Passes
  <1>3. bt_left[a] = 0 /\ primary_state[o] \in 0 .. 26
    BY Numbers, Typed DEF RoleInv
  <1>4. \A i \in 1 .. Len(inbox[a]) :
           /\ inbox[a][i].type # "P1_DATA"
           /\ inbox[a][i].type = "BT_DATA" => i <= 1 /\ (inbox[a][i].mirrored <=> i = 1)
    BY <1>1, <1>3 DEF From, DataFits
  <1>5. \A i \in 1 .. Len(inbox'[a]) : ~IsData(inbox'[a][i])
    <2>1. \A i \in 1 .. Len(inbox'[a]) : ~(i + 1 <= 1)
      OBVIOUS
    <2> QED
      BY <1>2, <1>4, <2>1 DEF IsData
  <1>6. \A i \in 1 .. Len(<<>>) : FALSE
    BY NoMessages
  <1>7. /\ Sessions(o, a)' /\ Roles(o, a)' /\ DataInTurn(o, a)'
        /\ Accepted(o)' <=> Accepted(o)
    BY <1>5, <1>6, ToSecondary
  <1>8. primary_state'[o] = primary_state[o] /\ session_id'[o] = session_id[o]
    BY DEF OnlySecondary, primaryVars
  <1>9. DataFits(a)'
    BY DEF DataFits, HasRequested
  <1>10. ~(Accepted(o) /\ primary_state[o] <= 22)
    <2>1. SUFFICES ASSUME Accepted(o), primary_state[o] <= 22 PROVE FALSE
      OBVIOUS
    <2>2. Opened(o, a) /\ Marshalled(o, a) /\ Confirmed(o, a)
      BY <1>1, <2>1 DEF From, InSession
    <2>3. Len(inbox[a]) # 0
      BY <1>2
    <2>4. ~(primary_state[o] <= 6)
      BY <2>2, <2>3 DEF Opened
    <2>5. primary_state[o] # 7
      BY <2>2 DEF Marshalled
    <2>6. primary_state[o] > 7
      BY <1>3, <2>4, <2>5
    <2>7. Len(inbox[a]) + ToSend(primary_state[o]) = 0
      BY <1>3, <2>2, <2>6 DEF Confirmed
    <2>8. ToSend(primary_state[o]) \in Nat
      BY Numbers DEF ToSend, RoleInv
    <2> QED
      BY <1>2, <2>3, <2>7, <2>8
  <1>11. InSession(o, a)'
    BY <1>7, <1>8, <1>10 DEF InSession
  <1>12. Unmarshalled(o, a)'
    BY <1>1, <1>8 DEF From, Unmarshalled
  <1>13. TakenOver(a)'
    BY DEF TakenOver
  <1>14. Committing(o, a)'
    BY <1>13 DEF Committing
  <1>15. From(o, a)'
    BY <1>7, <1>9, <1>11, <1>12, <1>14 DEF From
  <1>16. secondary_state[a] # "idle"
    BY DEF HasRequested
  <1>17. is_primary[o] => primary_state[o] \in 23 .. 24 \/ seen[o].unacked
    <2>1. inbox[a][1].mirrored /\ IsData(inbox[a][1])
      BY <1>4 DEF IsData
    <2>2. is_primary[o] => primary_state[o] > 22 \/ seen[o].unacked
      BY <1>1, <2>1 DEF From, DataInTurn
    <2>3. is_primary[o] => primary_state[o] \notin 25 .. 26
      BY <1>1 DEF From, Roles
    <2>4. primary_state[o] > 22 /\ primary_state[o] \notin 25 .. 26 => primary_state[o] \in 23 .. 24
      BY ONLY <1>3
    <2> QED
      BY <2>2, <2>3, <2>4
  <1> QED
    BY <1>6, <1>13, <1>15, <1>16, <1>17, Handled

(* A request that is accepted. *)
LEMMA Accepts ==
  ASSUME RoleInv, TypeOK', NEW a \in Earbuds, NEW o \in Earbuds, o # a, OnlySecondary(a, o),
         NEW sent, Passes(a, o, 1, sent), is_primary' = is_primary, ~is_primary[a],
         1 \in 1 .. Len(inbox[a]), inbox[a][1].type = "START_REQ",
         secondary_state'[a] = "setup", p1_left'[a] = Others + 1, bt_left'[a] = Others,
         seen'[a].accepted = inbox[a][1].session, seen'[a].unmarshalled = seen[a].unmarshalled,
         \A i \in 1 .. Len(sent) :
             sent[i].type = "START_CFM" /\ sent[i].session = inbox[a][1].session
  PROVE  RoleInv'
  <1> DEFINE num == inbox[a][1].session
  <1>1. From(o, a) /\ From(a, o) /\ TypeOK
    BY DEF RoleInv
  <1>2. /\ \A i \in 1 .. Len(inbox'[a]) :
              i + 1 \in 1 .. Len(inbox[a]) /\ inbox'[a][i] = inbox[a][i + 1]
        /\ Len(inbox'[a]) + 1 = Len(inbox[a])
        /\ Len(inbox'[a]) \in Nat /\ Len(inbox[a]) \in Nat
    BY DEF Passes
  <1>3. /\ Len(inbox[o]) \in Nat /\ Len(inbox'[o]) = Len(inbox[o]) + Len(sent) /\ Len(sent) \in Nat
        /\ \A i \in 1 .. Len(inbox[o]) : i \in 1 .. Len(inbox'[o]) /\ inbox'[o][i] = inbox[o][i]
        /\ \A i \in 1 .. Len(inbox'[o]) :
              \/ i \in 1 .. Len(inbox[o]) /\ inbox'[o][i] = inbox[o][i]
              \/ /\ i \notin 1 .. Len(inbox[o]) /\ inbox'[o][i].type = "START_CFM"
                 /\ inbox'[o][i].session = num
    BY DEF Passes
  <1>4. /\ primary_state'[o] = primary_state[o] /\ session_id'[o] = session_id[o]
        /\ is_primary'[o] = is_primary[o] /\ seen'[o] = seen[o] /\ waiting'[o] = waiting[o]
        /\ secondary_state'[o] = secondary_state[o] /\ primary_state'[a] = 0
    BY DEF OnlySecondary, primaryVars
  <1>5. /\ session_id[o] \in Nat /\ seen[a].accepted \in Nat /\ primary_state[o] \in 0 .. 26
        /\ num \in Nat
    <2>1. inbox[a][1] \in Messages
      BY <1>1, Numbers
    <2>2. num \in Nat
      BY <2>1, HandoverAssumption DEF Messages
    <2> QED
      BY <1>1, <2>2, Numbers, Typed
  <1>6. /\ seen[a].accepted < num /\ num <= session_id[o] /\ is_primary[o]
        /\ primary_state[o] = 5 /\ num = session_id[o] => Len(inbox[a]) = 1
    BY <1>1 DEF From, Sessions
  <1>7. ~(primary_state[o] > 5)
    <2>1. primary_state[o] > 5 => seen[a].accepted = session_id[o]
      BY <1>1 DEF From, Sessions
    <2> HIDE DEF num
    <2> QED
      BY <1>5, <1>6, <2>1
  <1>8. \A i \in 1 .. Len(inbox[a]) : ~IsData(inbox[a][i])
    <2>1. \A i \in 1 .. Len(inbox[a]) : 1 \in 1 .. i
      BY <1>2
    <2> QED
      BY <1>1, <2>1 DEF From, DataInTurn, IsData
  <1>9. \A i \in 1 .. Len(inbox'[a]) : ~IsData(inbox'[a][i])
    BY <1>2, <1>8
  <1>10. Sessions(o, a)'
    <2>1. Sessions(o, a)
      BY <1>1 DEF From
    <2>2. ASSUME NEW i \in 1 .. Len(inbox'[a]), inbox'[a][i].type = "START_REQ"
          PROVE  /\ num < inbox'[a][i].session
                 /\ inbox'[a][i].session <= session_id[o]
                 /\ primary_state[o] = 5 /\ inbox'[a][i].session = session_id[o] =>
                        i = Len(inbox'[a])
                 /\ is_primary[o]
      <3>1. /\ i + 1 = Len(inbox[a]) => i = Len(inbox'[a])
            /\ 1 < i + 1
        BY <1>2
      <3>2. \A x, y \in 1 .. Len(inbox[a]) :
               x < y /\ inbox[a][x].type = "START_REQ" /\ inbox[a][y].type = "START_REQ" =>
                   inbox[a][x].session < inbox[a][y].session
        BY <2>1 DEF Sessions
      <3>3. num < inbox'[a][i].session
        BY <1>2, <2>2, <3>1, <3>2
      <3>4. i + 1 \in 1 .. Len(inbox[a]) /\ inbox'[a][i] = inbox[a][i + 1]
        BY <1>2
      <3>5. /\ inbox[a][i + 1].session <= session_id[o]
            /\ primary_state[o] = 5 /\ inbox[a][i + 1].session = session_id[o] =>
                   i + 1 = Len(inbox[a])
            /\ is_primary[o]
        BY <2>1, <2>2, <3>4 DEF Sessions
      <3> QED
        BY ONLY <3>1, <3>3, <3>4, <3>5
    <2>3. ASSUME NEW i \in 1 .. Len(inbox'[a]), NEW j \in 1 .. Len(inbox'[a]), i < j,
                 inbox'[a][i].type = "START_REQ", inbox'[a][j].type = "START_REQ"
          PROVE  inbox'[a][i].session < inbox'[a][j].session
      <3>1. i + 1 < j + 1
        BY <1>2, <2>3
      <3>2. /\ i + 1 \in 1 .. Len(inbox[a]) /\ inbox'[a][i] = inbox[a][i + 1]
            /\ j + 1 \in 1 .. Len(inbox[a]) /\ inbox'[a][j] = inbox[a][j + 1]
        BY <1>2
      <3>3. \A x, y \in 1 .. Len(inbox[a]) :
               x < y /\ inbox[a][x].type = "START_REQ" /\ inbox[a][y].type = "START_REQ" =>
                   inbox[a][x].session < inbox[a][y].session
        BY <2>1 DEF Sessions
      <3> QED
        BY ONLY <2>3, <3>1, <3>2, <3>3
    <2>4. ASSUME NEW i \in 1 .. Len(inbox'[o]), inbox'[o][i].type = "START_CFM",
                 inbox'[o][i].accepted
          PROVE  inbox'[o][i].session <= num
      <3>1. CASE i \in 1 .. Len(inbox[o]) /\ inbox'[o][i] = inbox[o][i]
        <4>1. inbox[o][i].session <= seen[a].accepted
          BY <2>1, <2>4, <3>1 DEF Sessions
        <4>2. inbox[o][i].session \in Nat
          <5>1. inbox[o][i] \in Messages
            BY <1>1, <3>1, Numbers
          <5> QED
            BY <2>4, <3>1, <5>1, HandoverAssumption DEF Messages
        <4> QED
          BY <1>5, <1>6, <3>1, <4>1, <4>2
      <3>2. CASE inbox'[o][i].session = num
        BY <1>5, <3>2
      <3> QED
        BY <1>3, <3>1, <3>2
    <2> QED
      BY <1>4, <1>6, <1>7, <2>1, <2>2, <2>3, <2>4 DEF Sessions
  <1>11. Roles(o, a)'
    <2>1. ~Accepted(a)'
      BY <1>4 DEF Accepted
    <2> QED
      BY <1>1, <1>4, <2>1 DEF From, Roles
  <1>12. DataInTurn(o, a)'
    BY <1>9 DEF DataInTurn
  <1>13. DataFits(a)'
    BY <1>9 DEF DataFits, IsData, HasRequested
  <1>14. ASSUME Accepted(o)'
         PROVE  /\ Len(inbox'[a]) = 0 /\ primary_state[o] = 5
                /\ \A j \in 1 .. Len(inbox[o]) : ~Confirms(inbox[o][j], session_id[o])
    <2>1. primary_state[o] = 5
      BY <1>4, <1>7, <1>14 DEF Accepted
    <2>2. PICK i \in 1 .. Len(inbox'[o]) : Confirms(inbox'[o][i], session_id[o])
      BY <1>4, <1>7, <1>14 DEF Accepted
    <2>3. ~Accepted(o)
      <3>1. SUFFICES ASSUME Accepted(o) PROVE FALSE
        OBVIOUS
      <3>2. IsData(inbox[a][1])
        BY <1>1, <2>1, <3>1 DEF From, InSession
      <3> QED
        BY <1>8, <3>2
    <2>4. \A j \in 1 .. Len(inbox[o]) : ~Confirms(inbox[o][j], session_id[o])
      BY <2>1, <2>3 DEF Accepted
    <2>5. num = session_id[o]
      BY <1>3, <2>2, <2>4 DEF Confirms
    <2>6. Len(inbox'[a]) = 0
      <3>1. Len(inbox[a]) = 1
        BY <1>6, <2>1, <2>5
      <3> QED
        BY ONLY <1>2, <3>1
    <2> QED
      BY <2>1, <2>4, <2>6
  <1>15. InSession(o, a)'
    <2>1. SUFFICES ASSUME Accepted(o)'
                   PROVE  /\ ~is_primary'[a]
                          /\ \A i \in 1 .. Len(inbox'[a]) : IsData(inbox'[a][i])
                          /\ Opened(o, a)' /\ Marshalled(o, a)' /\ Confirmed(o, a)'
      BY DEF InSession
    <2>2. /\ Len(inbox'[a]) = 0 /\ primary_state'[o] = 5
          /\ \A j \in 1 .. Len(inbox[o]) : ~Confirms(inbox[o][j], session_id[o])
      BY <1>4, <1>14, <2>1
    <2>3. ASSUME NEW i \in 1 .. Len(inbox'[o]), inbox'[o][i].type = "UNMARSHAL_P1_CFM",
                 NEW j \in 1 .. i
          PROVE  ~Confirms(inbox'[o][j], session_id[o])
      <3>1. i \in 1 .. Len(inbox[o])
        BY <1>3, <2>3
      <3>2. j \in 1 .. Len(inbox[o])
        BY <1>3, <3>1
      <3> QED
        BY <1>3, <2>2, <3>2
    <2>4. Opened(o, a)'
      BY <1>4, <2>2, <2>3 DEF Opened
    <2>5. Marshalled(o, a)' /\ Confirmed(o, a)'
      BY <2>2 DEF Marshalled, Confirmed
    <2>6. \A i \in 1 .. Len(inbox'[a]) : FALSE
      BY <2>2
    <2> QED
      BY <2>4, <2>5, <2>6
  <1>16. Unmarshalled(o, a)'
    <2>1. ~(primary_state[o] > 7)
      BY ONLY <1>5, <1>7
    <2> QED
      BY <1>4, <2>1 DEF Unmarshalled
  <1>17. Committing(o, a)'
    BY <1>4, <1>7 DEF Committing
  <1>18. From(o, a)'
    BY <1>10, <1>11, <1>12, <1>13, <1>15, <1>16, <1>17 DEF From
  <1>19. \A i \in 1 .. Len(sent) : sent[i].type \in {"START_CFM", "UNMARSHAL_P1_CFM"}
    OBVIOUS
  <1>20. is_primary[o] /\ ~is_primary'[a]
    BY <1>6
  <1> QED
    BY <1>18, <1>19, <1>20, Handled

(* What the handler ignores changes nothing. *)
LEMMA Ignored ==
  ASSUME RoleInv, NEW a \in Earbuds, NEW o \in Earbuds, o # a,
         UNCHANGED primaryVars, primary_state[a] = 0, DropMarshalData(a)
  PROVE  /\ OnlySecondary(a, o)
         /\ secondary_state' = secondary_state /\ bt_left' = bt_left /\ seen' = seen
         /\ is_primary' = is_primary
  <1>1. From(a, o)
    BY DEF RoleInv
  <1>2. is_primary[a] => secondary_state[a] = "idle"
    BY <1>1 DEF From, Roles
  <1>3. /\ secondary_state' = secondary_state /\ p1_left' = p1_left /\ bt_left' = bt_left
        /\ seen' = seen /\ is_primary' = is_primary
        /\ waiting' = [waiting EXCEPT ![a] = FALSE]
    BY DEF DropMarshalData
  <1>4. waiting'[o] = waiting[o]
    BY <1>3 DEF RoleInv, TypeOK
  <1> QED
    BY <1>2, <1>3, <1>4 DEF OnlySecondary

LEMMA AcceptRoles ==
  ASSUME RoleInv, TypeOK', NEW a \in Earbuds, NEW o \in Earbuds, o # a,
         UNCHANGED primaryVars, is_primary' = is_primary, primary_state[a] = 0,
         1 \in 1 .. Len(inbox[a]), inbox[a][1].type = "START_REQ",
         NEW sent, Passes(a, o, 1, sent),
         \A i \in 1 .. Len(sent) :
             sent[i].type = "START_CFM" /\ sent[i].session = inbox[a][1].session,
         NEW w, waiting' = [waiting EXCEPT ![a] = w],
         Accept(a, inbox[a][1].session)
  PROVE  RoleInv'
  <1> DEFINE n == inbox[a][1].session
             r == [seen[a] EXCEPT !.accepted = n, !.gave_up = FALSE]
  <1>1. seen \in [Earbuds -> Seen] /\ seen[a] \in Seen
    BY DEF RoleInv, TypeOK
  <1>2. r.accepted = n /\ r.unmarshalled = seen[a].unmarshalled /\ r.unacked = seen[a].unacked
    BY <1>1 DEF Seen
  <1>3. /\ ~is_primary[a]
        /\ secondary_state' = [secondary_state EXCEPT ![a] = "setup"]
        /\ p1_left' = [p1_left EXCEPT ![a] = Others + 1]
        /\ bt_left' = [bt_left EXCEPT ![a] = Others]
        /\ seen' = [seen EXCEPT ![a] = r]
    BY <1>1 DEF Accept
  <1> HIDE DEF r
  <1>4. /\ OnlySecondary(a, o) /\ secondary_state'[a] = "setup"
        /\ p1_left'[a] = Others + 1 /\ bt_left'[a] = Others /\ seen'[a] = r
    BY <1>2, <1>3 DEF OnlySecondary, RoleInv, TypeOK
  <1>5. seen'[a].accepted = inbox[a][1].session /\ seen'[a].unmarshalled = seen[a].unmarshalled
    BY <1>2, <1>4
  <1> HIDE DEF n
  <1> QED
    BY <1>3, <1>4, <1>5, Accepts

LEMMA RefuseRoles ==
  ASSUME RoleInv, TypeOK', NEW a \in Earbuds, NEW o \in Earbuds, o # a,
         UNCHANGED primaryVars, is_primary' = is_primary, primary_state[a] = 0,
         1 \in 1 .. Len(inbox[a]), inbox[a][1].type \in {"START_REQ", "CANCEL_IND"},
         NEW sent, Passes(a, o, 1, sent),
         \A i \in 1 .. Len(sent) : sent[i].type = "START_CFM" /\ ~sent[i].accepted,
         NEW w, waiting' = [waiting EXCEPT ![a] = w],
         seen' = seen,
         \/ Cleanup(a)
         \/ is_primary[a] /\ UNCHANGED <<secondary_state, p1_left, bt_left>>
  PROVE  RoleInv'
  <1>1. secondary_state' = [secondary_state EXCEPT ![a] = "idle"]
    <2>1. is_primary[a] => secondary_state[a] = "idle"
      <3>1. From(a, o)
        BY DEF RoleInv
      <3> QED
        BY <3>1 DEF From, Roles
    <2> QED
      BY <2>1 DEF Cleanup, RoleInv, TypeOK
  <1>2. PICK p, b : /\ p1_left' = [p1_left EXCEPT ![a] = p]
                    /\ bt_left' = [bt_left EXCEPT ![a] = b]
    <2>1. \/ p1_left' = [p1_left EXCEPT ![a] = 0] /\ bt_left' = [bt_left EXCEPT ![a] = 0]
          \/ /\ p1_left' = [p1_left EXCEPT ![a] = p1_left[a]]
             /\ bt_left' = [bt_left EXCEPT ![a] = bt_left[a]]
      BY DEF Cleanup, RoleInv, TypeOK
    <2> QED
      BY <2>1
  <1>3. seen' = [seen EXCEPT ![a] = seen[a]]
    BY DEF RoleInv, TypeOK
  <1>4. OnlySecondary(a, o) /\ secondary_state'[a] = "idle" /\ seen'[a] = seen[a]
    BY <1>1, <1>2, <1>3 DEF OnlySecondary, RoleInv, TypeOK
  <1>5. ~IsData(inbox[a][1])
    BY DEF IsData
  <1> QED
    BY <1>4, <1>5, Drops

LEMMA HandleStartReqRoles ==
  ASSUME RoleInv, TypeOK', NEW a \in Earbuds, NEW o \in Earbuds, o # a,
         UNCHANGED primaryVars, primary_state[a] = 0, inbox[a] # <<>>, HandleStartReq(a)
  PROVE  RoleInv'
  <1> DEFINE req == Head(inbox[a])
             cfm(accepted) == <<[type |-> "START_CFM", session |-> req.session,
                                 accepted |-> accepted]>>
  <1>1. TypeOK /\ req \in Messages /\ req.type = "START_REQ" /\ is_primary' = is_primary
    <2>1. inbox[a] \in Seq(Messages)
      BY DEF RoleInv, TypeOK
    <2> QED
      BY <2>1, HeadTailProperties DEF RoleInv, HandleStartReq
  <1>2. req.session \in 0 .. SessionIds - 1
    BY <1>1 DEF Messages
  <1>3. \A accepted \in BOOLEAN :
           /\ cfm(accepted) \in Seq(Messages) /\ Len(cfm(accepted)) = 1
           /\ \A i \in 1 .. 1 : /\ cfm(accepted)[i].type = "START_CFM"
                                /\ cfm(accepted)[i].session = req.session
                                /\ cfm(accepted)[i].accepted <=> accepted
    BY <1>2 DEF Messages
  <1>4. PICK accepted \in BOOLEAN, sent \in {<<>>, cfm(TRUE), cfm(FALSE)}, w \in BOOLEAN :
          /\ \/ accepted /\ Accept(a, req.session)
             \/ ~accepted /\ Refuse(a)
          /\ sent = <<>> \/ sent = cfm(accepted)
          /\ Exchange(a, Tail(inbox[a]), sent)
          /\ waiting' = [waiting EXCEPT ![a] = w]
    BY DEF HandleStartReq
  <1>5. /\ sent \in Seq(Messages)
        /\ \A i \in 1 .. Len(sent) : /\ sent[i].type = "START_CFM"
                                     /\ sent[i].session = req.session
                                     /\ sent[i].accepted <=> accepted
    <2>1. CASE sent = <<>>
      BY <2>1, NoMessages
    <2>2. CASE sent = cfm(accepted)
      <3> HIDE DEF cfm
      <3> QED
        BY <1>3, <2>2
    <2> QED
      BY <1>4, <2>1, <2>2
  <1>6. Passes(a, o, 1, sent) /\ 1 \in 1 .. Len(inbox[a]) /\ req = inbox[a][1]
    BY <1>1, <1>4, <1>5, TakesOne
  <1>7. inbox[a][1].type = "START_REQ"
    BY <1>1, <1>6
  <1>8. CASE accepted /\ Accept(a, req.session)
    <2>1. Accept(a, inbox[a][1].session)
      BY <1>6, <1>8
    <2>2. \A i \in 1 .. Len(sent) :
             sent[i].type = "START_CFM" /\ sent[i].session = inbox[a][1].session
      BY <1>5, <1>6
    <2> QED
      BY <1>1, <1>4, <1>6, <1>7, <2>1, <2>2, AcceptRoles
  <1>9. CASE ~accepted /\ Refuse(a)
    <2>1. /\ seen' = seen
          /\ \/ Cleanup(a)
             \/ is_primary[a] /\ UNCHANGED <<secondary_state, p1_left, bt_left>>
      BY <1>9 DEF Refuse
    <2>2. \A i \in 1 .. Len(sent) : sent[i].type = "START_CFM" /\ ~sent[i].accepted
      BY <1>5, <1>9
    <2> QED
      BY <1>1, <1>4, <1>6, <1>7, <2>1, <2>2, RefuseRoles
  <1> QED
    BY <1>4, <1>8, <1>9

LEMMA HandleCancelIndRoles ==
  ASSUME RoleInv, TypeOK', NEW a \in Earbuds, NEW o \in Earbuds, o # a,
         UNCHANGED primaryVars, primary_state[a] = 0, inbox[a] # <<>>, HandleCancelInd(a)
  PROVE  RoleInv'
  <1>1. TypeOK /\ Exchange(a, Tail(inbox[a]), <<>>) /\ Head(inbox[a]).type = "CANCEL_IND"
    BY DEF RoleInv, HandleCancelInd
  <1>2. Passes(a, o, 1, <<>>) /\ 1 \in 1 .. Len(inbox[a]) /\ Head(inbox[a]) = inbox[a][1]
    BY <1>1, NoMessages, TakesOne
  <1>3. inbox[a][1].type \in {"START_REQ", "CANCEL_IND"}
    BY <1>1, <1>2
  <1>4. \A i \in 1 .. Len(<<>>) : FALSE
    BY NoMessages
  <1>5. /\ Cleanup(a) /\ is_primary' = is_primary /\ seen' = seen
        /\ waiting' = [waiting EXCEPT ![a] = FALSE]
    BY DEF HandleCancelInd
  <1> QED
    BY <1>2, <1>3, <1>4, <1>5, RefuseRoles

LEMMA HandleLateCfmRoles ==
  ASSUME RoleInv, TypeOK', NEW a \in Earbuds, NEW o \in Earbuds, o # a,
         UNCHANGED primaryVars, primary_state[a] = 0, inbox[a] # <<>>, HandleLateCfm(a)
  PROVE  RoleInv'
  <1>1. /\ TypeOK /\ Exchange(a, Tail(inbox[a]), <<>>) /\ DropMarshalData(a)
        /\ Head(inbox[a]).type \in {"START_CFM", "UNMARSHAL_P1_CFM"}
    BY DEF RoleInv, HandleLateCfm
  <1>2. Passes(a, o, 1, <<>>) /\ 1 \in 1 .. Len(inbox[a]) /\ Head(inbox[a]) = inbox[a][1]
    BY <1>1, NoMessages, TakesOne
  <1>3. ~IsData(inbox[a][1])
    BY <1>1, <1>2 DEF IsData
  <1>4. \A i \in 1 .. Len(<<>>) : FALSE
    BY NoMessages
  <1>5. /\ OnlySecondary(a, o) /\ secondary_state' = secondary_state /\ bt_left' = bt_left
        /\ seen' = seen /\ is_primary' = is_primary
    BY <1>1, Ignored
  <1>6. secondary_state'[a] = secondary_state[a] /\ bt_left'[a] = bt_left[a] /\ seen'[a] = seen[a]
    BY <1>5
  <1> QED
    BY <1>2, <1>3, <1>4, <1>5, <1>6, Drops

(* Data for a secondary in any state that takes none has found it idle. *)
LEMMA DroppedRoles ==
  ASSUME RoleInv, TypeOK', NEW a \in Earbuds, NEW o \in Earbuds, o # a,
         UNCHANGED primaryVars, primary_state[a] = 0, secondary_state[a] = "idle",
         DropMarshalData(a), Passes(a, o, 1, <<>>)
  PROVE  RoleInv'
  <1>1. /\ OnlySecondary(a, o) /\ secondary_state' = secondary_state
        /\ seen' = seen /\ is_primary' = is_primary
    BY Ignored
  <1>2. secondary_state'[a] = "idle" /\ seen'[a] = seen[a] /\ ~HasRequested(a)
    BY <1>1 DEF HasRequested
  <1>3. seen'[a].gave_up <=> seen[a].gave_up \/ HasRequested(a)
    BY <1>2
  <1> QED
    BY <1>1, <1>2, <1>3, Stops

LEMMA HandleAppsP1DataRoles ==
  ASSUME RoleInv, TypeOK', NEW a \in Earbuds, NEW o \in Earbuds, o # a,
         UNCHANGED primaryVars, primary_state[a] = 0, inbox[a] # <<>>, HandleAppsP1Data(a)
  PROVE  RoleInv'
  <1> DEFINE cfm == <<[type |-> "UNMARSHAL_P1_CFM"]>>
  <1>1. /\ TypeOK /\ Head(inbox[a]).type = "P1_DATA" /\ ~is_primary[a]
        /\ From(o, a)
    BY DEF RoleInv, HandleAppsP1Data
  <1>2. /\ cfm \in Seq(Messages) /\ Len(cfm) = 1
        /\ \A i \in 1 .. 1 : cfm[i].type = "UNMARSHAL_P1_CFM"
    BY DEF Messages
  <1>3. PICK sent \in {<<>>, cfm} : /\ Exchange(a, Tail(inbox[a]), sent)
                                    /\ sent # <<>> => secondary_state'[a] = "unmarshalled"
    BY DEF HandleAppsP1Data
  <1>4. /\ sent \in Seq(Messages)
        /\ \A i \in 1 .. Len(sent) :
              sent[i].type = "UNMARSHAL_P1_CFM" /\ secondary_state'[a] = "unmarshalled"
    <2>1. CASE sent = <<>>
      BY <2>1, NoMessages
    <2>2. CASE sent = cfm
      <3>1. sent # <<>>
        BY <1>2, <2>2, NoMessages
      <3> HIDE DEF cfm
      <3> QED
        BY <1>2, <1>3, <2>2, <3>1
    <2> QED
      BY <1>3, <2>1, <2>2
  <1>5. Passes(a, o, 1, sent) /\ 1 \in 1 .. Len(inbox[a]) /\ Head(inbox[a]) = inbox[a][1]
    BY <1>1, <1>3, <1>4, TakesOne
  <1>6. inbox[a][1].type = "P1_DATA"
    BY <1>1, <1>5
  <1>7. CASE secondary_state[a] \in {"setup", "p1_data"}
    <2> DEFINE st == IF p1_left[a] = 1 THEN "unmarshalled" ELSE "p1_data"
               u == IF p1_left[a] = 1 THEN seen[a].accepted ELSE seen[a].unmarshalled
               r == [seen[a] EXCEPT !.unmarshalled = u]
    <2>1. seen \in [Earbuds -> Seen] /\ seen[a] \in Seen
      BY DEF RoleInv, TypeOK
    <2>2. UnmarshalP1(a)
      BY <1>7 DEF HandleAppsP1Data
    <2>3. /\ secondary_state' = [secondary_state EXCEPT ![a] = st]
          /\ p1_left' = [p1_left EXCEPT ![a] = @ - 1]
          /\ waiting' = [waiting EXCEPT ![a] = TRUE]
          /\ seen' = [seen EXCEPT ![a] = r]
          /\ is_primary' = is_primary /\ bt_left' = bt_left
      BY <2>1, <2>2 DEF UnmarshalP1
    <2>4. /\ r.unmarshalled = u /\ r.accepted = seen[a].accepted
          /\ r.unacked = seen[a].unacked /\ r.gave_up = seen[a].gave_up
      <3> HIDE DEF u
      <3> QED
        BY <2>1 DEF Seen
    <2> HIDE DEF r, u, st
    <2>5. OnlySecondary(a, o)
      BY <1>1, <2>3, <2>4 DEF OnlySecondary, RoleInv, TypeOK
    <2>6. /\ secondary_state'[a] = st /\ waiting'[a] /\ seen'[a] = r
          /\ p1_left'[a] = p1_left[a] - 1 /\ bt_left'[a] = bt_left[a]
      BY <2>3 DEF RoleInv, TypeOK
    <2>7. /\ secondary_state'[a] = IF p1_left[a] = 1 THEN "unmarshalled" ELSE "p1_data"
          /\ seen'[a].unmarshalled =
                 IF p1_left[a] = 1 THEN seen[a].accepted ELSE seen[a].unmarshalled
          /\ seen'[a].accepted = seen[a].accepted /\ seen'[a].gave_up = seen[a].gave_up
      BY <2>4, <2>6 DEF st, u
    <2>8. \A i \in 1 .. Len(sent) : sent[i].type = "UNMARSHAL_P1_CFM" /\ p1_left[a] = 1
      BY <1>4, <2>7
    <2> QED
      BY <1>1, <1>5, <1>6, <1>7, <2>3, <2>5, <2>6, <2>7, <2>8, Unmarshals
  <1>8. CASE secondary_state[a] \notin {"setup", "p1_data"}
    <2>1. secondary_state[a] = "idle"
      <3>1. ~HasRequested(a)
        BY <1>1, <1>5, <1>6 DEF From, DataFits
      <3> QED
        BY <1>1, <1>8, <3>1, Numbers DEF HasRequested
    <2>2. DropMarshalData(a)
      BY <1>8 DEF HandleAppsP1Data
    <2>3. sent = <<>>
      <3>1. secondary_state'[a] = "idle"
        BY <2>1, <2>2 DEF DropMarshalData
      <3> QED
        BY <1>3, <3>1
    <2>4. Passes(a, o, 1, <<>>)
      BY <1>5, <2>3
    <2> QED
      BY <2>1, <2>2, <2>4, DroppedRoles
  <1> QED
    BY <1>7, <1>8

LEMMA HandleBtStackDataRoles ==
  ASSUME RoleInv, TypeOK', NEW a \in Earbuds, NEW o \in Earbuds, o # a,
         UNCHANGED primaryVars, primary_state[a] = 0, inbox[a] # <<>>, HandleBtStackData(a)
  PROVE  RoleInv'
  <1>1. /\ TypeOK /\ Head(inbox[a]).type = "BT_DATA" /\ ~is_primary[a]
        /\ Exchange(a, Tail(inbox[a]), <<>>) /\ From(o, a)
    BY DEF RoleInv, HandleBtStackData
  <1>2. Passes(a, o, 1, <<>>) /\ 1 \in 1 .. Len(inbox[a]) /\ Head(inbox[a]) = inbox[a][1]
    BY <1>1, NoMessages, TakesOne
  <1>3. inbox[a][1].type = "BT_DATA"
    BY <1>1, <1>2
  <1>4. CASE HasRequested(a) /\ bt_left[a] > 0
    <2>1. /\ bt_left' = [bt_left EXCEPT ![a] = @ - 1]
          /\ secondary_state' = [secondary_state EXCEPT ![a] = "bt_data"]
          /\ waiting' = [waiting EXCEPT ![a] = TRUE]
          /\ is_primary' = is_primary /\ p1_left' = p1_left /\ seen' = seen
      BY <1>4 DEF HandleBtStackData, ApplyBtStackData
    <2>2. OnlySecondary(a, o)
      BY <1>1, <2>1 DEF OnlySecondary, RoleInv, TypeOK
    <2>3. /\ secondary_state'[a] = "bt_data" /\ waiting'[a] /\ bt_left'[a] = bt_left[a] - 1
          /\ seen'[a] = seen[a]
      BY <2>1 DEF RoleInv, TypeOK
    <2> QED
      BY <1>1, <1>2, <1>3, <1>4, <2>1, <2>2, <2>3, CountsDown
  <1>5. CASE HasRequested(a) /\ ~(bt_left[a] > 0)
    <2> DEFINE r == [seen[a] EXCEPT !.takeovers = @ + 1]
    <2>1. seen \in [Earbuds -> Seen] /\ seen[a] \in Seen
      BY DEF RoleInv, TypeOK
    <2>2. /\ is_primary' = [is_primary EXCEPT ![a] = TRUE]
          /\ seen' = [seen EXCEPT ![a] = r]
          /\ secondary_state' = [secondary_state EXCEPT ![a] = "idle"]
          /\ waiting' = [waiting EXCEPT ![a] = FALSE]
          /\ p1_left' = p1_left /\ bt_left' = bt_left
      BY <1>5, <2>1 DEF HandleBtStackData, ApplyBtStackData
    <2>3. /\ r.unmarshalled = seen[a].unmarshalled /\ r.accepted = seen[a].accepted
          /\ r.unacked = seen[a].unacked
      BY <2>1 DEF Seen
    <2> HIDE DEF r
    <2>4. OnlySecondary(a, o)
      BY <2>2, <2>3 DEF OnlySecondary, RoleInv, TypeOK
    <2>5. is_primary'[a] /\ secondary_state'[a] = "idle" /\ seen'[a] = r
      BY <2>2 DEF RoleInv, TypeOK
    <2>6. seen'[a].accepted = seen[a].accepted /\ seen'[a].unmarshalled = seen[a].unmarshalled
      BY <2>3, <2>5
    <2> QED
      BY <1>1, <1>2, <1>3, <1>5, <2>4, <2>5, <2>6, TakesOver
  <1>6. CASE ~HasRequested(a)
    <2>1. secondary_state[a] = "idle"
      <3>1. secondary_state[a] \notin {"setup", "p1_data"}
        BY <1>1, <1>2, <1>3 DEF From, DataFits
      <3> QED
        BY <1>1, <1>6, <3>1, Numbers DEF HasRequested
    <2>2. DropMarshalData(a)
      BY <1>6 DEF HandleBtStackData
    <2> QED
      BY <1>2, <2>1, <2>2, DroppedRoles
  <1> QED
    BY <1>4, <1>5, <1>6

LEMMA HandleMessageRoles ==
  ASSUME RoleInv, TypeOK', NEW a \in Earbuds, NEW o \in Earbuds, o # a, HandleMessage(a)
  PROVE  RoleInv'
  <1>1. UNCHANGED primaryVars /\ primary_state[a] = 0 /\ inbox[a] # <<>>
    BY DEF HandleMessage
  <1>2. \/ HandleStartReq(a) \/ HandleCancelInd(a) \/ HandleAppsP1Data(a)
        \/ HandleBtStackData(a) \/ HandleLateCfm(a)
    BY DEF HandleMessage
  <1> QED
    BY <1>1, <1>2, HandleStartReqRoles, HandleCancelIndRoles, HandleAppsP1DataRoles,
       HandleBtStackDataRoles, HandleLateCfmRoles

LEMMA MessageTimeoutRoles ==
  ASSUME RoleInv, TypeOK', NEW a \in Earbuds, NEW o \in Earbuds, o # a, MessageTimeout(a)
  PROVE  RoleInv'
  <1> DEFINE g == seen[a].gave_up \/ HasRequested(a)
             r == [seen[a] EXCEPT !.gave_up = g]
  <1>1. TypeOK /\ seen \in [Earbuds -> Seen] /\ seen[a] \in Seen /\ From(a, o)
    BY DEF RoleInv, TypeOK
  <1>2. /\ UNCHANGED primaryVars /\ inbox' = inbox /\ is_primary' = is_primary
        /\ waiting' = [waiting EXCEPT ![a] = FALSE]
        /\ secondary_state' = [secondary_state EXCEPT ![a] = "idle"]
        /\ p1_left' = [p1_left EXCEPT ![a] = 0] /\ bt_left' = [bt_left EXCEPT ![a] = 0]
        /\ seen' = [seen EXCEPT ![a] = r]
    BY <1>1 DEF MessageTimeout, Cleanup
  <1>3. primary_state[a] = 0
    BY <1>1 DEF MessageTimeout, From, Roles
  <1>4. /\ r.unmarshalled = seen[a].unmarshalled /\ r.accepted = seen[a].accepted
        /\ r.unacked = seen[a].unacked /\ r.gave_up = g
    <2> HIDE DEF g
    <2> QED
      BY <1>1 DEF Seen
  <1> HIDE DEF r
  <1>5. Passes(a, o, 0, <<>>)
    BY <1>1, <1>2, PassesNothing
  <1>6. OnlySecondary(a, o)
    BY <1>2, <1>3, <1>4 DEF OnlySecondary, RoleInv, TypeOK
  <1>7. secondary_state'[a] = "idle" /\ seen'[a] = r
    BY <1>2 DEF RoleInv, TypeOK
  <1>8. /\ seen'[a].accepted = seen[a].accepted /\ seen'[a].unmarshalled = seen[a].unmarshalled
        /\ seen'[a].gave_up <=> seen[a].gave_up \/ HasRequested(a)
    BY <1>4, <1>7
  <1>9. 0 \in {0, 1} /\ (0 = 1 => secondary_state[a] = "idle")
    OBVIOUS
  <1> QED
    BY <1>2, <1>5, <1>6, <1>7, <1>8, <1>9, Stops

-----------------------------------------------------------------------------
LEMMA RoleNext == RoleInv /\ TypeOK' /\ [Next]_vars => RoleInv'
  <1> SUFFICES ASSUME RoleInv, TypeOK', [Next]_vars PROVE RoleInv'
    OBVIOUS
  <1>1. ASSUME NEW a \in Earbuds,
               PrimarySetup(a) \/ HandoverAsPrimary(a) \/ HandleMessage(a) \/ MessageTimeout(a)
        PROVE  RoleInv'
    <2>1. PICK o \in Earbuds : o # a
      BY HandoverAssumption
    <2> QED
      BY <1>1, <2>1, PrimarySetupRoles, HandoverAsPrimaryRoles, HandleMessageRoles,
         MessageTimeoutRoles
  <1>2. CASE UNCHANGED vars
    <2>1. /\ is_primary' = is_primary /\ inbox' = inbox /\ primary_state' = primary_state
          /\ session_id' = session_id /\ secondary_state' = secondary_state
          /\ waiting' = waiting /\ p1_left' = p1_left /\ bt_left' = bt_left /\ seen' = seen
      BY <1>2 DEF vars, primaryVars, secondaryVars
    <2>2. ASSUME NEW e \in Earbuds, NEW p \in Earbuds, e # p PROVE From(e, p)'
      <3>1. From(e, p)
        BY <2>2 DEF RoleInv
      <3>2. (Accepted(e)' <=> Accepted(e)) /\ (Accepted(p)' <=> Accepted(p))
        BY <2>1 DEF Accepted
      <3>3. Sessions(e, p)' /\ Roles(e, p)' /\ DataInTurn(e, p)'
        BY <2>1, <3>1, <3>2 DEF From, Sessions, Roles, DataInTurn
      <3>4. DataFits(p)' /\ Unmarshalled(e, p)' /\ Committing(e, p)'
        BY <2>1, <3>1 DEF From, DataFits, HasRequested, Unmarshalled, Committing, TakenOver
      <3>5. (Ready(p)' <=> Ready(p)) /\ (HasRequested(p)' <=> HasRequested(p))
        BY <2>1 DEF Ready, GaveUp, HasRequested
      <3>6. /\ Opened(e, p)' <=> Opened(e, p)
            /\ Marshalled(e, p)' <=> Marshalled(e, p)
            /\ Confirmed(e, p)' <=> Confirmed(e, p)
        BY <2>1, <3>5 DEF Opened, Marshalled, Confirmed
      <3>7. InSession(e, p)'
        BY <2>1, <3>1, <3>2, <3>6 DEF From, InSession
      <3> QED
        BY <3>3, <3>4, <3>7 DEF From
    <2>3. SomePrimary' /\ TwoPrimaries'
      BY <2>1 DEF RoleInv, SomePrimary, TwoPrimaries, TakenOver, HasRequested
    <2> QED
      BY <2>2, <2>3 DEF RoleInv
  <1> QED
    BY <1>1, <1>2 DEF Next

LEMMA RolesHold == Spec => []RoleInv
  <1>1. Inv => TypeOK
    BY DEF Inv
  <1> QED
    BY InvInit, InvNext, RoleInit, RoleNext, <1>1, PTL DEF Spec

(* A primary that goes on after a confirmation has it from the session it  *)
(* is in, whatever was late, dropped or timed out in earlier ones: its     *)
(* peer accepted the session and, later, has all of its P1 data.           *)
THEOREM PeersInStep == Spec => []PeerInStep
  <1>1. RoleInv => PeerInStep
    <2> SUFFICES ASSUME RoleInv, NEW e \in Earbuds
                 PROVE  /\ primary_state[e] > Index("wait_for_start_cfm") =>
                               seen[Peer(e)].accepted = session_id[e]
                        /\ primary_state[e] > Index("wait_for_marshal_data_cfm") =>
                               seen[Peer(e)].unmarshalled = session_id[e]
      BY DEF PeerInStep
    <2>1. Index("wait_for_start_cfm") = 5 /\ Index("wait_for_marshal_data_cfm") = 7
      <3>1. ASSUME NEW s, NEW n \in 1 .. 26, \A i \in 1 .. 26 : States[i] = s <=> i = n
            PROVE  Index(s) = n
        BY <3>1, StateTable DEF Index
      <3> QED
        BY <3>1, MarshallingStates
    <2>2. PICK o \in Earbuds : o # e
      BY HandoverAssumption
    <2>3. Peer(e) = o /\ From(e, o)
      BY <2>2, ThePeer DEF RoleInv
    <2> QED
      BY <2>1, <2>3 DEF From, Sessions, Unmarshalled
  <1> QED
    BY RolesHold, <1>1, PTL

(* There is one primary but in the moments of a handover the properties    *)
(* name, through any number of handovers that fail anywhere, time out or   *)
(* swap the roles; and no primary is handed marshal data.                  *)
THEOREM OnePrimaryAtATime == Spec => []OnePrimary
  <1>1. RoleInv => AtMostOnePrimary
    <2> SUFFICES ASSUME RoleInv, \A e \in Earbuds : is_primary[e] PROVE AtMostOnePrimary
      BY DEF AtMostOnePrimary
    <2>1. PICK e \in Earbuds : seen[e].unacked \/ primary_state[e] \in 23 .. 24
      BY DEF RoleInv, TwoPrimaries
    <2>2. CASE primary_state[e] \in 23 .. 24
      <3>1. primary_state[e] = 23 \/ primary_state[e] = 24
        BY <2>2
      <3>2. States[23] = "clear_pending_peer_data" /\ States[24] = "commit_to_secondary_role"
        BY MarshallingStates, StateTable
      <3>3. InState(e, "clear_pending_peer_data") \/ InState(e, "commit_to_secondary_role")
        BY <3>1, <3>2 DEF InState
      <3> QED
        BY <3>3 DEF AtMostOnePrimary
    <2> QED
      BY <2>1, <2>2 DEF AtMostOnePrimary
  <1>2. RoleInv => PrimaryGetsNoData
    <2> SUFFICES ASSUME RoleInv, NEW e \in Earbuds, is_primary[e], inbox[e] # <<>>
                 PROVE  Head(inbox[e]).type \notin {"P1_DATA", "BT_DATA"}
      BY DEF PrimaryGetsNoData
    <2>1. PICK o \in Earbuds : o # e
      BY HandoverAssumption
    <2>2. 1 \in 1 .. Len(inbox[e]) /\ Head(inbox[e]) = inbox[e][1]
      <3>1. inbox[e] \in Seq(Messages)
        BY DEF RoleInv, TypeOK
      <3> QED
        BY <3>1
    <2>3. From(o, e)
      BY <2>1 DEF RoleInv
    <2> QED
      BY <2>2, <2>3 DEF From, DataInTurn, IsData
  <1>3. RoleInv => NeverWithoutPrimary
    <2> SUFFICES ASSUME RoleInv, \A e \in Earbuds : ~is_primary[e]
                 PROVE  \E e \in Earbuds : TakeoverOnItsWay(e) \/ seen[e].gave_up
      BY DEF NeverWithoutPrimary
    <2>1. PICK p \in Earbuds : TakenOver(p)
      BY DEF RoleInv, SomePrimary
    <2>2. PICK e \in Earbuds : e # p
      BY HandoverAssumption
    <2>3. From(e, p)
      BY <2>2 DEF RoleInv
    <2>4. CASE ~seen[p].gave_up
      <3>1. /\ HasRequested(p) /\ waiting[p] /\ bt_left[p] + 1 <= Len(inbox[p])
            /\ inbox[p][bt_left[p] + 1].type = "BT_DATA"
        BY <2>1, <2>4 DEF TakenOver
      <3>2. bt_left[p] + 1 \in 1 .. Len(inbox[p])
        <4>1. bt_left[p] \in Nat /\ Len(inbox[p]) \in Nat
          BY Numbers DEF RoleInv
        <4> QED
          BY ONLY <3>1, <4>1
      <3>3. inbox[p][bt_left[p] + 1].mirrored
        BY <2>3, <3>1, <3>2 DEF From, DataFits
      <3>4. TakeoverOnItsWay(p)
        BY <3>1, <3>2, <3>3 DEF TakeoverOnItsWay
      <3> QED
        BY <3>4
    <2> QED
      BY <2>4
  <1> QED
    BY RolesHold, <1>1, <1>2, <1>3, PTL DEF OnePrimary
=============================================================================
