-------------------------- MODULE RwcpServerProofs --------------------------
(***************************************************************************)
(* Proofs about RwcpServer, for every modulus, window, length of transfer  *)
(* and room that RwcpAssumption allows.                                    *)
(***************************************************************************)
EXTENDS RwcpServer, TLAPS

-----------------------------------------------------------------------------
(* The inductive invariant.  A session leaves a trace in what is on its    *)
(* way: of the segments SYN, then DATA, then RST, and likewise of the      *)
(* answers; and every payload and every answer on its way is less than a   *)
(* window from what the server expects and from what it meets on its way,  *)
(* which is why numbers modulo SequenceMax tell them apart.                *)

wanted == Len(delivered) + 1

IsAck(n) == n.cmd \in {"DATA_ACK", "GAP"}

(* The payloads reach GAIA in order and once each. *)
InOrder == \A k \in 1 .. Len(delivered) : delivered[k] = k

SynIsFresh == protocol_state = "SYN_RCVD" => delivered = <<>>

NothingLeft ==
    phase = "closed" =>
        /\ \A i \in 1 .. Len(segments) : segments[i].cmd = "RST"
        /\ \A i \in 1 .. Len(notes) : notes[i].cmd = "RST"

OpeningSegments ==
    /\ \A i \in 1 .. Len(segments) :
          \/ segments[i].cmd = "RST"
          \/ segments[i].cmd = "SYN" /\ segments[i].seq = start
    /\ \A i, j \in 1 .. Len(segments) :
          i < j /\ segments[i].cmd = "SYN" => segments[j].cmd = "SYN"

OpeningNotes ==
    /\ \A i \in 1 .. Len(notes) :
          \/ notes[i].cmd = "RST"
          \/ /\ notes[i].cmd = "SYN_ACK"
             /\ protocol_state = "SYN_RCVD" /\ last_sequence_number = start
             /\ \A j \in 1 .. Len(segments) : segments[j].cmd # "RST"
    /\ \A i, j \in 1 .. Len(notes) :
          i < j /\ notes[i].cmd = "SYN_ACK" => notes[j].cmd = "SYN_ACK"

Opening == phase = "syn" => base = 1 /\ OpeningSegments /\ OpeningNotes

(* What holds in a session, open or being given up. *)
ServerInStep ==
    /\ protocol_state # "LISTEN" =>
          last_sequence_number = (start + Len(delivered)) % SequenceMax
    /\ base <= wanted /\ wanted <= base + Window
    /\ phase = "open" => protocol_state # "LISTEN"

SegmentOrder ==
    /\ \A i \in 1 .. Len(segments) :
          /\ segments[i].cmd = "SYN" => protocol_state = "SYN_RCVD" /\ segments[i].seq = start
          /\ segments[i].cmd = "RST" => phase = "reset"
          /\ protocol_state = "LISTEN" => segments[i].cmd = "RST"
    /\ \A i, j \in 1 .. Len(segments) : i < j =>
          /\ segments[i].cmd = "RST" => segments[j].cmd = "RST"
          /\ segments[i].cmd = "DATA" => segments[j].cmd # "SYN"

DataInWindow ==
    /\ \A i \in 1 .. Len(segments) : segments[i].cmd = "DATA" =>
          /\ segments[i].seq = (start + segments[i].payload) % SequenceMax
          /\ segments[i].payload < base + Window
          /\ wanted <= segments[i].payload + Window
    /\ \A i, j \in 1 .. Len(segments) :
          i < j /\ segments[i].cmd = "DATA" /\ segments[j].cmd = "DATA" =>
              segments[i].payload < segments[j].payload + Window

NoteOrder ==
    /\ \A i \in 1 .. Len(notes) : notes[i].cmd = "RST" => protocol_state = "LISTEN"
    /\ \A i, j \in 1 .. Len(notes) :
          i < j /\ notes[i].cmd = "RST" => notes[j].cmd = "RST"

AcksInWindow ==
    /\ \A i \in 1 .. Len(notes) : IsAck(notes[i]) =>
          /\ notes[i].seq = (start + notes[i].upto) % SequenceMax
          /\ notes[i].upto < wanted
          /\ base <= notes[i].upto + Window
    /\ \A i, j \in 1 .. Len(notes) :
          i < j /\ IsAck(notes[i]) /\ IsAck(notes[j]) =>
              notes[i].upto < notes[j].upto + Window

InSession ==
    phase \in {"open", "reset"} =>
        ServerInStep /\ SegmentOrder /\ DataInWindow /\ NoteOrder /\ AcksInWindow

SessionInv == SynIsFresh /\ NothingLeft /\ Opening /\ InSession
-----------------------------------------------------------------------------
(* Numbers modulo M. *)

(* What % and \div give. *)
LEMMA DivMod ==
    ASSUME NEW M \in Nat \ {0}, NEW a \in Int
    PROVE  /\ a % M \in 0 .. M - 1 /\ a \div M \in Int
           /\ a = (a \div M) * M + (a % M)
  BY SMT

(* The only multiple of M closer to 0 than M is 0. *)
LEMMA SmallMultiple ==
    ASSUME NEW M \in Nat \ {0}, NEW k \in Int, k * M < M, -M < k * M
    PROVE  k = 0
  <1>1. CASE k >= 1
    BY <1>1, k * M >= M, SMT
  <1>2. CASE k <= -1
    BY <1>2, k * M <= -M, SMT
  <1> QED  BY <1>1, <1>2, SMT

(* Numbers that differ by a multiple of M are equal. *)
LEMMA SameRemainder ==
    ASSUME NEW M \in Nat \ {0}, NEW u \in 0 .. M - 1, NEW v \in 0 .. M - 1,
           NEW c \in Int, u - v = c * M
    PROVE  u = v
  <1>1. c * M < M /\ -M < c * M
    BY SMT
  <1>2. c = 0
    BY <1>1, SmallMultiple
  <1> QED  BY <1>2, SMT

(* Two values less than M apart are told apart by their numbers. *)
LEMMA ModInjective ==
    ASSUME NEW M \in Nat \ {0}, NEW a \in Int, NEW b \in Int,
           a % M = b % M, a - b < M, b - a < M
    PROVE  a = b
  <1> DEFINE k == (a \div M) - (b \div M)
  <1>1. /\ a = (a \div M) * M + (a % M) /\ a \div M \in Int
        /\ b = (b \div M) * M + (b % M) /\ b \div M \in Int
        /\ b % M \in 0 .. M - 1
    BY DivMod
  <1>2. a - b = k * M
    BY <1>1, SMT
  <1>3. k = 0
    BY <1>1, <1>2, SmallMultiple, SMT
  <1> QED  BY <1>1, <1>2, <1>3, SMT

(* A number less than M is its own remainder. *)
LEMMA ModOfSmall ==
    ASSUME NEW M \in Nat \ {0}, NEW a \in 0 .. M - 1
    PROVE  a % M = a /\ (a + 0) % M = a
  BY SMT

(* The number after that of b is that of the value after b. *)
LEMMA ModSuccessor ==
    ASSUME NEW M \in Nat \ {0}, NEW b \in Int
    PROVE  ((b % M) + 1) % M = (b + 1) % M
  <1> DEFINE x == (b % M) + 1
             c == (((b \div M) + (x \div M)) - ((b + 1) \div M))
  <1>1. /\ b = (b \div M) * M + (b % M) /\ b \div M \in Int /\ b % M \in 0 .. M - 1
        /\ b + 1 = ((b + 1) \div M) * M + ((b + 1) % M) /\ (b + 1) \div M \in Int
        /\ (b + 1) % M \in 0 .. M - 1
    BY DivMod
  <1>2. x \in Int
    BY <1>1
  <1>3. x = (x \div M) * M + (x % M) /\ x \div M \in Int /\ x % M \in 0 .. M - 1
    <2> HIDE DEF x
    <2> QED  BY <1>2, DivMod
  <1>4. ((b + 1) % M) - (x % M) = c * M /\ c \in Int
    <2>1. b + 1 = (b \div M) * M + x
      BY <1>1, SMT
    <2> HIDE DEF x
    <2> QED  BY <1>1, <1>2, <1>3, <2>1, SMT
  <1>5. (b + 1) % M = x % M
    <2> HIDE DEF x, c
    <2> QED  BY <1>1, <1>3, <1>4, SameRemainder
  <1> QED  BY <1>5

(* The distance of two numbers, as isOutOfSequence normalises it, is that  *)
(* of the values, or that and a round.                                     *)
LEMMA ModDistance ==
    ASSUME NEW M \in Nat \ {0}, NEW a \in Int, NEW b \in Int,
           a - b < M, b - a <= M
    PROVE  LET d == (((a % M) - (b % M)) + M) % M
           IN  d = IF b <= a THEN a - b ELSE (a - b) + M
  <1> DEFINE n == ((a % M) - (b % M)) + M
             e == IF b <= a THEN a - b ELSE (a - b) + M
             k == (IF b <= a THEN 0 ELSE 1) - (((b \div M) - (a \div M)) + 1)
  <1>1. /\ a = (a \div M) * M + (a % M) /\ a \div M \in Int
        /\ b = (b \div M) * M + (b % M) /\ b \div M \in Int
        /\ b % M \in 0 .. M - 1 /\ a % M \in 0 .. M - 1
    BY DivMod
  <1>2. n \in Int /\ e \in 0 .. M - 1 /\ k \in Int
    BY <1>1, SMT
  <1>3. n % M \in 0 .. M - 1 /\ n \div M \in Int /\ n = (n \div M) * M + (n % M)
    BY <1>2, DivMod
  <1>4. e - n = k * M
    BY <1>1, SMT
  <1> HIDE DEF n, e, k
  <1> DEFINE c == k + (n \div M)
  <1>5. e - (n % M) = c * M /\ c \in Int
    BY <1>2, <1>3, <1>4, SMT
  <1>6. c * M < M /\ -M < c * M
    BY <1>2, <1>3, <1>5, SMT
  <1>7. c = 0
    <2> HIDE DEF c
    <2> QED  BY <1>5, <1>6, SmallMultiple
  <1> QED  BY <1>2, <1>3, <1>5, <1>7 DEF n, e

-----------------------------------------------------------------------------
(* What is on its way, one end taken and the other added to. *)

(* What is left of a queue when its first element is taken. *)
LEMMA TailFacts ==
    ASSUME NEW T, NEW s \in Seq(T), s # <<>>
    PROVE  /\ Tail(s) \in Seq(T) /\ Head(s) \in T /\ Head(s) = s[1]
           /\ 1 \in 1 .. Len(s) /\ Len(Tail(s)) = Len(s) - 1
           /\ \A i \in 1 .. Len(Tail(s)) : i + 1 \in 1 .. Len(s) /\ Tail(s)[i] = s[i + 1]
  BY SMT

(* What a queue holds when one more has joined it. *)
LEMMA AppendFacts ==
    ASSUME NEW T, NEW s \in Seq(T), NEW e \in T
    PROVE  /\ Append(s, e) \in Seq(T) /\ Len(Append(s, e)) = Len(s) + 1
           /\ \A i \in 1 .. Len(s) + 1 :
                 Append(s, e)[i] = IF i = Len(s) + 1 THEN e ELSE s[i]
  BY SMT

(* The modulus leaves room for every number. *)
LEMMA Modulus == SequenceMax \in Nat \ {0} /\ 2 * Window <= SequenceMax
  BY RwcpAssumption, SMT

(* rwcpSendNotification adds at most the one answer, at the end. *)
LEMMA Answers ==
    ASSUME notes \in Seq(Note),
           NEW c \in {"SYN_ACK", "DATA_ACK", "GAP", "RST"},
           NEW q \in 0 .. SequenceMax - 1, NEW u \in Nat,
           rwcpSendNotification(c, q, u)
    PROVE  /\ notes' \in Seq(Note)
           /\ \A i \in 1 .. Len(notes') :
                 \/ i \in 1 .. Len(notes) /\ notes'[i] = notes[i]
                 \/ i = Len(notes) + 1 /\ notes'[i] = [cmd |-> c, seq |-> q, upto |-> u]
  <1> DEFINE n == [cmd |-> c, seq |-> q, upto |-> u]
  <1>1. n \in Note
    BY DEF Note
  <1> HIDE DEF n
  <1>2. notes' = notes \/ notes' = Append(notes, n)
    BY DEF rwcpSendNotification, n
  <1>3. CASE notes' = notes
    BY <1>3
  <1>4. CASE notes' = Append(notes, n)
    <2>1. /\ Append(notes, n) \in Seq(Note) /\ Len(Append(notes, n)) = Len(notes) + 1
          /\ \A i \in 1 .. Len(notes) + 1 :
                Append(notes, n)[i] = IF i = Len(notes) + 1 THEN n ELSE notes[i]
      BY <1>1, AppendFacts
    <2> QED  BY <1>4, <2>1, SMT DEF n
  <1> QED  BY <1>2, <1>3, <1>4

(* A segment that is sent comes after the others. *)
LEMMA Sends ==
    ASSUME segments \in Seq(Segment), start' \in 0 .. SequenceMax - 1,
           NEW c \in {"SYN", "DATA", "RST"}, NEW p \in Nat, Send(c, p)
    PROVE  /\ segments' \in Seq(Segment)
           /\ \A i \in 1 .. Len(segments') :
                 \/ i \in 1 .. Len(segments) /\ segments'[i] = segments[i]
                 \/ /\ i = Len(segments) + 1
                    /\ segments'[i] = [cmd |-> c, payload |-> p,
                                       seq |-> (start' + p) % SequenceMax]
  <1> DEFINE m == [cmd |-> c, payload |-> p, seq |-> (start' + p) % SequenceMax]
  <1>1. m \in Segment
    <2>1. (start' + p) % SequenceMax \in 0 .. SequenceMax - 1
      <3>1. SequenceMax \in Nat \ {0} /\ start' + p \in Int
        BY Modulus, SMT
      <3> QED  BY <3>1, DivMod
    <2> QED  BY <2>1 DEF Segment
  <1>2. segments' = segments \/ segments' = Append(segments, m)
    BY DEF Send
  <1> HIDE DEF m
  <1>3. CASE segments' = segments
    BY <1>3
  <1>4. CASE segments' = Append(segments, m)
    <2>1. /\ Append(segments, m) \in Seq(Segment)
          /\ Len(Append(segments, m)) = Len(segments) + 1
          /\ \A i \in 1 .. Len(segments) + 1 :
                Append(segments, m)[i] = IF i = Len(segments) + 1 THEN m ELSE segments[i]
      BY <1>1, AppendFacts
    <2> QED  BY <1>4, <2>1, SMT DEF m
  <1> QED  BY <1>2, <1>3, <1>4

-----------------------------------------------------------------------------
(* Type correctness. *)

(* The server's state and everything on its way keep their types: a        *)
(* number is always below SequenceMax (SEQUENCE_NUMBER_MAX).               *)
THEOREM TypeCorrect == RwcpSpec => []RwcpTypeOK
  <1>1. RwcpInit => RwcpTypeOK
    <2>1. /\ <<>> \in Seq(Nat) /\ <<>> \in Seq(Segment) /\ <<>> \in Seq(Note)
          /\ 0 \in 0 .. SequenceMax - 1 /\ 1 \in Nat \ {0}
      BY Modulus, SMT
    <2> QED  BY <2>1, Zenon DEF RwcpInit, RwcpTypeOK
  <1>2. RwcpTypeOK /\ [RwcpNext]_rwcpVars => RwcpTypeOK'
    <2> SUFFICES ASSUME RwcpTypeOK, [RwcpNext]_rwcpVars
                 PROVE  RwcpTypeOK'
      OBVIOUS
    <2>1. CASE RwcpServerHandleMessage
      <3> DEFINE m == Head(segments)
      <3>1. /\ segments' \in Seq(Segment) /\ m \in Segment
            /\ phase' = phase /\ start' = start /\ base' = base
        BY <2>1, TailFacts DEF RwcpServerHandleMessage, RwcpTypeOK, clientVars
      <3> HIDE DEF m
      <3>2. m.seq \in 0 .. SequenceMax - 1 /\ m.payload \in Nat
        BY <3>1 DEF Segment
      <3>3. /\ Len(delivered) \in Nat /\ Append(delivered, m.payload) \in Seq(Nat)
            /\ <<>> \in Seq(Nat) /\ 0 \in Nat
        BY <3>2, AppendFacts, SMT DEF RwcpTypeOK
      <3>4. /\ notes' \in Seq(Note) /\ protocol_state' \in {"LISTEN", "SYN_RCVD", "ESTABLISHED"}
            /\ last_sequence_number' \in 0 .. SequenceMax - 1
            /\ out_of_sequence_status' \in BOOLEAN /\ delivered' \in Seq(Nat)
        <4>1. CASE ReceiveSyn(m)
          BY <4>1, <3>2, <3>3, Answers DEF ReceiveSyn, RwcpTypeOK
        <4>2. CASE ReceiveOther(m)
          BY <4>2, <3>2, <3>3, Answers DEF ReceiveOther, RwcpTypeOK
        <4>3. CASE ReceiveData(m)
          <5>1. CASE InSequence(m)
            BY <4>3, <5>1, <3>2, <3>3, Answers DEF ReceiveData, InSequence, RwcpTypeOK
          <5>2. CASE OutOfSequence(m, protocol_state = "ESTABLISHED" /\ out_of_sequence_status)
            BY <4>3, <5>2, <3>2, <3>3, Answers DEF ReceiveData, OutOfSequence, RwcpTypeOK
          <5>3. CASE Duplicate(m, protocol_state = "ESTABLISHED" /\ out_of_sequence_status)
            BY <4>3, <5>3, <3>2, <3>3, Answers DEF ReceiveData, Duplicate, RwcpTypeOK
          <5> QED  BY <4>3, <5>1, <5>2, <5>3 DEF ReceiveData, handleDataSegment
        <4> QED  BY <2>1, <4>1, <4>2, <4>3 DEF RwcpServerHandleMessage, m
      <3> QED  BY <3>1, <3>4 DEF RwcpTypeOK
    <2>2. CASE SendSyn
      <3>1. start' \in 0 .. SequenceMax - 1
        <4>1. start' \in Starts \/ start' = start
          BY <2>2 DEF SendSyn
        <4>2. CASE start' \in Starts
          BY <4>2, RwcpAssumption, Zenon
        <4>3. CASE start' = start
          BY <4>3, Zenon DEF RwcpTypeOK
        <4> QED  BY <4>1, <4>2, <4>3
      <3>2. segments' \in Seq(Segment)
        BY <2>2, <3>1, Sends DEF SendSyn, RwcpTypeOK
      <3> QED  BY <2>2, <3>1, <3>2 DEF SendSyn, RwcpTypeOK, serverVars
    <2>3. ASSUME NEW p \in 1 .. Length, SendData(p)
          PROVE  RwcpTypeOK'
      <3>1. start' \in 0 .. SequenceMax - 1 /\ p \in Nat
        BY <2>3, SMT DEF SendData, RwcpTypeOK, clientVars
      <3>2. segments' \in Seq(Segment)
        BY <2>3, <3>1, Sends DEF SendData, RwcpTypeOK
      <3> QED  BY <2>3, <3>2 DEF SendData, RwcpTypeOK, serverVars, clientVars
    <2>4. CASE SendReset
      <3>1. start' \in 0 .. SequenceMax - 1 /\ 0 \in Nat
        BY <2>4, SMT DEF SendReset, RwcpTypeOK
      <3>2. segments' \in Seq(Segment)
        BY <2>4, <3>1, Sends DEF SendReset, RwcpTypeOK
      <3> QED  BY <2>4, <3>2 DEF SendReset, RwcpTypeOK, serverVars
    <2>5. CASE ClientReceive
      <3> DEFINE n == Head(notes)
      <3>1. notes' \in Seq(Note) /\ n \in Note
        BY <2>5, TailFacts DEF ClientReceive, RwcpTypeOK
      <3> HIDE DEF n
      <3>2. Ahead(n.seq) \in Nat
        <4>1. n.seq \in Int /\ start + base \in Int
          BY <3>1, SMT DEF Note, RwcpTypeOK
        <4>2. (start + base) % SequenceMax \in 0 .. SequenceMax - 1
          BY <4>1, Modulus, DivMod
        <4>3. (n.seq - ((start + base) % SequenceMax)) + SequenceMax \in Int
          BY <4>1, <4>2, Modulus, SMT
        <4>4. ((n.seq - ((start + base) % SequenceMax)) + SequenceMax) % SequenceMax \in 0 .. SequenceMax - 1
          BY <4>3, Modulus, DivMod
        <4> QED  BY <4>4, Modulus, SMT DEF Ahead
      <3>3. base' \in Nat \ {0} /\ phase' \in {"closed", "syn", "open", "reset"}
        BY <2>5, <3>2 DEF ClientReceive, RwcpTypeOK, n
      <3> QED  BY <2>5, <3>1, <3>3 DEF ClientReceive, RwcpTypeOK, serverVars
    <2>6. CASE Drop
      BY <2>6, TailFacts DEF Drop, RwcpTypeOK, serverVars, clientVars
    <2>7. CASE LinkDown
      BY <2>7 DEF LinkDown, RwcpTypeOK, serverVars
    <2>8. CASE UNCHANGED rwcpVars
      BY <2>8 DEF RwcpTypeOK, rwcpVars, serverVars, clientVars
    <2> QED  BY <2>1, <2>2, <2>3, <2>4, <2>5, <2>6, <2>7, <2>8 DEF RwcpNext, ClientSend
  <1> QED  BY <1>1, <1>2, PTL DEF RwcpSpec

-----------------------------------------------------------------------------
(* The invariant. *)

(* Where the client is, given what is first on its way to the server. *)
LEMMA HeadOfSession ==
    ASSUME RwcpTypeOK, SessionInv, segments # <<>>
    PROVE  /\ Head(segments).cmd = "SYN" => /\ phase # "closed" /\ Head(segments).seq = start
                                            /\ phase \in {"open", "reset"} => protocol_state = "SYN_RCVD"
           /\ Head(segments).cmd = "DATA" => phase \in {"open", "reset"} /\ protocol_state # "LISTEN"
           /\ Head(segments).cmd = "RST" => phase # "open"
  <1>1. Head(segments) = segments[1] /\ 1 \in 1 .. Len(segments)
    BY TailFacts DEF RwcpTypeOK
  <1>2. CASE phase = "closed"
    BY <1>1, <1>2 DEF SessionInv, NothingLeft
  <1>3. CASE phase = "syn"
    BY <1>1, <1>3 DEF SessionInv, Opening, OpeningSegments
  <1>4. CASE phase \in {"open", "reset"}
    BY <1>1, <1>4 DEF SessionInv, InSession, SegmentOrder
  <1> QED  BY <1>2, <1>3, <1>4 DEF RwcpTypeOK

(* The window: what isNextSequence accepts is the payload that is wanted,   *)
(* and what is neither next nor ahead was delivered before.                *)
LEMMA HeadInWindow ==
    ASSUME RwcpTypeOK, SessionInv, segments # <<>>, Head(segments).cmd = "DATA"
    PROVE  LET m == Head(segments) IN
           /\ m.seq = (start + m.payload) % SequenceMax
           /\ m.payload \in Nat /\ m.payload < base + Window /\ wanted <= m.payload + Window
           /\ isNextSequence(m.seq) => m.payload = wanted
           /\ ~isNextSequence(m.seq) /\ ~isOutOfSequence(m.seq) => m.payload < wanted
  <1> DEFINE m == Head(segments)
             a == start + m.payload
             b == start + Len(delivered)
  <1>1. m \in Segment /\ m = segments[1] /\ 1 \in 1 .. Len(segments)
    BY TailFacts DEF RwcpTypeOK
  <1>2. phase \in {"open", "reset"} /\ protocol_state # "LISTEN"
    BY HeadOfSession
  <1>3. m.payload \in Nat /\ m.seq \in 0 .. SequenceMax - 1
    BY <1>1 DEF Segment
  <1>4. m.payload < base + Window /\ wanted <= m.payload + Window /\ base <= wanted
    BY <1>1, <1>2 DEF SessionInv, InSession, DataInWindow, ServerInStep
  <1>5. m.seq = a % SequenceMax /\ last_sequence_number = b % SequenceMax
    BY <1>1, <1>2 DEF SessionInv, InSession, DataInWindow, ServerInStep
  <1>6. /\ Len(delivered) \in Nat /\ start \in Nat /\ base \in Nat /\ Window \in Nat \ {0}
        /\ WindowMax \in Nat /\ Window <= WindowMax /\ SequenceMax \in Nat \ {0}
        /\ WindowMax + Window <= SequenceMax
    BY RwcpAssumption, SMT DEF RwcpTypeOK
  <1>7. /\ a \in Int /\ b \in Int /\ a - b = m.payload - Len(delivered)
        /\ a - b <= Window /\ b - a < Window
    BY <1>3, <1>4, <1>6, SMT DEF wanted
  <1>8. isNextSequence(m.seq) => m.payload = wanted
    <2> SUFFICES ASSUME isNextSequence(m.seq)
                 PROVE  m.payload = wanted
      OBVIOUS
    <2> HIDE DEF a, b
    <2>1. a % SequenceMax = ((b % SequenceMax) + 1) % SequenceMax
      BY <1>5 DEF isNextSequence, nextExpectedSequenceNumber
    <2>2. a % SequenceMax = (b + 1) % SequenceMax
      BY <2>1, <1>6, <1>7, ModSuccessor
    <2>3. b + 1 \in Int /\ a - (b + 1) < SequenceMax /\ (b + 1) - a < SequenceMax
      BY <1>6, <1>7, SMT
    <2>4. a = b + 1
      BY <2>2, <2>3, <1>6, <1>7, ModInjective
    <2> QED  BY <2>4, <1>3, <1>6, <1>7, SMT DEF wanted
  <1>9. ~isNextSequence(m.seq) /\ ~isOutOfSequence(m.seq) => m.payload < wanted
    <2> HIDE DEF a, b
    <2>1. a - b < SequenceMax /\ b - a <= SequenceMax
      BY <1>6, <1>7, SMT
    <2>2. (((a % SequenceMax) - (b % SequenceMax)) + SequenceMax) % SequenceMax
              = IF b <= a THEN a - b ELSE (a - b) + SequenceMax
      BY <2>1, <1>6, <1>7, ModDistance
    <2>3. ((m.seq - last_sequence_number) + SequenceMax) % SequenceMax
              = IF b <= a THEN a - b ELSE (a - b) + SequenceMax
      BY <2>2, <1>5
    <2> SUFFICES ASSUME ~isOutOfSequence(m.seq)
                 PROVE  m.payload < wanted
      OBVIOUS
    <2>4. b < a => ~(a - b > 0 /\ a - b <= WindowMax)
      BY <2>3, <1>7, SMT DEF isOutOfSequence
    <2> QED  BY <2>4, <1>3, <1>6, <1>7, SMT DEF wanted
  <1> QED  BY <1>3, <1>4, <1>5, <1>8, <1>9

(* The server takes the first segment, and answers at most once. *)
Takes ==
    /\ segments # <<>> /\ segments' = Tail(segments)
    /\ UNCHANGED clientVars

(* What is on its way once the server has taken the first segment. *)
LEMMA Taken ==
    ASSUME RwcpTypeOK, Takes
    PROVE  /\ Head(segments) = segments[1] /\ Head(segments) \in Segment
           /\ 1 \in 1 .. Len(segments)
           /\ \A i \in 1 .. Len(segments') : i + 1 \in 1 .. Len(segments) /\ segments'[i] = segments[i + 1]
           /\ phase' = phase /\ start' = start /\ base' = base
  BY TailFacts DEF Takes, RwcpTypeOK, clientVars

(* The types of what is on its way. *)
LEMMA ElementTypes ==
    ASSUME RwcpTypeOK
    PROVE  /\ Len(delivered) \in Nat /\ Len(segments) \in Nat /\ Len(notes) \in Nat
           /\ \A i \in 1 .. Len(segments) : segments[i].payload \in Nat
           /\ \A i \in 1 .. Len(notes) : notes[i].upto \in Nat
  <1>1. \A i \in 1 .. Len(segments) : segments[i] \in Segment
    BY DEF RwcpTypeOK
  <1>2. \A i \in 1 .. Len(notes) : notes[i] \in Note
    BY DEF RwcpTypeOK
  <1>3. Len(delivered) \in Nat /\ Len(segments) \in Nat /\ Len(notes) \in Nat
    BY DEF RwcpTypeOK
  <1> QED  BY <1>1, <1>2, <1>3 DEF Segment, Note

(* The segments that are left keep their order and their window. *)
LEMMA TailOrder ==
    ASSUME RwcpTypeOK, Takes, SegmentOrder, protocol_state' = protocol_state
    PROVE  SegmentOrder'
  <1>1. ASSUME NEW i \in 1 .. Len(segments')
        PROVE  /\ segments'[i].cmd = "SYN" => protocol_state = "SYN_RCVD" /\ segments'[i].seq = start
               /\ segments'[i].cmd = "RST" => phase = "reset"
               /\ protocol_state = "LISTEN" => segments'[i].cmd = "RST"
    <2>1. i + 1 \in 1 .. Len(segments) /\ segments'[i] = segments[i + 1]
      BY <1>1, Taken
    <2> QED  BY <2>1 DEF SegmentOrder
  <1>2. ASSUME NEW i \in 1 .. Len(segments'), NEW j \in 1 .. Len(segments'), i < j
        PROVE  /\ segments'[i].cmd = "RST" => segments'[j].cmd = "RST"
               /\ segments'[i].cmd = "DATA" => segments'[j].cmd # "SYN"
    <2>1. /\ i + 1 \in 1 .. Len(segments) /\ segments'[i] = segments[i + 1]
          /\ j + 1 \in 1 .. Len(segments) /\ segments'[j] = segments[j + 1]
      BY <1>2, Taken
    <2>2. i + 1 < j + 1
      BY <1>2, SMT
    <2> QED  BY <2>1, <2>2 DEF SegmentOrder
  <1> QED  BY <1>1, <1>2, Taken DEF SegmentOrder

(* They do so because GAIA still wants the same payload. *)
LEMMA TailInWindow ==
    ASSUME RwcpTypeOK, Takes, DataInWindow, delivered' = delivered
    PROVE  DataInWindow'
  <1>1. ASSUME NEW i \in 1 .. Len(segments'), segments'[i].cmd = "DATA"
        PROVE  /\ segments'[i].seq = (start + segments'[i].payload) % SequenceMax
               /\ segments'[i].payload < base + Window
               /\ wanted <= segments'[i].payload + Window
    <2>1. i + 1 \in 1 .. Len(segments) /\ segments'[i] = segments[i + 1]
      BY <1>1, Taken
    <2> QED  BY <1>1, <2>1 DEF DataInWindow
  <1>2. ASSUME NEW i \in 1 .. Len(segments'), NEW j \in 1 .. Len(segments'), i < j,
               segments'[i].cmd = "DATA", segments'[j].cmd = "DATA"
        PROVE  segments'[i].payload < segments'[j].payload + Window
    <2>1. /\ i + 1 \in 1 .. Len(segments) /\ segments'[i] = segments[i + 1]
          /\ j + 1 \in 1 .. Len(segments) /\ segments'[j] = segments[j + 1]
      BY <1>2, Taken
    <2>2. i + 1 < j + 1
      BY <1>2, SMT
    <2> QED  BY <1>2, <2>1, <2>2 DEF DataInWindow
  <1>3. wanted' = wanted
    BY DEF wanted
  <1> QED  BY <1>1, <1>2, <1>3, Taken DEF DataInWindow

(* A SYN: the server begins the session anew, with nothing delivered. *)
LEMMA SynKeepsInv ==
    ASSUME RwcpTypeOK, RwcpTypeOK', SessionInv, Takes, ReceiveSyn(Head(segments))
    PROVE  SessionInv'
  <1> DEFINE m == Head(segments)
  <1>1. /\ m.cmd = "SYN" /\ m.seq = start /\ phase # "closed" /\ m.seq \in 0 .. SequenceMax - 1
        /\ phase \in {"open", "reset"} => protocol_state = "SYN_RCVD"
    BY HeadOfSession, Taken DEF Takes, ReceiveSyn, Segment
  <1>2. /\ protocol_state' = "SYN_RCVD" /\ last_sequence_number' = start /\ delivered' = <<>>
    BY <1>1 DEF ReceiveSyn
  <1>3. \A i \in 1 .. Len(notes') :
            \/ i \in 1 .. Len(notes) /\ notes'[i] = notes[i]
            \/ i = Len(notes) + 1 /\ notes'[i] = [cmd |-> "SYN_ACK", seq |-> m.seq, upto |-> 0]
    BY <1>1, Answers, SMT DEF ReceiveSyn, RwcpTypeOK
  <1>4. SynIsFresh' /\ NothingLeft'
    BY <1>1, <1>2, Taken DEF SynIsFresh, NothingLeft
  <1>5. Opening'
    <2> SUFFICES ASSUME phase = "syn"
                 PROVE  (base = 1 /\ OpeningSegments /\ OpeningNotes)'
      BY Taken DEF Opening
    <2>1. base = 1 /\ OpeningSegments /\ OpeningNotes
      BY DEF SessionInv, Opening
    <2>2. OpeningSegments'
      BY <2>1, Taken, SMT DEF OpeningSegments
    <2>3. \A j \in 1 .. Len(segments') : segments'[j].cmd # "RST"
      BY <2>1, <1>1, Taken, SMT DEF OpeningSegments
    <2>4. OpeningNotes'
      <3>1. \A i \in 1 .. Len(notes') : notes'[i].cmd \in {"RST", "SYN_ACK"}
        BY <2>1, <1>3 DEF OpeningNotes
      <3>2. \A i, j \in 1 .. Len(notes') :
                i < j /\ notes'[i].cmd = "SYN_ACK" => notes'[j].cmd = "SYN_ACK"
        BY <2>1, <1>3, SMT DEF OpeningNotes
      <3> QED  BY <3>1, <3>2, <2>3, <1>2, Taken DEF OpeningNotes
    <2> QED  BY <2>1, <2>2, <2>4, Taken
  <1>6. InSession'
    <2> SUFFICES ASSUME phase \in {"open", "reset"}
                 PROVE  (ServerInStep /\ SegmentOrder /\ DataInWindow /\ NoteOrder /\ AcksInWindow)'
      BY Taken DEF InSession
    <2>1. ServerInStep /\ SegmentOrder /\ DataInWindow /\ NoteOrder /\ AcksInWindow
      BY DEF SessionInv, InSession
    <2>2. protocol_state = "SYN_RCVD" /\ delivered = <<>>
      BY <1>1 DEF SessionInv, SynIsFresh
    <2>3. ServerInStep'
      <3>1. start = (start + Len(delivered')) % SequenceMax
        <4>1. start + Len(delivered') = start
          BY <1>2, SMT DEF RwcpTypeOK
        <4> QED  BY <4>1, Modulus, ModOfSmall DEF RwcpTypeOK
      <3> QED  BY <3>1, <2>1, <2>2, <1>2, Taken DEF ServerInStep, wanted
    <2>4. SegmentOrder'
      BY <2>1, <2>2, <1>2, TailOrder
    <2>5. DataInWindow'
      BY <2>1, <2>2, <1>2, TailInWindow
    <2>6. NoteOrder'
      BY <2>1, <2>2, <1>2, <1>3, Taken, SMT DEF NoteOrder
    <2>7. AcksInWindow'
      BY <2>1, <2>2, <1>2, <1>3, Taken, SMT DEF AcksInWindow, wanted, IsAck
    <2> QED  BY <2>3, <2>4, <2>5, <2>6, <2>7
  <1> QED  BY <1>4, <1>5, <1>6 DEF SessionInv

(* A DATA segment: the server passes on the payload that is wanted, or     *)
(* nothing, and what it confirms was wanted or delivered before.           *)
LEMMA DataKeepsInv ==
    ASSUME RwcpTypeOK, RwcpTypeOK', SessionInv, Takes, Head(segments).cmd = "DATA",
           protocol_state' = "ESTABLISHED",
           \/ delivered' = delivered /\ last_sequence_number' = last_sequence_number
           \/ /\ Head(segments).payload = wanted /\ Len(delivered') = wanted
              /\ last_sequence_number' = Head(segments).seq,
           NEW c \in {"DATA_ACK", "GAP"}, NEW q \in 0 .. SequenceMax - 1, NEW u \in Nat,
           q = (start + u) % SequenceMax, u < wanted', wanted <= u + Window,
           \A i \in 1 .. Len(notes') :
              \/ i \in 1 .. Len(notes) /\ notes'[i] = notes[i]
              \/ i = Len(notes) + 1 /\ notes'[i] = [cmd |-> c, seq |-> q, upto |-> u]
    PROVE  SessionInv'
  <1> DEFINE m == Head(segments)
  <1>1. /\ phase \in {"open", "reset"} /\ protocol_state # "LISTEN"
        /\ m.seq = (start + m.payload) % SequenceMax
        /\ m.payload \in Nat /\ m.payload < base + Window /\ wanted <= m.payload + Window
    BY HeadOfSession, HeadInWindow DEF Takes
  <1>2. ServerInStep /\ SegmentOrder /\ DataInWindow /\ NoteOrder /\ AcksInWindow
    BY <1>1 DEF SessionInv, InSession
  <1>3. /\ Len(delivered) \in Nat /\ base \in Nat \ {0} /\ Window \in Nat \ {0}
        /\ \A i \in 1 .. Len(segments) : segments[i].payload \in Nat
        /\ \A i \in 1 .. Len(notes) : notes[i].upto \in Nat
    BY RwcpAssumption, ElementTypes DEF RwcpTypeOK
  <1>4. wanted \in Nat /\ wanted' \in {wanted, m.payload + 1} /\ wanted' \in {wanted, wanted + 1}
    <2>1. wanted \in Nat
      BY <1>3, SMT DEF wanted
    <2>2. CASE delivered' = delivered
      BY <2>1, <2>2 DEF wanted
    <2>3. CASE m.payload = wanted /\ Len(delivered') = wanted
      BY <2>1, <2>3 DEF wanted
    <2> QED  BY <2>1, <2>2, <2>3
  <1>5. ServerInStep'
    <2>1. last_sequence_number' = (start + Len(delivered')) % SequenceMax
      BY <1>1, <1>2 DEF ServerInStep
    <2>2. base <= wanted' /\ wanted' <= base + Window
      BY <1>1, <1>2, <1>3, <1>4, SMT DEF ServerInStep
    <2> QED  BY <1>1, <2>1, <2>2, Taken DEF ServerInStep
  <1>6. SegmentOrder'
    <2>1. \A i \in 1 .. Len(segments') : segments'[i].cmd # "SYN"
      BY <1>2, Taken, SMT DEF SegmentOrder
    <2>2. \A i \in 1 .. Len(segments') : segments'[i].cmd = "RST" => phase = "reset"
      BY <1>2, Taken, SMT DEF SegmentOrder
    <2>3. \A i, j \in 1 .. Len(segments') : i < j =>
              /\ segments'[i].cmd = "RST" => segments'[j].cmd = "RST"
              /\ segments'[i].cmd = "DATA" => segments'[j].cmd # "SYN"
      BY <1>2, Taken, SMT DEF SegmentOrder
    <2> QED  BY <2>1, <2>2, <2>3, Taken DEF SegmentOrder
  <1>7. DataInWindow'
    <2>1. \A i \in 1 .. Len(segments') : segments'[i].cmd = "DATA" =>
              /\ segments'[i].seq = (start + segments'[i].payload) % SequenceMax
              /\ segments'[i].payload < base + Window
      BY <1>2, Taken, SMT DEF DataInWindow
    <2>2. \A i \in 1 .. Len(segments') : segments'[i].cmd = "DATA" =>
              wanted' <= segments'[i].payload + Window
      <3> SUFFICES ASSUME NEW i \in 1 .. Len(segments'), segments'[i].cmd = "DATA"
                   PROVE  wanted' <= segments'[i].payload + Window
        OBVIOUS
      <3>1. /\ i + 1 \in 1 .. Len(segments) /\ segments'[i] = segments[i + 1]
            /\ 1 < i + 1 /\ m = segments[1] /\ 1 \in 1 .. Len(segments)
        BY Taken, SMT
      <3>2. /\ wanted <= segments[i + 1].payload + Window
            /\ m.payload < segments[i + 1].payload + Window
        BY <1>2, <3>1 DEF DataInWindow
      <3>3. segments[i + 1].payload \in Nat
        BY <1>3, <3>1
      <3> QED  BY <1>1, <1>3, <1>4, <3>1, <3>2, <3>3, SMT
    <2>3. \A i, j \in 1 .. Len(segments') :
              i < j /\ segments'[i].cmd = "DATA" /\ segments'[j].cmd = "DATA" =>
                  segments'[i].payload < segments'[j].payload + Window
      <3> SUFFICES ASSUME NEW i \in 1 .. Len(segments'), NEW j \in 1 .. Len(segments'), i < j,
                          segments'[i].cmd = "DATA", segments'[j].cmd = "DATA"
                   PROVE  segments'[i].payload < segments'[j].payload + Window
        OBVIOUS
      <3>1. /\ i + 1 \in 1 .. Len(segments) /\ segments'[i] = segments[i + 1]
            /\ j + 1 \in 1 .. Len(segments) /\ segments'[j] = segments[j + 1]
            /\ i + 1 < j + 1
        BY Taken, SMT
      <3> QED  BY <3>1, <1>2 DEF DataInWindow
    <2> QED  BY <2>1, <2>2, <2>3, Taken DEF DataInWindow
  <1>8. NoteOrder'
    BY <1>1, <1>2, SMT DEF NoteOrder
  <1>9. AcksInWindow'
    <2>1. \A i \in 1 .. Len(notes') : IsAck(notes'[i]) =>
              /\ notes'[i].seq = (start + notes'[i].upto) % SequenceMax
              /\ notes'[i].upto < wanted'
              /\ base <= notes'[i].upto + Window
      BY <1>2, <1>3, <1>4, SMT DEF AcksInWindow, ServerInStep
    <2>2. \A i, j \in 1 .. Len(notes') :
              i < j /\ IsAck(notes'[i]) /\ IsAck(notes'[j]) =>
                  notes'[i].upto < notes'[j].upto + Window
      <3> SUFFICES ASSUME NEW i \in 1 .. Len(notes'), NEW j \in 1 .. Len(notes'), i < j,
                          IsAck(notes'[i]), IsAck(notes'[j])
                   PROVE  notes'[i].upto < notes'[j].upto + Window
        OBVIOUS
      <3>1. i \in 1 .. Len(notes) /\ notes'[i] = notes[i]
        BY ElementTypes, SMT
      <3>2. CASE j \in 1 .. Len(notes) /\ notes'[j] = notes[j]
        BY <3>1, <3>2, <1>2 DEF AcksInWindow
      <3>3. CASE notes'[j] = [cmd |-> c, seq |-> q, upto |-> u]
        <4>1. notes[i].upto < wanted /\ notes[i].upto \in Nat
          BY <3>1, <1>2, <1>3 DEF AcksInWindow
        <4> QED  BY <4>1, <3>1, <3>3, <1>3, <1>4, SMT
      <3> QED  BY <3>2, <3>3
    <2> QED  BY <2>1, <2>2, Taken DEF AcksInWindow
  <1> QED  BY <1>1, <1>5, <1>6, <1>7, <1>8, <1>9, Taken
           DEF SessionInv, SynIsFresh, NothingLeft, Opening, InSession

(* The three ways handleDataSegment takes a segment. *)
LEMMA ReceiveDataKeepsInv ==
    ASSUME RwcpTypeOK, RwcpTypeOK', SessionInv, Takes, ReceiveData(Head(segments))
    PROVE  SessionInv'
  <1> DEFINE m == Head(segments)
             signalled == protocol_state = "ESTABLISHED" /\ out_of_sequence_status
  <1>1. /\ m.cmd = "DATA" /\ protocol_state' = "ESTABLISHED" /\ protocol_state # "LISTEN"
        /\ phase \in {"open", "reset"} /\ segments # <<>>
    BY HeadOfSession DEF ReceiveData, Takes
  <1>2. /\ m.seq = (start + m.payload) % SequenceMax /\ m.seq \in 0 .. SequenceMax - 1
        /\ m.payload \in Nat /\ wanted <= m.payload + Window
        /\ isNextSequence(m.seq) => m.payload = wanted
        /\ ~isNextSequence(m.seq) /\ ~isOutOfSequence(m.seq) => m.payload < wanted
    BY <1>1, HeadInWindow, Taken DEF Segment
  <1>3. /\ last_sequence_number = (start + Len(delivered)) % SequenceMax
        /\ last_sequence_number \in 0 .. SequenceMax - 1
        /\ Len(delivered) \in Nat /\ Window \in Nat \ {0} /\ notes \in Seq(Note)
    BY <1>1, RwcpAssumption DEF SessionInv, InSession, ServerInStep, RwcpTypeOK
  <1>4. CASE InSequence(m)
    <2>1. /\ m.payload = wanted /\ last_sequence_number' = m.seq
          /\ delivered' = Append(delivered, m.payload)
      BY <1>2, <1>4 DEF InSequence
    <2>2. Len(delivered') = wanted /\ m.payload < wanted'
      BY <2>1, <1>2, AppendFacts, SMT DEF wanted, RwcpTypeOK
    <2>3. \A i \in 1 .. Len(notes') :
              \/ i \in 1 .. Len(notes) /\ notes'[i] = notes[i]
              \/ i = Len(notes) + 1 /\ notes'[i] = [cmd |-> "DATA_ACK", seq |-> m.seq, upto |-> m.payload]
      BY <1>2, <1>3, <1>4, Answers DEF InSequence
    <2> HIDE DEF m
    <2> QED  BY <1>1, <1>2, <2>1, <2>2, <2>3, DataKeepsInv DEF m
  <1>5. CASE OutOfSequence(m, signalled)
    <2>1. delivered' = delivered /\ last_sequence_number' = last_sequence_number
      BY <1>5 DEF OutOfSequence
    <2>2. \A i \in 1 .. Len(notes') :
              \/ i \in 1 .. Len(notes) /\ notes'[i] = notes[i]
              \/ /\ i = Len(notes) + 1
                 /\ notes'[i] = [cmd |-> "GAP", seq |-> last_sequence_number, upto |-> Len(delivered)]
      <3>1. \/ notes' = notes
            \/ rwcpSendNotification("GAP", last_sequence_number, Len(delivered))
        BY <1>5 DEF OutOfSequence
      <3> QED  BY <3>1, <1>3, Answers
    <2>3. Len(delivered) < wanted' /\ wanted <= Len(delivered) + Window
      BY <2>1, <1>3, SMT DEF wanted
    <2> HIDE DEF m, signalled
    <2> QED  BY <1>1, <1>3, <2>1, <2>2, <2>3, DataKeepsInv DEF m
  <1>6. CASE Duplicate(m, signalled)
    <2>1. delivered' = delivered /\ last_sequence_number' = last_sequence_number
      BY <1>6 DEF Duplicate
    <2>2. \A i \in 1 .. Len(notes') :
              \/ i \in 1 .. Len(notes) /\ notes'[i] = notes[i]
              \/ i = Len(notes) + 1 /\ notes'[i] = [cmd |-> "DATA_ACK", seq |-> m.seq, upto |-> m.payload]
      BY <1>2, <1>3, <1>6, Answers DEF Duplicate
    <2>3. m.payload < wanted'
      BY <2>1, <1>2, <1>6 DEF Duplicate, wanted
    <2> HIDE DEF m, signalled
    <2> QED  BY <1>1, <1>2, <2>1, <2>2, <2>3, DataKeepsInv DEF m
  <1> QED  BY <1>4, <1>5, <1>6 DEF ReceiveData, handleDataSegment

(* A session ends at the server: only RST is left of it. *)
LEMMA OtherKeepsInv ==
    ASSUME RwcpTypeOK, RwcpTypeOK', SessionInv, Takes, ReceiveOther(Head(segments))
    PROVE  SessionInv'
  <1> DEFINE m == Head(segments)
  <1>1. /\ m.cmd = "RST" \/ (m.cmd = "SYN" /\ phase = "syn" /\ protocol_state = "ESTABLISHED")
        /\ m.seq \in 0 .. SequenceMax - 1 /\ phase # "open"
        /\ protocol_state' = "LISTEN" /\ last_sequence_number' = last_sequence_number
        /\ delivered' = delivered
    BY HeadOfSession, Taken DEF ReceiveOther, Takes, Segment, RwcpTypeOK
  <1>2. \A i \in 1 .. Len(notes') :
            \/ i \in 1 .. Len(notes) /\ notes'[i] = notes[i]
            \/ i = Len(notes) + 1 /\ notes'[i] = [cmd |-> "RST", seq |-> m.seq, upto |-> 0]
    BY <1>1, Answers, SMT DEF ReceiveOther, RwcpTypeOK
  <1>3. SynIsFresh'
    BY <1>1 DEF SynIsFresh
  <1>4. NothingLeft'
    <2> SUFFICES ASSUME phase = "closed"
                 PROVE  /\ \A i \in 1 .. Len(segments') : segments'[i].cmd = "RST"
                        /\ \A i \in 1 .. Len(notes') : notes'[i].cmd = "RST"
      BY Taken DEF NothingLeft
    <2> QED  BY <1>2, Taken DEF SessionInv, NothingLeft
  <1>5. Opening'
    <2> SUFFICES ASSUME phase = "syn"
                 PROVE  (base = 1 /\ OpeningSegments /\ OpeningNotes)'
      BY Taken DEF Opening
    <2>1. base = 1 /\ OpeningSegments /\ OpeningNotes
      BY DEF SessionInv, Opening
    <2>2. OpeningSegments'
      BY <2>1, Taken, SMT DEF OpeningSegments
    <2>3. \A i \in 1 .. Len(notes) : notes[i].cmd = "RST"
      BY <2>1, <1>1, Taken DEF OpeningNotes
    <2>4. \A i \in 1 .. Len(notes') : notes'[i].cmd = "RST"
      BY <2>3, <1>2
    <2> QED  BY <2>1, <2>2, <2>4, Taken DEF OpeningNotes
  <1>6. InSession'
    <2> SUFFICES ASSUME phase = "reset"
                 PROVE  (ServerInStep /\ SegmentOrder /\ DataInWindow /\ NoteOrder /\ AcksInWindow)'
      BY <1>1, Taken DEF InSession
    <2>1. ServerInStep /\ SegmentOrder /\ DataInWindow /\ NoteOrder /\ AcksInWindow
      BY DEF SessionInv, InSession
    <2>2. \A i \in 1 .. Len(segments') : segments'[i].cmd = "RST"
      BY <2>1, <1>1, Taken, SMT DEF SegmentOrder
    <2>3. ServerInStep'
      BY <2>1, <1>1, Taken DEF ServerInStep, wanted
    <2>4. SegmentOrder' /\ DataInWindow'
      BY <2>2, Taken DEF SegmentOrder, DataInWindow
    <2>5. NoteOrder'
      <3> SUFFICES ASSUME NEW i \in 1 .. Len(notes'), NEW j \in 1 .. Len(notes'), i < j,
                          notes'[i].cmd = "RST"
                   PROVE  notes'[j].cmd = "RST"
        BY <1>1 DEF NoteOrder
      <3>1. i \in 1 .. Len(notes) /\ notes'[i] = notes[i]
        BY <1>2, ElementTypes, SMT
      <3> QED  BY <3>1, <2>1, <1>2 DEF NoteOrder
    <2>6. AcksInWindow'
      <3>1. \A i \in 1 .. Len(notes') : IsAck(notes'[i]) => i \in 1 .. Len(notes) /\ notes'[i] = notes[i]
        BY <1>2 DEF IsAck
      <3> QED  BY <3>1, <2>1, <1>1, Taken DEF AcksInWindow, wanted
    <2> QED  BY <2>3, <2>4, <2>5, <2>6
  <1> QED  BY <1>3, <1>4, <1>5, <1>6 DEF SessionInv

(* A segment lost before the server leaves the others as they were. *)
LEMMA DropKeepsInv ==
    ASSUME RwcpTypeOK, RwcpTypeOK', SessionInv, Drop
    PROVE  SessionInv'
  <1>1. Takes /\ notes' = notes /\ protocol_state' = protocol_state
        /\ last_sequence_number' = last_sequence_number /\ delivered' = delivered
    BY DEF Drop, Takes, serverVars
  <1>2. SynIsFresh' /\ NothingLeft'
    BY <1>1, Taken DEF SessionInv, SynIsFresh, NothingLeft
  <1>3. Opening'
    <2> SUFFICES ASSUME phase = "syn"
                 PROVE  (base = 1 /\ OpeningSegments /\ OpeningNotes)'
      BY <1>1, Taken DEF Opening
    <2>1. base = 1 /\ OpeningSegments /\ OpeningNotes
      BY DEF SessionInv, Opening
    <2>2. OpeningSegments'
      <3>1. /\ start' = start
            /\ \A i \in 1 .. Len(segments') : i + 1 \in 1 .. Len(segments) /\ segments'[i] = segments[i + 1]
        BY <1>1, Taken
      <3> QED  BY <2>1, <3>1, SMT DEF OpeningSegments
    <2>3. OpeningNotes'
      BY <2>1, <1>1, Taken DEF OpeningNotes
    <2> QED  BY <2>1, <2>2, <2>3, <1>1, Taken
  <1>4. InSession'
    <2> SUFFICES ASSUME phase \in {"open", "reset"}
                 PROVE  (ServerInStep /\ SegmentOrder /\ DataInWindow /\ NoteOrder /\ AcksInWindow)'
      BY <1>1, Taken DEF InSession
    <2>1. ServerInStep /\ SegmentOrder /\ DataInWindow /\ NoteOrder /\ AcksInWindow
      BY DEF SessionInv, InSession
    <2>2. ServerInStep' /\ NoteOrder' /\ AcksInWindow'
      BY <2>1, <1>1, Taken DEF ServerInStep, NoteOrder, AcksInWindow, wanted
    <2>3. SegmentOrder'
      BY <2>1, <1>1, TailOrder
    <2>4. DataInWindow'
      BY <2>1, <1>1, TailInWindow
    <2> QED  BY <2>2, <2>3, <2>4
  <1> QED  BY <1>2, <1>3, <1>4 DEF SessionInv

(* A SYN that is sent: of the session before, only RST is on its way. *)
LEMMA SendSynKeepsInv ==
    ASSUME RwcpTypeOK, RwcpTypeOK', SessionInv, SendSyn
    PROVE  SessionInv'
  <1>1. /\ phase' = "syn" /\ base' = 1 /\ notes' = notes /\ protocol_state' = protocol_state
        /\ last_sequence_number' = last_sequence_number /\ delivered' = delivered
        /\ phase = "closed" \/ (phase = "syn" /\ start' = start)
    BY DEF SendSyn, serverVars
  <1>2. (start' + 0) % SequenceMax = start'
    <2>1. start' \in 0 .. SequenceMax - 1
      BY Zenon DEF RwcpTypeOK
    <2> QED  BY <2>1, Modulus, ModOfSmall
  <1>3. \A i \in 1 .. Len(segments') :
            \/ i \in 1 .. Len(segments) /\ segments'[i] = segments[i]
            \/ /\ i = Len(segments) + 1
               /\ segments'[i] = [cmd |-> "SYN", payload |-> 0, seq |-> (start' + 0) % SequenceMax]
    BY Sends DEF SendSyn, RwcpTypeOK
  <1>4. \A i \in 1 .. Len(segments') :
            \/ i \in 1 .. Len(segments) /\ segments'[i] = segments[i]
            \/ i = Len(segments) + 1 /\ segments'[i].cmd = "SYN" /\ segments'[i].seq = start'
    BY <1>2, <1>3
  <1>5. Opening'
    <2>1. CASE phase = "closed"
      <3>1. /\ \A i \in 1 .. Len(segments) : segments[i].cmd = "RST"
            /\ \A i \in 1 .. Len(notes) : notes[i].cmd = "RST"
        BY <2>1 DEF SessionInv, NothingLeft
      <3>2. OpeningNotes'
        BY <3>1, <1>1 DEF OpeningNotes
      <3>3. OpeningSegments'
        <4>1. \A i \in 1 .. Len(segments') :
                  segments'[i].cmd = "RST" \/ (segments'[i].cmd = "SYN" /\ segments'[i].seq = start')
          BY <3>1, <1>4
        <4>2. ASSUME NEW i \in 1 .. Len(segments'), NEW j \in 1 .. Len(segments'), i < j,
                     segments'[i].cmd = "SYN"
              PROVE  segments'[j].cmd = "SYN"
          BY <4>2, <3>1, <1>4, ElementTypes, SMT
        <4> QED  BY <4>1, <4>2 DEF OpeningSegments
      <3> QED  BY <3>2, <3>3, <1>1 DEF Opening
    <2>2. CASE phase = "syn"
      <3>1. OpeningSegments /\ OpeningNotes /\ start' = start
        BY <2>2, <1>1 DEF SessionInv, Opening
      <3>2. OpeningNotes'
        BY <3>1, <1>1, <1>4 DEF OpeningNotes
      <3>3. OpeningSegments'
        <4>1. \A i \in 1 .. Len(segments') :
                  segments'[i].cmd = "RST" \/ (segments'[i].cmd = "SYN" /\ segments'[i].seq = start')
          BY <3>1, <1>4 DEF OpeningSegments
        <4>2. ASSUME NEW i \in 1 .. Len(segments'), NEW j \in 1 .. Len(segments'), i < j,
                     segments'[i].cmd = "SYN"
              PROVE  segments'[j].cmd = "SYN"
          BY <4>2, <3>1, <1>4, ElementTypes, SMT DEF OpeningSegments
        <4> QED  BY <4>1, <4>2 DEF OpeningSegments
      <3> QED  BY <3>2, <3>3, <1>1 DEF Opening
    <2> QED  BY <1>1, <2>1, <2>2
  <1> QED  BY <1>1, <1>5 DEF SessionInv, SynIsFresh, NothingLeft, InSession

(* A payload that is sent is in the window of the client. *)
LEMMA SendDataKeepsInv ==
    ASSUME RwcpTypeOK, RwcpTypeOK', SessionInv, NEW p \in 1 .. Length, SendData(p)
    PROVE  SessionInv'
  <1>1. /\ phase = "open" /\ phase' = phase /\ start' = start /\ base' = base /\ notes' = notes
        /\ protocol_state' = protocol_state /\ last_sequence_number' = last_sequence_number
        /\ delivered' = delivered /\ p \in base .. base + Window - 1
    BY DEF SendData, serverVars, clientVars
  <1>2. \A i \in 1 .. Len(segments') :
            \/ i \in 1 .. Len(segments) /\ segments'[i] = segments[i]
            \/ /\ i = Len(segments) + 1
               /\ segments'[i] = [cmd |-> "DATA", payload |-> p, seq |-> (start' + p) % SequenceMax]
    BY Sends, SMT DEF SendData, RwcpTypeOK
  <1>3. ServerInStep /\ SegmentOrder /\ DataInWindow /\ NoteOrder /\ AcksInWindow
    BY <1>1 DEF SessionInv, InSession
  <1>4. /\ Len(segments) \in Nat /\ base \in Nat /\ Window \in Nat \ {0} /\ wanted \in Nat
        /\ \A i \in 1 .. Len(segments) : segments[i].payload \in Nat
    BY ElementTypes, RwcpAssumption, SMT DEF RwcpTypeOK, wanted
  <1>5. ServerInStep' /\ NoteOrder' /\ AcksInWindow'
    BY <1>1, <1>3 DEF ServerInStep, NoteOrder, AcksInWindow, wanted
  <1>6. SegmentOrder'
    <2>1. \A i \in 1 .. Len(segments') :
              /\ segments'[i].cmd = "SYN" => protocol_state = "SYN_RCVD" /\ segments'[i].seq = start
              /\ segments'[i].cmd # "RST" /\ protocol_state # "LISTEN"
      BY <1>1, <1>2, <1>3 DEF SegmentOrder, ServerInStep
    <2>2. ASSUME NEW i \in 1 .. Len(segments'), NEW j \in 1 .. Len(segments'), i < j,
                 segments'[i].cmd = "DATA"
          PROVE  segments'[j].cmd # "SYN"
      BY <2>2, <1>2, <1>3, <1>4, SMT DEF SegmentOrder
    <2> QED  BY <2>1, <2>2, <1>1 DEF SegmentOrder
  <1>7. DataInWindow'
    <2>1. ASSUME NEW i \in 1 .. Len(segments'), segments'[i].cmd = "DATA"
          PROVE  /\ segments'[i].seq = (start + segments'[i].payload) % SequenceMax
                 /\ segments'[i].payload < base + Window
                 /\ wanted <= segments'[i].payload + Window
      <3>1. CASE i \in 1 .. Len(segments) /\ segments'[i] = segments[i]
        BY <2>1, <3>1, <1>3 DEF DataInWindow
      <3>2. CASE segments'[i] = [cmd |-> "DATA", payload |-> p, seq |-> (start' + p) % SequenceMax]
        <4>1. p < base + Window /\ wanted <= p + Window
          BY <1>1, <1>3, <1>4, SMT DEF ServerInStep
        <4> QED  BY <4>1, <3>2, <1>1
      <3> QED  BY <3>1, <3>2, <1>2
    <2>2. ASSUME NEW i \in 1 .. Len(segments'), NEW j \in 1 .. Len(segments'), i < j,
                 segments'[i].cmd = "DATA", segments'[j].cmd = "DATA"
          PROVE  segments'[i].payload < segments'[j].payload + Window
      <3>1. i \in 1 .. Len(segments) /\ segments'[i] = segments[i]
        BY <2>2, <1>2, <1>4, SMT
      <3>2. CASE j \in 1 .. Len(segments) /\ segments'[j] = segments[j]
        BY <2>2, <3>1, <3>2, <1>3 DEF DataInWindow
      <3>3. CASE segments'[j] = [cmd |-> "DATA", payload |-> p, seq |-> (start' + p) % SequenceMax]
        <4>1. segments[i].payload < base + Window /\ segments[i].payload \in Nat
          BY <2>2, <3>1, <1>3, <1>4 DEF DataInWindow
        <4>2. base <= p /\ p \in Nat
          BY <1>1, <1>4, SMT
        <4> QED  BY <4>1, <4>2, <3>1, <3>3, <1>4, SMT
      <3> QED  BY <3>2, <3>3, <1>2
    <2> QED  BY <2>1, <2>2, <1>1 DEF DataInWindow, wanted
  <1> QED  BY <1>1, <1>5, <1>6, <1>7 DEF SessionInv, SynIsFresh, NothingLeft, Opening, InSession

(* Once the client has sent RST it sends nothing else. *)
LEMMA SendResetKeepsInv ==
    ASSUME RwcpTypeOK, RwcpTypeOK', SessionInv, SendReset
    PROVE  SessionInv'
  <1>1. /\ phase \in {"open", "reset"} /\ phase' = "reset" /\ start' = start /\ base' = base
        /\ notes' = notes /\ protocol_state' = protocol_state
        /\ last_sequence_number' = last_sequence_number /\ delivered' = delivered
    BY DEF SendReset, serverVars
  <1>2. \A i \in 1 .. Len(segments') :
            \/ i \in 1 .. Len(segments) /\ segments'[i] = segments[i]
            \/ i = Len(segments) + 1 /\ segments'[i].cmd = "RST"
    <2>1. \A i \in 1 .. Len(segments') :
              \/ i \in 1 .. Len(segments) /\ segments'[i] = segments[i]
              \/ /\ i = Len(segments) + 1
                 /\ segments'[i] = [cmd |-> "RST", payload |-> 0, seq |-> (start' + 0) % SequenceMax]
      BY Sends DEF SendReset, RwcpTypeOK
    <2> QED  BY <2>1
  <1>3. ServerInStep /\ SegmentOrder /\ DataInWindow /\ NoteOrder /\ AcksInWindow
    BY <1>1 DEF SessionInv, InSession
  <1>4. ServerInStep' /\ NoteOrder' /\ AcksInWindow'
    BY <1>1, <1>3 DEF ServerInStep, NoteOrder, AcksInWindow, wanted
  <1>5. SegmentOrder'
    <2>1. \A i \in 1 .. Len(segments') :
              /\ segments'[i].cmd = "SYN" => protocol_state = "SYN_RCVD" /\ segments'[i].seq = start
              /\ protocol_state = "LISTEN" => segments'[i].cmd = "RST"
      BY <1>2, <1>3 DEF SegmentOrder
    <2>2. ASSUME NEW i \in 1 .. Len(segments'), NEW j \in 1 .. Len(segments'), i < j
          PROVE  /\ segments'[i].cmd = "RST" => segments'[j].cmd = "RST"
                 /\ segments'[i].cmd = "DATA" => segments'[j].cmd # "SYN"
      <3>1. i \in 1 .. Len(segments) /\ segments'[i] = segments[i]
        BY <2>2, <1>2, ElementTypes, SMT
      <3> QED  BY <2>2, <3>1, <1>2, <1>3 DEF SegmentOrder
    <2> QED  BY <2>1, <2>2, <1>1 DEF SegmentOrder
  <1>6. DataInWindow'
    <2>1. \A i \in 1 .. Len(segments') :
              segments'[i].cmd = "DATA" => i \in 1 .. Len(segments) /\ segments'[i] = segments[i]
      BY <1>2
    <2> QED  BY <2>1, <1>1, <1>3 DEF DataInWindow, wanted
  <1> QED  BY <1>1, <1>4, <1>5, <1>6 DEF SessionInv, SynIsFresh, NothingLeft, Opening, InSession

(* What an answer says to the client: the payloads up to the one it speaks *)
(* of, or nothing if those are acknowledged already.                       *)
LEMMA AckInWindow ==
    ASSUME RwcpTypeOK, SessionInv, notes # <<>>, phase = "open", IsAck(Head(notes))
    PROVE  LET n == Head(notes) IN
           IF Ahead(n.seq) < Window THEN Ahead(n.seq) = n.upto - base /\ base <= n.upto
                                    ELSE TRUE
  <1> DEFINE n == Head(notes)
             a == start + n.upto
             b == start + base
  <1>1. n \in Note /\ n = notes[1] /\ 1 \in 1 .. Len(notes)
    BY TailFacts DEF RwcpTypeOK
  <1>2. n.upto \in Nat
    BY <1>1 DEF Note
  <1>3. n.upto < wanted /\ base <= n.upto + Window /\ wanted <= base + Window
    BY <1>1 DEF SessionInv, InSession, AcksInWindow, ServerInStep
  <1>4. n.seq = a % SequenceMax
    BY <1>1 DEF SessionInv, InSession, AcksInWindow
  <1>5. /\ Len(delivered) \in Nat /\ start \in Nat /\ base \in Nat /\ Window \in Nat \ {0}
        /\ WindowMax \in Nat /\ Window <= WindowMax /\ SequenceMax \in Nat \ {0}
        /\ WindowMax + Window <= SequenceMax
    BY RwcpAssumption, SMT DEF RwcpTypeOK
  <1>6. a \in Int /\ b \in Int /\ a - b = n.upto - base /\ a - b < Window /\ b - a <= Window
    BY <1>2, <1>3, <1>5, SMT DEF wanted
  <1> HIDE DEF a, b
  <1>7. a - b < SequenceMax /\ b - a <= SequenceMax
    BY <1>5, <1>6, SMT
  <1>8. Ahead(n.seq) = IF b <= a THEN a - b ELSE (a - b) + SequenceMax
    <2>1. (((a % SequenceMax) - (b % SequenceMax)) + SequenceMax) % SequenceMax
              = IF b <= a THEN a - b ELSE (a - b) + SequenceMax
      BY <1>5, <1>6, <1>7, ModDistance
    <2> QED  BY <2>1, <1>4 DEF Ahead, b
  <1> QED  BY <1>2, <1>5, <1>6, <1>8, SMT

(* Acknowledgements move the window on. *)
LEMMA WindowMoves ==
    ASSUME NEW w \in Nat, NEW b \in Nat, NEW c \in Nat, NEW k \in Nat, w <= b + k, b <= c
    PROVE  w <= c + k
  BY SMT

(* The same, counted from 0. *)
LEMMA OneLess ==
    ASSUME NEW b \in Nat \ {0}, NEW l \in Nat, NEW c \in b + 1 .. l + 1
    PROVE  c - 1 \in (b - 1) + 1 .. l
  BY SMT

(* An answer: the client learns of nothing that GAIA does not have. *)
LEMMA ClientReceiveKeepsInv ==
    ASSUME RwcpTypeOK, RwcpTypeOK', SessionInv, ClientReceive
    PROVE  SessionInv' /\ (base' = base \/ base' \in base + 1 .. wanted)
  <1> DEFINE n == Head(notes)
  <1>1. /\ notes # <<>> /\ n = notes[1] /\ 1 \in 1 .. Len(notes) /\ n \in Note
        /\ \A i \in 1 .. Len(notes') : i + 1 \in 1 .. Len(notes) /\ notes'[i] = notes[i + 1]
    BY TailFacts DEF ClientReceive, RwcpTypeOK
  <1>2. /\ start' = start /\ segments' = segments /\ protocol_state' = protocol_state
        /\ last_sequence_number' = last_sequence_number /\ delivered' = delivered
    BY DEF ClientReceive, serverVars
  <1>3. /\ phase = "syn" /\ n.cmd = "SYN_ACK" => phase' = "open"
        /\ phase \in {"open", "reset"} /\ n.cmd = "RST" => phase' = "closed"
        /\ ~(phase = "syn" /\ n.cmd = "SYN_ACK") /\ ~(phase \in {"open", "reset"} /\ n.cmd = "RST")
              => phase' = phase
    BY DEF ClientReceive
  <1>4. base' = IF phase = "open" /\ IsAck(n) /\ Ahead(n.seq) < Window
                THEN base + Ahead(n.seq) + 1 ELSE base
    BY DEF ClientReceive, IsAck
  <1>5. /\ Len(delivered) \in Nat /\ wanted \in Nat /\ wanted' = wanted /\ base \in Nat \ {0}
        /\ Window \in Nat \ {0} /\ Len(notes) \in Nat
        /\ \A i \in 1 .. Len(notes) : notes[i].upto \in Nat
        /\ \A i \in 1 .. Len(segments) : segments[i].payload \in Nat
    BY <1>2, RwcpAssumption, ElementTypes, SMT DEF RwcpTypeOK, wanted
  <1>6. SynIsFresh'
    BY <1>2 DEF SessionInv, SynIsFresh
  <1>7. CASE phase = "closed"
    <2>1. NothingLeft' /\ phase' = "closed" /\ base' = base
      BY <1>1, <1>2, <1>3, <1>4, <1>7 DEF SessionInv, NothingLeft
    <2> QED  BY <2>1, <1>6 DEF SessionInv, Opening, InSession
  <1>8. CASE phase = "syn"
    <2>1. base = 1 /\ OpeningSegments /\ OpeningNotes /\ base' = base
      BY <1>4, <1>8 DEF SessionInv, Opening
    <2>2. CASE n.cmd = "SYN_ACK"
      <3>1. /\ phase' = "open" /\ protocol_state = "SYN_RCVD" /\ last_sequence_number = start
            /\ delivered = <<>>
            /\ \A i \in 1 .. Len(segments) : segments[i].cmd = "SYN" /\ segments[i].seq = start
        BY <2>1, <2>2, <1>1, <1>3, <1>8 DEF OpeningNotes, OpeningSegments, SessionInv, SynIsFresh
      <3>2. \A i \in 1 .. Len(notes') : notes'[i].cmd = "SYN_ACK"
        <4> SUFFICES ASSUME NEW i \in 1 .. Len(notes')
                     PROVE  notes'[i].cmd = "SYN_ACK"
          OBVIOUS
        <4>1. i + 1 \in 1 .. Len(notes) /\ 1 < i + 1 /\ notes'[i] = notes[i + 1]
          BY <1>1, SMT
        <4> QED  BY <4>1, <2>1, <2>2, <1>1 DEF OpeningNotes
      <3>3. ServerInStep'
        <4>1. start = (start + Len(delivered)) % SequenceMax
          <5>1. Len(delivered) = 0
            BY <3>1
          <5> QED  BY <5>1, Modulus, ModOfSmall DEF RwcpTypeOK
        <4>2. wanted = 1
          BY <3>1, SMT DEF wanted
        <4>3. base' <= wanted' /\ wanted' <= base' + Window
          BY <4>2, <2>1, <1>5, SMT
        <4> QED  BY <4>1, <4>3, <3>1, <1>2 DEF ServerInStep
      <3>4. (SegmentOrder /\ DataInWindow /\ NoteOrder /\ AcksInWindow)'
        BY <3>1, <3>2, <1>2 DEF SegmentOrder, DataInWindow, NoteOrder, AcksInWindow, IsAck
      <3> QED  BY <3>1, <3>3, <3>4, <2>1, <1>6 DEF SessionInv, NothingLeft, Opening, InSession
    <2>3. CASE n.cmd # "SYN_ACK"
      <3>1. phase' = "syn" /\ OpeningSegments'
        BY <2>1, <2>3, <1>2, <1>3, <1>8 DEF OpeningSegments
      <3>2. OpeningNotes'
        <4>1. ASSUME NEW i \in 1 .. Len(notes'), NEW j \in 1 .. Len(notes'), i < j,
                     notes'[i].cmd = "SYN_ACK"
              PROVE  notes'[j].cmd = "SYN_ACK"
          <5>1. /\ i + 1 \in 1 .. Len(notes) /\ j + 1 \in 1 .. Len(notes) /\ i + 1 < j + 1
                /\ notes'[i] = notes[i + 1] /\ notes'[j] = notes[j + 1]
            BY <4>1, <1>1, SMT
          <5> QED  BY <5>1, <4>1, <2>1 DEF OpeningNotes
        <4> QED  BY <4>1, <2>1, <1>1, <1>2 DEF OpeningNotes
      <3> QED  BY <3>1, <3>2, <2>1, <1>6 DEF SessionInv, NothingLeft, Opening, InSession
    <2> QED  BY <2>2, <2>3
  <1>9. CASE phase \in {"open", "reset"}
    <2>1. ServerInStep /\ SegmentOrder /\ DataInWindow /\ NoteOrder /\ AcksInWindow
      BY <1>9 DEF SessionInv, InSession
    <2>2. CASE n.cmd = "RST"
      <3>1. phase' = "closed" /\ base' = base /\ protocol_state = "LISTEN"
        BY <2>1, <2>2, <1>1, <1>3, <1>4, <1>9 DEF NoteOrder, IsAck
      <3>2. \A i \in 1 .. Len(segments') : segments'[i].cmd = "RST"
        BY <3>1, <2>1, <1>2 DEF SegmentOrder
      <3>3. \A i \in 1 .. Len(notes') : notes'[i].cmd = "RST"
        <4> SUFFICES ASSUME NEW i \in 1 .. Len(notes')
                     PROVE  notes'[i].cmd = "RST"
          OBVIOUS
        <4>1. i + 1 \in 1 .. Len(notes) /\ 1 < i + 1 /\ notes'[i] = notes[i + 1]
          BY <1>1, SMT
        <4> QED  BY <4>1, <2>1, <2>2, <1>1 DEF NoteOrder
      <3> QED  BY <3>1, <3>2, <3>3, <1>6 DEF SessionInv, NothingLeft, Opening, InSession
    <2>3. CASE n.cmd # "RST"
      <3>1. phase' = phase
        BY <2>3, <1>3, <1>9
      <3>2. \/ base' = base
            \/ IsAck(n) /\ base' = n.upto + 1 /\ base <= n.upto /\ n.upto < wanted
        <4>1. CASE phase = "open" /\ IsAck(n) /\ Ahead(n.seq) < Window
          <5>1. Ahead(n.seq) = n.upto - base /\ base <= n.upto
            BY <4>1, <1>1, AckInWindow
          <5>2. n.upto < wanted /\ n.upto \in Nat
            BY <4>1, <1>1, <1>5, <2>1 DEF AcksInWindow
          <5> QED  BY <4>1, <5>1, <5>2, <1>4, <1>5, SMT
        <4> QED  BY <4>1, <1>4
      <3>3. base' = base \/ base' \in base + 1 .. wanted
        <4>1. n.upto \in Nat
          BY <1>1 DEF Note
        <4> QED  BY <4>1, <3>2, <1>5, SMT
      <3>4. base' \in Nat /\ base <= base' /\ base' <= wanted
        BY <3>3, <2>1, <1>5, SMT DEF ServerInStep
      <3>5. ServerInStep'
        <4>1. base' <= wanted' /\ wanted' <= base' + Window
          <5>1. wanted <= base + Window
            BY <2>1 DEF ServerInStep
          <5>2. /\ wanted \in Nat /\ base \in Nat /\ base' \in Nat /\ Window \in Nat
                /\ base <= base' /\ base' <= wanted
            BY <3>4, <1>5
          <5>3. base' <= wanted /\ wanted <= base' + Window
            BY <5>1, <5>2, WindowMoves
          <5> QED  BY <5>3, <1>5, Zenon
        <4> QED  BY <4>1, <3>1, <2>1, <1>2 DEF ServerInStep
      <3>6. SegmentOrder'
        BY <3>1, <2>1, <1>2 DEF SegmentOrder
      <3>7. DataInWindow'
        <4>1. ASSUME NEW i \in 1 .. Len(segments), segments[i].cmd = "DATA"
              PROVE  segments[i].payload < base' + Window
          <5>1. segments[i].payload < base + Window /\ segments[i].payload \in Nat
            BY <4>1, <2>1, <1>5 DEF DataInWindow
          <5> QED  BY <5>1, <3>4, <1>5, SMT
        <4> QED  BY <4>1, <2>1, <1>2, <1>5 DEF DataInWindow
      <3>8. NoteOrder'
        <4>1. ASSUME NEW i \in 1 .. Len(notes'), NEW j \in 1 .. Len(notes'), i < j,
                     notes'[i].cmd = "RST"
              PROVE  notes'[j].cmd = "RST"
          <5>1. /\ i + 1 \in 1 .. Len(notes) /\ j + 1 \in 1 .. Len(notes) /\ i + 1 < j + 1
                /\ notes'[i] = notes[i + 1] /\ notes'[j] = notes[j + 1]
            BY <4>1, <1>1, SMT
          <5> QED  BY <5>1, <4>1, <2>1 DEF NoteOrder
        <4> QED  BY <4>1, <2>1, <1>1, <1>2 DEF NoteOrder
      <3>9. AcksInWindow'
        <4>1. ASSUME NEW i \in 1 .. Len(notes'), IsAck(notes'[i])
              PROVE  /\ notes'[i].seq = (start + notes'[i].upto) % SequenceMax
                     /\ notes'[i].upto < wanted
                     /\ base' <= notes'[i].upto + Window
          <5>1. i + 1 \in 1 .. Len(notes) /\ 1 < i + 1 /\ notes'[i] = notes[i + 1]
            BY <1>1, SMT
          <5>2. /\ notes'[i].seq = (start + notes'[i].upto) % SequenceMax
                /\ notes'[i].upto < wanted /\ base <= notes'[i].upto + Window
                /\ notes'[i].upto \in Nat
            BY <4>1, <5>1, <2>1, <1>5 DEF AcksInWindow
          <5>3. IsAck(n) => n.upto < notes'[i].upto + Window /\ n.upto \in Nat
            BY <4>1, <5>1, <2>1, <1>1, <1>5 DEF AcksInWindow
          <5> QED  BY <5>2, <5>3, <3>2, <1>5, SMT
        <4>2. ASSUME NEW i \in 1 .. Len(notes'), NEW j \in 1 .. Len(notes'), i < j,
                     IsAck(notes'[i]), IsAck(notes'[j])
              PROVE  notes'[i].upto < notes'[j].upto + Window
          <5>1. /\ i + 1 \in 1 .. Len(notes) /\ j + 1 \in 1 .. Len(notes) /\ i + 1 < j + 1
                /\ notes'[i] = notes[i + 1] /\ notes'[j] = notes[j + 1]
            BY <4>2, <1>1, SMT
          <5> QED  BY <5>1, <4>2, <2>1 DEF AcksInWindow
        <4> QED  BY <4>1, <4>2, <1>2, <1>5 DEF AcksInWindow
      <3> QED  BY <3>1, <3>3, <3>5, <3>6, <3>7, <3>8, <3>9, <1>6, <1>9
               DEF SessionInv, NothingLeft, Opening, InSession
    <2> QED  BY <2>2, <2>3
  <1> QED  BY <1>7, <1>8, <1>9 DEF RwcpTypeOK

(* The streams of a link that went down are gone. *)
LEMMA LinkDownKeepsInv ==
    ASSUME SessionInv, LinkDown
    PROVE  SessionInv'
  <1>1. /\ segments' = <<>> /\ notes' = <<>> /\ phase' = "closed"
        /\ protocol_state' = protocol_state /\ delivered' = delivered
    BY DEF LinkDown, serverVars
  <1>2. \A i \in 1 .. Len(<<>>) : FALSE
    BY SMT
  <1>3. NothingLeft'
    BY <1>1, <1>2 DEF NothingLeft
  <1> QED  BY <1>1, <1>3 DEF SessionInv, SynIsFresh, Opening, InSession

(* Every step of server, client and link keeps the invariant. *)
LEMMA StepKeepsInv ==
    ASSUME RwcpTypeOK, RwcpTypeOK', SessionInv, [RwcpNext]_rwcpVars
    PROVE  SessionInv'
  <1>1. CASE RwcpServerHandleMessage
    <2>1. Takes /\ (\/ ReceiveSyn(Head(segments))
                    \/ ReceiveData(Head(segments))
                    \/ ReceiveOther(Head(segments)))
      BY <1>1 DEF RwcpServerHandleMessage, Takes
    <2> QED  BY <2>1, SynKeepsInv, ReceiveDataKeepsInv, OtherKeepsInv
  <1>2. CASE SendSyn
    BY <1>2, SendSynKeepsInv
  <1>3. ASSUME NEW p \in 1 .. Length, SendData(p)
        PROVE  SessionInv'
    BY <1>3, SendDataKeepsInv
  <1>4. CASE SendReset
    BY <1>4, SendResetKeepsInv
  <1>5. CASE ClientReceive
    BY <1>5, ClientReceiveKeepsInv
  <1>6. CASE Drop
    BY <1>6, DropKeepsInv
  <1>7. CASE LinkDown
    BY <1>7, LinkDownKeepsInv
  <1>8. CASE UNCHANGED rwcpVars
    BY <1>8 DEF rwcpVars, serverVars, clientVars, SessionInv, SynIsFresh, NothingLeft, Opening,
                OpeningSegments, OpeningNotes, InSession, ServerInStep, SegmentOrder,
                DataInWindow, NoteOrder, AcksInWindow, wanted
  <1> QED  BY <1>1, <1>2, <1>3, <1>4, <1>5, <1>6, <1>7, <1>8 DEF RwcpNext, ClientSend

(* In every session, after every loss, answer and wrap of the numbers, the  *)
(* server's number is that of the last payload GAIA has, and everything on  *)
(* its way is within a window of it (isNextSequence, isOutOfSequence).      *)
THEOREM SessionsInStep == RwcpSpec => []SessionInv
  <1>1. RwcpInit => SessionInv
    <2> SUFFICES ASSUME RwcpInit
                 PROVE  SessionInv
      OBVIOUS
    <2>1. \A i \in 1 .. Len(<<>>) : FALSE
      BY SMT
    <2>2. NothingLeft
      BY <2>1 DEF RwcpInit, NothingLeft
    <2> QED  BY <2>2 DEF RwcpInit, SessionInv, SynIsFresh, Opening, InSession
  <1>2. RwcpTypeOK /\ RwcpTypeOK' /\ SessionInv /\ [RwcpNext]_rwcpVars => SessionInv'
    BY StepKeepsInv
  <1> QED  BY <1>1, <1>2, TypeCorrect, PTL DEF RwcpSpec

-----------------------------------------------------------------------------
(* What the sender relies on. *)

(* What a step does to what GAIA has. *)
LEMMA DeliveredStep ==
    ASSUME RwcpTypeOK, SessionInv, [RwcpNext]_rwcpVars
    PROVE  \/ delivered' = delivered
           \/ delivered' = Append(delivered, wanted) /\ base' = base
           \/ delivered' = <<>> /\ base = 1 /\ base' = base
  <1>1. CASE RwcpServerHandleMessage
    <2> DEFINE m == Head(segments)
               signalled == protocol_state = "ESTABLISHED" /\ out_of_sequence_status
    <2>1. segments # <<>> /\ base' = base /\ Takes
      BY <1>1 DEF RwcpServerHandleMessage, clientVars, Takes
    <2>2. CASE ReceiveSyn(m)
      <3>1. /\ delivered' = <<>> /\ m.cmd = "SYN"
            /\ phase # "closed"
            /\ phase \in {"open", "reset"} => protocol_state = "SYN_RCVD"
        BY <2>1, <2>2, HeadOfSession DEF ReceiveSyn
      <3>2. base = 1
        <4>1. CASE phase = "syn"
          BY <4>1 DEF SessionInv, Opening
        <4>2. CASE phase \in {"open", "reset"}
          <5>1. delivered = <<>> /\ base <= wanted
            BY <3>1, <4>2 DEF SessionInv, SynIsFresh, InSession, ServerInStep
          <5>2. base \in Nat \ {0} /\ wanted = 1
            BY <5>1, SMT DEF RwcpTypeOK, wanted
          <5> QED  BY <5>1, <5>2, SMT
        <4> QED  BY <3>1, <4>1, <4>2 DEF RwcpTypeOK
      <3> QED  BY <2>1, <3>1, <3>2
    <2>3. CASE ReceiveData(m)
      <3>1. CASE InSequence(m)
        <4>1. m.cmd = "DATA" /\ isNextSequence(m.seq) /\ delivered' = Append(delivered, m.payload)
          BY <2>3, <3>1 DEF ReceiveData, InSequence
        <4>2. m.payload = wanted
          BY <2>1, <4>1, HeadInWindow
        <4> QED  BY <2>1, <4>1, <4>2
      <3>2. CASE OutOfSequence(m, signalled)
        BY <3>2 DEF OutOfSequence
      <3>3. CASE Duplicate(m, signalled)
        BY <3>3 DEF Duplicate
      <3> QED  BY <2>3, <3>1, <3>2, <3>3 DEF ReceiveData, handleDataSegment
    <2>4. CASE ReceiveOther(m)
      BY <2>4 DEF ReceiveOther
    <2> QED  BY <1>1, <2>2, <2>3, <2>4 DEF RwcpServerHandleMessage
  <1>2. CASE ~RwcpServerHandleMessage
    BY <1>2 DEF RwcpNext, rwcpVars, ClientSend, SendSyn, SendData, SendReset, ClientReceive,
                Drop, LinkDown, serverVars
  <1> QED  BY <1>1, <1>2

(* What a step does to what the client knows. *)
LEMMA BaseStep ==
    ASSUME RwcpTypeOK, RwcpTypeOK', SessionInv, [RwcpNext]_rwcpVars
    PROVE  \/ base' = base
           \/ base' = 1 /\ delivered' = delivered
           \/ base' \in base + 1 .. wanted /\ delivered' = delivered
  <1>1. CASE ClientReceive
    <2>1. delivered' = delivered
      BY <1>1 DEF ClientReceive, serverVars
    <2> QED  BY <1>1, <2>1, ClientReceiveKeepsInv
  <1>2. CASE ~ClientReceive
    BY <1>2 DEF RwcpNext, rwcpVars, RwcpServerHandleMessage, ClientSend, SendSyn, SendData,
                SendReset, Drop, LinkDown, serverVars, clientVars
  <1> QED  BY <1>1, <1>2

(* Whatever is lost, repeated, given up or begun again, the server passes   *)
(* payloads 1, 2, 3, ... to GAIA in order and once each (handleDataSegment).*)
THEOREM DeliveredInOrder == RwcpSpec => []InOrder
  <1>1. RwcpInit => InOrder
    BY SMT DEF RwcpInit, InOrder
  <1>2. RwcpTypeOK /\ SessionInv /\ InOrder /\ [RwcpNext]_rwcpVars => InOrder'
    <2> SUFFICES ASSUME RwcpTypeOK, SessionInv, InOrder, [RwcpNext]_rwcpVars
                 PROVE  InOrder'
      OBVIOUS
    <2>1. CASE delivered' = delivered
      BY <2>1 DEF InOrder
    <2>2. CASE delivered' = Append(delivered, wanted)
      <3>1. delivered \in Seq(Nat) /\ Len(delivered) \in Nat /\ wanted \in Nat
        BY SMT DEF RwcpTypeOK, wanted
      <3>2. /\ Len(delivered') = Len(delivered) + 1
            /\ \A k \in 1 .. Len(delivered) + 1 :
                  delivered'[k] = IF k = Len(delivered) + 1 THEN wanted ELSE delivered[k]
        BY <2>2, <3>1, AppendFacts
      <3>3. ASSUME NEW k \in 1 .. Len(delivered')
            PROVE  delivered'[k] = k
        BY <3>1, <3>2, <3>3, SMT DEF InOrder, wanted
      <3> QED  BY <3>3 DEF InOrder
    <2>3. CASE delivered' = <<>>
      BY <2>3, SMT DEF InOrder
    <2> QED  BY <2>1, <2>2, <2>3, DeliveredStep
  <1> QED  BY <1>1, <1>2, TypeCorrect, SessionsInStep, PTL DEF RwcpSpec

(* The server and its client implement the reliable stream: a payload comes *)
(* out in its turn, and an answer confirms only what came out.              *)
THEOREM StreamImplemented == RwcpSpec => ImplementsStream
  <1>1. RwcpInit => S!Init
    BY SMT DEF RwcpInit, S!Init
  <1>2. RwcpTypeOK /\ RwcpTypeOK' /\ SessionInv /\ [RwcpNext]_rwcpVars => [S!Next]_S!vars
    <2> SUFFICES ASSUME RwcpTypeOK, RwcpTypeOK', SessionInv, [RwcpNext]_rwcpVars
                 PROVE  [S!Next]_S!vars
      OBVIOUS
    <2>1. CASE delivered' = Append(delivered, wanted) /\ base' = base
      <3>1. S!Deliver
        BY <2>1 DEF S!Deliver, wanted
      <3> QED  BY <3>1 DEF S!Next
    <2>2. CASE delivered' = <<>> /\ base = 1 /\ base' = base
      <3>1. S!Restart
        BY <2>2, SMT DEF S!Restart
      <3> QED  BY <3>1 DEF S!Next
    <2>3. CASE delivered' = delivered
      <3>1. CASE base' = base
        BY <2>3, <3>1 DEF S!vars
      <3>2. CASE base' = 1
        <4>1. S!GiveUp
          BY <2>3, <3>2, SMT DEF S!GiveUp
        <4> QED  BY <4>1 DEF S!Next
      <3>3. CASE base' \in base + 1 .. wanted
        <4>1. base \in Nat \ {0} /\ Len(delivered) \in Nat
          BY DEF RwcpTypeOK
        <4>2. base' - 1 \in (base - 1) + 1 .. Len(delivered)
          <5>1. base' \in base + 1 .. Len(delivered) + 1
            BY <3>3 DEF wanted
          <5> QED  BY <5>1, <4>1, OneLess
        <4>3. S!Confirm
          BY <2>3, <4>2 DEF S!Confirm
        <4> QED  BY <4>3 DEF S!Next
      <3> QED  BY <2>3, <3>1, <3>2, <3>3, BaseStep
    <2> QED  BY <2>1, <2>2, <2>3, DeliveredStep
  <1> QED  BY <1>1, <1>2, TypeCorrect, SessionsInStep, PTL
           DEF RwcpSpec, ImplementsStream, S!Spec
=============================================================================
