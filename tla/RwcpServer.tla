----------------------------- MODULE RwcpServer -----------------------------
(***************************************************************************)
(* The RWCP server (libs/rwcp_server/rwcp_server.c), which takes the       *)
(* segments of an upgrade from the GAIA data endpoint, and a client that   *)
(* keeps to the protocol.  Segments are numbered modulo SequenceMax and    *)
(* travel, as the answers do, in order; any of them may be lost.           *)
(*                                                                         *)
(* The payloads of a session are 1, 2, 3, ...: payload p travels with the  *)
(* number (start + p) % SequenceMax, start being the number of the SYN.    *)
(***************************************************************************)
EXTENDS Integers, Sequences

CONSTANTS
    SequenceMax,    \* RWCP_SEQUENCE_NUMBER_MAX
    WindowMax,      \* RWCP_RECEIVE_WINDOW_MAX
    Window,         \* the most payloads the client has unacknowledged
    Starts,         \* the numbers the client may start from
    Length,         \* bound: the payloads of a transfer
    SegmentRoom,    \* bound: the segments on their way to the server
    NoteRoom        \* the answers the ATT sink has room for

ASSUME RwcpAssumption ==
    /\ SequenceMax \in Nat /\ WindowMax \in Nat /\ Window \in Nat \ {0}
    /\ Window <= WindowMax /\ WindowMax + Window <= SequenceMax
    /\ Starts \subseteq 0 .. SequenceMax - 1
    /\ Length \in Nat /\ SegmentRoom \in Nat /\ NoteRoom \in Nat

VARIABLES
    protocol_state,         \* "LISTEN", "SYN_RCVD" or "ESTABLISHED"
    last_sequence_number,   \* the number of the last segment in sequence
    out_of_sequence_status, \* a GAP was sent for the segment that is missing
    delivered,              \* the payloads passed to GAIA since the last SYN
    segments,               \* what the client sent, in the ATT source
    notes,                  \* what the server answered
    phase,                  \* the client: "closed", "syn", "open" or "reset"
    start,                  \* the number of the client's SYN
    base                    \* the first payload it has no acknowledgement of

serverVars == <<protocol_state, last_sequence_number, out_of_sequence_status, delivered>>
clientVars == <<phase, start, base>>
rwcpVars   == <<serverVars, clientVars, segments, notes>>

Segment == [cmd : {"SYN", "DATA", "RST"}, seq : 0 .. SequenceMax - 1, payload : Nat]

(* upto is the payload an answer speaks of: history, which no action reads. *)
Note == [cmd : {"SYN_ACK", "DATA_ACK", "GAP", "RST"}, seq : 0 .. SequenceMax - 1, upto : Nat]

RwcpTypeOK ==
    /\ protocol_state \in {"LISTEN", "SYN_RCVD", "ESTABLISHED"}
    /\ last_sequence_number \in 0 .. SequenceMax - 1
    /\ out_of_sequence_status \in BOOLEAN
    /\ delivered \in Seq(Nat) /\ segments \in Seq(Segment) /\ notes \in Seq(Note)
    /\ phase \in {"closed", "syn", "open", "reset"}
    /\ start \in 0 .. SequenceMax - 1 /\ base \in Nat \ {0}

(* RwcpServerInit, and a client that has not connected yet. *)
RwcpInit ==
    /\ protocol_state = "LISTEN" /\ last_sequence_number = 0
    /\ out_of_sequence_status = FALSE /\ delivered = <<>>
    /\ segments = <<>> /\ notes = <<>>
    /\ phase = "closed" /\ start = 0 /\ base = 1

-----------------------------------------------------------------------------
(* The server. *)

nextExpectedSequenceNumber == (last_sequence_number + 1) % SequenceMax

isNextSequence(seq) == seq = nextExpectedSequenceNumber

isOutOfSequence(seq) ==
    LET norm == (seq - last_sequence_number + SequenceMax) % SequenceMax
    IN  norm > 0 /\ norm <= WindowMax

(* rwcpSendNotification: an answer that finds no room in the sink, or the *)
(* notifications disabled, is dropped and nobody is told.                  *)
rwcpSendNotification(cmd, seq, upto) ==
    \/ UNCHANGED notes
    \/ /\ Len(notes) < NoteRoom
       /\ notes' = Append(notes, [cmd |-> cmd, seq |-> seq, upto |-> upto])

InSequence(m) ==
    /\ isNextSequence(m.seq)
    /\ rwcpSendNotification("DATA_ACK", m.seq, m.payload)
    /\ out_of_sequence_status' = FALSE
    /\ last_sequence_number' = m.seq
    /\ delivered' = Append(delivered, m.payload)

OutOfSequenceAcked(m, signalled) ==
    /\ ~isNextSequence(m.seq) /\ isOutOfSequence(m.seq)
    /\ IF signalled THEN UNCHANGED notes
                    ELSE rwcpSendNotification("GAP", m.seq, m.payload)
    /\ out_of_sequence_status' = TRUE
    /\ UNCHANGED <<last_sequence_number, delivered>>

(* The first segment after one that is missing is answered with a GAP. *)
OutOfSequence(m, signalled) ==
    /\ ~isNextSequence(m.seq) /\ isOutOfSequence(m.seq)
    /\ IF signalled THEN UNCHANGED notes
                    ELSE rwcpSendNotification("GAP", last_sequence_number, Len(delivered))
    /\ out_of_sequence_status' = TRUE
    /\ UNCHANGED <<last_sequence_number, delivered>>

Duplicate(m, signalled) ==
    /\ ~isNextSequence(m.seq) /\ ~isOutOfSequence(m.seq)
    /\ rwcpSendNotification("DATA_ACK", m.seq, m.payload)
    /\ out_of_sequence_status' = signalled
    /\ UNCHANGED <<last_sequence_number, delivered>>

handleDataSegment(m, signalled) ==
    \/ InSequence(m)
    \/ OutOfSequence(m, signalled)
    \/ Duplicate(m, signalled)

ReceiveSyn(m) ==
    /\ m.cmd = "SYN" /\ protocol_state \in {"LISTEN", "SYN_RCVD"}
    /\ rwcpSendNotification("SYN_ACK", m.seq, 0)
    /\ last_sequence_number' = m.seq
    /\ protocol_state' = "SYN_RCVD"
    /\ delivered' = <<>>
    /\ UNCHANGED out_of_sequence_status

ReceiveData(m) ==
    /\ m.cmd = "DATA" /\ protocol_state \in {"SYN_RCVD", "ESTABLISHED"}
    /\ handleDataSegment(m, protocol_state = "ESTABLISHED" /\ out_of_sequence_status)
    /\ protocol_state' = "ESTABLISHED"

ReceiveOtherIgnored(m) ==
    /\ \/ m.cmd = "RST"
       \/ m.cmd = "SYN"  /\ protocol_state = "ESTABLISHED"
       \/ m.cmd = "DATA" /\ protocol_state = "LISTEN"
    /\ rwcpSendNotification("RST", m.seq, 0)
    /\ protocol_state' = IF m.cmd = "SYN" THEN protocol_state ELSE "LISTEN"
    /\ UNCHANGED <<last_sequence_number, out_of_sequence_status, delivered>>

(* A RST, and every segment its state does not expect, ends the session. *)
ReceiveOther(m) ==
    /\ \/ m.cmd = "RST"
       \/ m.cmd = "SYN"  /\ protocol_state = "ESTABLISHED"
       \/ m.cmd = "DATA" /\ protocol_state = "LISTEN"
    /\ rwcpSendNotification("RST", m.seq, 0)
    /\ protocol_state' = "LISTEN"
    /\ UNCHANGED <<last_sequence_number, out_of_sequence_status, delivered>>

RwcpServerHandleMessage ==
    /\ segments # <<>> /\ segments' = Tail(segments)
    /\ LET m == Head(segments) IN ReceiveSyn(m) \/ ReceiveData(m) \/ ReceiveOther(m)
    /\ UNCHANGED clientVars

-----------------------------------------------------------------------------
(* The client and the link. *)

(* A segment is lost, on the air or for want of room in the ATT source. *)
Send(cmd, p) ==
    \/ UNCHANGED segments
    \/ /\ Len(segments) < SegmentRoom
       /\ segments' = Append(segments, [cmd |-> cmd, payload |-> p,
                                        seq |-> (start' + p) % SequenceMax])

(* It starts a session, or sends its SYN again. *)
SendSyn ==
    /\ \/ phase = "closed" /\ start' \in Starts
       \/ phase = "syn" /\ UNCHANGED start
    /\ phase' = "syn" /\ base' = 1
    /\ Send("SYN", 0)
    /\ UNCHANGED <<serverVars, notes>>

(* It sends any payload of its window, for the first time or again. *)
SendData(p) ==
    /\ phase = "open" /\ p \in base .. base + Window - 1 /\ p <= Length
    /\ UNCHANGED clientVars
    /\ Send("DATA", p)
    /\ UNCHANGED <<serverVars, notes>>

(* It gives the session up, and sends RST until the server answers it. *)
SendReset ==
    /\ phase \in {"open", "reset"} /\ phase' = "reset"
    /\ UNCHANGED <<start, base>>
    /\ Send("RST", 0)
    /\ UNCHANGED <<serverVars, notes>>

(* How far beyond the payloads that were acknowledged an answer speaks. *)
Ahead(seq) == (seq - ((start + base) % SequenceMax) + SequenceMax) % SequenceMax

ClientReceive ==
    /\ notes # <<>> /\ notes' = Tail(notes)
    /\ LET n == Head(notes) IN
          /\ phase' = CASE phase = "syn" /\ n.cmd = "SYN_ACK" -> "open"
                        [] phase \in {"open", "reset"} /\ n.cmd = "RST" -> "closed"
                        [] OTHER -> phase
          /\ base' = IF /\ phase = "open" /\ n.cmd \in {"DATA_ACK", "GAP"}
                        /\ Ahead(n.seq) < Window
                     THEN base + Ahead(n.seq) + 1 ELSE base
    /\ UNCHANGED <<start, segments, serverVars>>

(* A segment is dropped before it reaches the server. *)
Drop ==
    /\ segments # <<>> /\ segments' = Tail(segments)
    /\ UNCHANGED <<serverVars, clientVars, notes>>

(* The link goes down: the streams are gone, the server's state stays. *)
LinkDown ==
    /\ segments' = <<>> /\ notes' = <<>> /\ phase' = "closed"
    /\ UNCHANGED <<serverVars, start, base>>

ClientSend == SendSyn \/ SendReset \/ \E p \in 1 .. Length : SendData(p)

RwcpNext == RwcpServerHandleMessage \/ ClientSend \/ ClientReceive \/ Drop \/ LinkDown

RwcpSpec == RwcpInit /\ [][RwcpNext]_rwcpVars

-----------------------------------------------------------------------------
(* Properties. *)

(* Over lost segments, lost answers, wrapped numbers, resets and new links  *)
(* the payloads reach GAIA in order and once each (isNextSequence,          *)
(* isOutOfSequence), and no answer confirms one that did not.               *)
S == INSTANCE ReliableStream WITH out <- delivered, confirmed <- base - 1
ImplementsStream == S!Spec
=============================================================================
