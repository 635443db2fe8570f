-------------------------- MODULE HandoverProfile ---------------------------
(***************************************************************************)
(* The handover of the primary role over one connection of the handover    *)
(* profile: the procedure of the primary, one state at a time, the message *)
(* handler of the secondary, and the L2CAP channel between them, which     *)
(* keeps order, loses nothing and may take any time, so that every wait    *)
(* may time out.  Roles change places with each handover.                  *)
(***************************************************************************)
EXTENDS Integers, Sequences

CONSTANTS
    Earbuds,        \* the two earbuds
    FirstPrimary,   \* the one that connected the profile
    Others,         \* handsets connected beside the mirrored one
    SessionIds,     \* the values of a uint8
    Unreliable,     \* work whose undoing may fail
    MaxSessions     \* bound: the sessions an earbud starts

(* What the states of the primary leave to be undone: the device list,     *)
(* marshalled clients, halted and prepared links, and the peer link mode.  *)
Work == {"setup", "send_p1_marshal_data", "halt_inactive", "prepare_inactive", "halt_active",
         "set_peer_link_active", "prepare_active"}

(* Only a link that is resumed, a preparation that is cancelled and the     *)
(* peer link put back into sniff mode may fail, which the code ignores.    *)
ASSUME HandoverAssumption ==
    /\ \E p \in Earbuds : p # FirstPrimary /\ Earbuds = {FirstPrimary, p}
    /\ Others \in Nat /\ MaxSessions \in Nat
    /\ SessionIds \in Nat /\ SessionIds > MaxSessions
    /\ Unreliable \subseteq Work \ {"setup", "send_p1_marshal_data"}

(* handover_profile_primary_states, without HO_PRIMARY_STATE_COMPLETE.     *)
States == <<
    "setup", "self_veto", "veto", "send_start_req", "wait_for_start_cfm",
    "send_p1_marshal_data", "wait_for_marshal_data_cfm", "veto", "performance_request",
    "halt_inactive", "veto", "prepare_inactive", "veto", "send_inactive_marshal_data",
    "wait_for_a2dp_packet", "halt_active", "veto", "set_peer_link_active", "prepare_active",
    "wait_for_peer_link_active", "veto", "send_active_marshal_data",
    "clear_pending_peer_data", "commit_to_secondary_role", "performance_relinquish",
    "cleanup">>

(* A state that fails may have done this work: the first of its handsets   *)
(* was marshalled or prepared, reception was disabled before the time for  *)
(* the rest ran out, or the link mode was asked for.                       *)
PartlyDone ==
    {"send_p1_marshal_data", "halt_inactive", "halt_active", "set_peer_link_active"}
        \cup (IF Others > 1 THEN {"prepare_inactive"} ELSE {})

VARIABLES
    is_primary, inbox,
    primary_state,          \* index of the state it is in, 0 outside a handover
    session_id,
    undone,                 \* work it has done as primary and not undone
    secondary_state,
    waiting,                \* blocked in handoverProtocol_HandleMessage
    p1_left, bt_left,       \* data to come before the mirrored handset's stack data
    performance_req_count,  \* requests of the handover profile
    seen                    \* history, see Seen

primaryVars   == <<primary_state, session_id, undone>>
secondaryVars == <<secondary_state, waiting, p1_left, bt_left>>
vars == <<is_primary, inbox, primaryVars, secondaryVars, performance_req_count, seen>>

Messages ==
    [type : {"START_REQ"}, session : 0 .. SessionIds - 1]
        \cup [type : {"START_CFM"}, session : 0 .. SessionIds - 1, accepted : BOOLEAN]
        \cup [type : {"P1_DATA", "UNMARSHAL_P1_CFM", "CANCEL_IND"}]
        \cup [type : {"BT_DATA"}, mirrored : BOOLEAN]

(* What happened at an earbud: the last session of its peer it accepted    *)
(* and the last one whose P1 data it has, whether it gave that session up  *)
(* when it had confirmed the data, how often it took the role over, and    *)
(* whether its own last session ended with the stack data unacknowledged.  *)
Seen == [accepted : Nat, unmarshalled : Nat, gave_up : BOOLEAN, takeovers : Nat,
         unacked : BOOLEAN]

TypeOK ==
    /\ is_primary \in [Earbuds -> BOOLEAN]
    /\ inbox \in [Earbuds -> Seq(Messages)]
    /\ primary_state \in [Earbuds -> 0 .. Len(States)]
    /\ session_id \in [Earbuds -> 0 .. SessionIds - 1]
    /\ undone \in [Earbuds -> SUBSET Work]
    /\ secondary_state \in [Earbuds -> {"idle", "setup", "p1_data", "unmarshalled", "bt_data"}]
    /\ waiting \in [Earbuds -> BOOLEAN]
    /\ p1_left \in [Earbuds -> 0 .. Others + 1]
    /\ bt_left \in [Earbuds -> 0 .. Others]
    /\ performance_req_count \in [Earbuds -> Nat]
    /\ seen \in [Earbuds -> Seen]

Init ==
    /\ is_primary = [e \in Earbuds |-> e = FirstPrimary]
    /\ inbox = [e \in Earbuds |-> <<>>]
    /\ primary_state = [e \in Earbuds |-> 0]
    /\ session_id = [e \in Earbuds |-> 0]
    /\ undone = [e \in Earbuds |-> {}]
    /\ secondary_state = [e \in Earbuds |-> "idle"]
    /\ waiting = [e \in Earbuds |-> FALSE]
    /\ p1_left = [e \in Earbuds |-> 0]
    /\ bt_left = [e \in Earbuds |-> 0]
    /\ performance_req_count = [e \in Earbuds |-> 0]
    /\ seen = [e \in Earbuds |-> [accepted |-> 0, unmarshalled |-> 0, gave_up |-> FALSE,
                                  takeovers |-> 0, unacked |-> FALSE]]

Peer(e) == CHOOSE p \in Earbuds : p # e

Index(s) == CHOOSE i \in 1 .. Len(States) : States[i] = s

InState(e, s) == primary_state[e] # 0 /\ States[primary_state[e]] = s

(* e takes messages from the front of its inbox and sends others. *)
Exchange(e, rest, sent) ==
    inbox' = [inbox EXCEPT ![e] = rest, ![Peer(e)] = @ \o sent]

(* appPowerPerformanceProfileRelinquish *)
Relinquished(count) == IF count > 0 THEN count - 1 ELSE 0

-----------------------------------------------------------------------------
(* The primary: HandoverProfile_Handover is one blocking call, so nothing  *)
(* else happens in its earbud until it returns.                            *)

Advance(e) == primary_state' = [primary_state EXCEPT ![e] = @ + 1]

(* Fault: counts back from the state that fails once more. *)
CompletedButLast(i) == {States[j] : j \in 1 .. (i - 2)}

(* The states completed before the one that fails. *)
Completed(i) == {States[j] : j \in 1 .. (i - 1)}

(* state_failure_map: what the function of a completed state undoes.  The  *)
(* last states, which panic there, do not fail.                            *)
UndoneFor(s) ==
    CASE s = "setup"                -> {"setup"}                 \* PrimaryCleanup
      [] s = "send_p1_marshal_data" -> {"send_p1_marshal_data"}  \* AbortP1Clients
      [] s = "halt_inactive"        -> {"halt_inactive"}         \* ResumeInactiveBredrLinks
      [] s = "prepare_inactive"     -> {"prepare_inactive"}      \* CancelPrepareInactiveBredrLinks
      [] s = "halt_active"          -> {"halt_active"}           \* ResumeActiveBredrLinks
      [] s = "set_peer_link_active" -> {"set_peer_link_active"}  \* SetPeerLinkSniffMode
      [] s = "prepare_active"       -> {"prepare_active"}        \* CancelPrepareActiveBredrLinks
      [] OTHER                      -> {}

(* handoverProfile_HandleFailureAsPrimary: of what was done, a part by the *)
(* state that fails, the completed states' is undone, unless undoing fails *)
(* too; and the secondary is told if it was asked, but the message may not *)
(* get into the sink.                                                      *)

Fail(e, rest, sent, part) ==
    LET completed == Completed(primary_state[e]) IN
    /\ \E kept \in SUBSET (undone[e] \cap Unreliable) :
          undone' = [undone EXCEPT ![e] =
                        (@ \cup part) \ (UNION {UndoneFor(s) : s \in completed} \ kept)]
    /\ performance_req_count' =
           IF "performance_request" \in completed
           THEN [performance_req_count EXCEPT ![e] = Relinquished(@)]
           ELSE performance_req_count
    /\ \/ Exchange(e, rest, sent)
       \/ /\ "send_start_req" \in completed
          /\ Exchange(e, rest, Append(sent, [type |-> "CANCEL_IND"]))
    /\ primary_state' = [primary_state EXCEPT ![e] = 0]

(* HandoverProfile_Handover and handoverProfile_PrimarySetup: what the     *)
(* source has received is thrown away, and what is on its way is not.      *)
PrimarySetup(e) ==
    /\ is_primary[e] /\ primary_state[e] = 0 /\ ~waiting[e] /\ session_id[e] < MaxSessions
    /\ \E received \in 0 .. Len(inbox[e]) :
           Exchange(e, SubSeq(inbox[e], received + 1, Len(inbox[e])), <<>>)
    /\ undone' = [undone EXCEPT ![e] = @ \cup {"setup"}]
    /\ primary_state' = [primary_state EXCEPT ![e] = Index("self_veto")]
    /\ UNCHANGED <<is_primary, session_id, secondaryVars, performance_req_count, seen>>

(* The states that look for a veto, and the one that waits for a packet.   *)
MayProceed(e) ==
    /\ \E s \in {"self_veto", "veto", "wait_for_a2dp_packet"} : InState(e, s)
    /\ \/ Advance(e) /\ UNCHANGED <<inbox, undone, performance_req_count>>
       \/ ~InState(e, "wait_for_a2dp_packet") /\ Fail(e, inbox[e], <<>>, {})
    /\ UNCHANGED <<is_primary, session_id, secondaryVars, seen>>

SendStartReq(e) ==
    /\ InState(e, "send_start_req")
    /\ session_id' = [session_id EXCEPT ![e] = (@ + 1) % SessionIds]
    /\ \/ /\ Exchange(e, inbox[e], <<[type |-> "START_REQ", session |-> session_id'[e]]>>)
          /\ Advance(e) /\ UNCHANGED <<undone, performance_req_count>>
       \/ Fail(e, inbox[e], <<>>, {})
    /\ UNCHANGED <<is_primary, secondaryVars, seen>>

(* A message is taken from the inbox: the confirmation of this session     *)
(* decides, and anything else is dropped.                                  *)
IsAnyAnswer(e, m) == m.type = "START_CFM"

IsAnswer(e, m) == m.type = "START_CFM" /\ m.session = session_id[e]

WaitForStartCfm(e) ==
    /\ InState(e, "wait_for_start_cfm") /\ inbox[e] # <<>>
    /\ LET m == Head(inbox[e]) IN
       IF IsAnswer(e, m) /\ ~m.accepted
       THEN Fail(e, Tail(inbox[e]), <<>>, {}) /\ UNCHANGED seen
       ELSE /\ Exchange(e, Tail(inbox[e]), <<>>)
            /\ IF IsAnswer(e, m)
               THEN Advance(e) /\ seen' = [seen EXCEPT ![e].unacked = FALSE]
               ELSE UNCHANGED <<primary_state, seen>>
            /\ UNCHANGED <<undone, performance_req_count>>
    /\ UNCHANGED <<is_primary, session_id, secondaryVars>>

WaitForUnmarshalP1Cfm(e) ==
    /\ InState(e, "wait_for_marshal_data_cfm") /\ inbox[e] # <<>>
    /\ Exchange(e, Tail(inbox[e]), <<>>)
    /\ IF Head(inbox[e]).type = "UNMARSHAL_P1_CFM" THEN Advance(e) ELSE UNCHANGED primary_state
    /\ UNCHANGED <<is_primary, session_id, undone, secondaryVars, performance_req_count, seen>>

(* Either wait runs out of time. *)
ProtocolTimeout(e) ==
    /\ InState(e, "wait_for_start_cfm") \/ InState(e, "wait_for_marshal_data_cfm")
    /\ Fail(e, inbox[e], <<>>, {})
    /\ UNCHANGED <<is_primary, session_id, secondaryVars, seen>>

(* One message for each handset; the sink may be too full for one of them. *)
SendP1MarshalData(e) ==
    /\ InState(e, "send_p1_marshal_data")
    /\ \E sent \in 0 .. Others + 1 :
          LET data == [k \in 1 .. sent |-> [type |-> "P1_DATA"]] IN
          IF sent = Others + 1
          THEN /\ Exchange(e, inbox[e], data) /\ Advance(e)
               /\ undone' = [undone EXCEPT ![e] = @ \cup {"send_p1_marshal_data"}]
               /\ UNCHANGED performance_req_count
          ELSE Fail(e, inbox[e], data, {"send_p1_marshal_data"})
    /\ UNCHANGED <<is_primary, session_id, secondaryVars, seen>>

PerformanceRequest(e) ==
    /\ InState(e, "performance_request") /\ Advance(e)
    /\ performance_req_count' = [performance_req_count EXCEPT ![e] = @ + 1]
    /\ UNCHANGED <<is_primary, inbox, session_id, undone, secondaryVars, seen>>

(* Links are halted and prepared, and the peer link leaves sniff mode: a   *)
(* state that has no link to work on succeeds, any other may fail.         *)
WorkOnLinks(e) ==
    \E s \in {"halt_inactive", "prepare_inactive", "halt_active", "set_peer_link_active",
              "prepare_active", "wait_for_peer_link_active"} :
       /\ InState(e, s)
       /\ LET links == ~(s \in {"halt_inactive", "prepare_inactive"} /\ Others = 0) IN
          \/ /\ Advance(e)
             /\ undone' = [undone EXCEPT ![e] = IF links THEN @ \cup ({s} \cap Work) ELSE @]
             /\ UNCHANGED <<inbox, performance_req_count>>
          \/ links /\ \E part \in SUBSET ({s} \cap PartlyDone) : Fail(e, inbox[e], <<>>, part)
       /\ UNCHANGED <<is_primary, session_id, secondaryVars, seen>>

SendBtStackMarshalData(e) ==
    /\ Advance(e)
    /\ \/ /\ InState(e, "send_inactive_marshal_data")
          /\ Exchange(e, inbox[e], [k \in 1 .. Others |-> [type |-> "BT_DATA", mirrored |-> FALSE]])
       \/ /\ InState(e, "send_active_marshal_data")
          /\ Exchange(e, inbox[e], <<[type |-> "BT_DATA", mirrored |-> TRUE]>>)
    /\ UNCHANGED <<is_primary, session_id, undone, secondaryVars, performance_req_count, seen>>

(* The data is acknowledged by the peer's stack, or not in time. *)
ClearPendingPeerData(e) ==
    /\ InState(e, "clear_pending_peer_data")
    /\ \/ Advance(e) /\ UNCHANGED <<inbox, undone, performance_req_count, seen>>
       \/ /\ Fail(e, inbox[e], <<>>, {})
          /\ seen' = [seen EXCEPT ![e].unacked = TRUE]
    /\ UNCHANGED <<is_primary, session_id, secondaryVars>>

(* The links and their clients are the peer's now: nothing is left to undo *)
(* but the device list.                                                    *)
CommitSecondaryRole(e) ==
    /\ InState(e, "commit_to_secondary_role") /\ Advance(e)
    /\ is_primary' = [is_primary EXCEPT ![e] = FALSE]
    /\ undone' = [undone EXCEPT ![e] = @ \cap {"setup"}]
    /\ UNCHANGED <<inbox, session_id, secondaryVars, performance_req_count, seen>>

PerformanceRelinquish(e) ==
    /\ InState(e, "performance_relinquish") /\ Advance(e)
    /\ performance_req_count' = [performance_req_count EXCEPT ![e] = Relinquished(@)]
    /\ UNCHANGED <<is_primary, inbox, session_id, undone, secondaryVars, seen>>

PrimaryCleanup(e) ==
    /\ InState(e, "cleanup")
    /\ primary_state' = [primary_state EXCEPT ![e] = 0]
    /\ undone' = [undone EXCEPT ![e] = @ \ {"setup"}]
    /\ UNCHANGED <<is_primary, inbox, session_id, secondaryVars, performance_req_count, seen>>

HandoverAsPrimary(e) ==
    \/ MayProceed(e) \/ SendStartReq(e) \/ WaitForStartCfm(e) \/ WaitForUnmarshalP1Cfm(e)
    \/ ProtocolTimeout(e) \/ SendP1MarshalData(e) \/ PerformanceRequest(e) \/ WorkOnLinks(e)
    \/ SendBtStackMarshalData(e) \/ ClearPendingPeerData(e) \/ CommitSecondaryRole(e)
    \/ PerformanceRelinquish(e) \/ PrimaryCleanup(e)

-----------------------------------------------------------------------------
(* The secondary: a message is handled when the earbud is in no handover   *)
(* of its own; some make the handler wait for the next.                    *)

HasRequested(e) == secondary_state[e] \in {"unmarshalled", "bt_data"}

(* handoverProfile_SecondaryCleanup, of an earbud in the given state. *)
CountAfterCleanupLate(e, state) ==
    IF state = "bt_data" THEN Relinquished(performance_req_count[e]) ELSE performance_req_count[e]

CountAfterCleanup(e, state) ==
    IF state \in {"unmarshalled", "bt_data"}
    THEN Relinquished(performance_req_count[e]) ELSE performance_req_count[e]

Cleanup(e) ==
    /\ performance_req_count' =
           [performance_req_count EXCEPT ![e] = CountAfterCleanup(e, secondary_state[e])]
    /\ secondary_state' = [secondary_state EXCEPT ![e] = "idle"]
    /\ p1_left' = [p1_left EXCEPT ![e] = 0] /\ bt_left' = [bt_left EXCEPT ![e] = 0]

(* handoverProfile_SecondaryStart *)
Accept(e, session) ==
    /\ ~is_primary[e]
    /\ performance_req_count' =
           [performance_req_count EXCEPT ![e] = CountAfterCleanup(e, secondary_state[e])]
    /\ secondary_state' = [secondary_state EXCEPT ![e] = "setup"]
    /\ p1_left' = [p1_left EXCEPT ![e] = Others + 1] /\ bt_left' = [bt_left EXCEPT ![e] = Others]
    /\ seen' = [seen EXCEPT ![e].accepted = session, ![e].gave_up = FALSE]

Refuse(e) ==
    /\ IF is_primary[e]
       THEN UNCHANGED <<performance_req_count, secondary_state, p1_left, bt_left>> ELSE Cleanup(e)
    /\ UNCHANGED seen

(* The handler waits for a message if the confirmation was sent, whatever  *)
(* it says: its status replaces that of the start.                         *)
HandleStartReq(e) ==
    LET req == Head(inbox[e])
        Confirm(accepted) ==
            \/ /\ Exchange(e, Tail(inbox[e]), <<[type |-> "START_CFM", session |-> req.session,
                                                 accepted |-> accepted]>>)
               /\ waiting' = [waiting EXCEPT ![e] = TRUE]
            \/ /\ Exchange(e, Tail(inbox[e]), <<>>)
               /\ waiting' = [waiting EXCEPT ![e] = FALSE]
    IN  /\ req.type = "START_REQ"
        /\ \/ Accept(e, req.session) /\ Confirm(TRUE)
           \/ Refuse(e) /\ Confirm(FALSE)
        /\ UNCHANGED is_primary

HandleCancelInd(e) ==
    /\ Head(inbox[e]).type = "CANCEL_IND"
    /\ Exchange(e, Tail(inbox[e]), <<>>) /\ Cleanup(e)
    /\ waiting' = [waiting EXCEPT ![e] = FALSE]
    /\ UNCHANGED <<is_primary, seen>>

(* Marshal data the secondary is not in the state for is dropped. *)
DropMarshalData(e) ==
    /\ waiting' = [waiting EXCEPT ![e] = FALSE]
    /\ UNCHANGED <<is_primary, secondary_state, p1_left, bt_left, performance_req_count, seen>>

(* handoverProfile_SecondaryHandleAppsP1Data: the data is for the next     *)
(* handset, and with the last one the secondary confirms.                  *)
UnmarshalP1(e) ==
    LET last == p1_left[e] = 1 IN
    /\ p1_left' = [p1_left EXCEPT ![e] = @ - 1]
    /\ waiting' = [waiting EXCEPT ![e] = TRUE]
    /\ secondary_state' = [secondary_state EXCEPT ![e] = IF last THEN "unmarshalled" ELSE "p1_data"]
    /\ performance_req_count' = [performance_req_count EXCEPT ![e] = IF last THEN @ + 1 ELSE @]
    /\ seen' = [seen EXCEPT ![e].unmarshalled = IF last THEN seen[e].accepted ELSE @]
    /\ UNCHANGED <<is_primary, bt_left>>

HandleAppsP1Data(e) ==
    /\ Head(inbox[e]).type = "P1_DATA" /\ ~is_primary[e]
    /\ IF secondary_state[e] \in {"setup", "p1_data"} THEN UnmarshalP1(e) ELSE DropMarshalData(e)
    /\ \/ Exchange(e, Tail(inbox[e]), <<>>)
       \/ /\ secondary_state'[e] = "unmarshalled"
          /\ Exchange(e, Tail(inbox[e]), <<[type |-> "UNMARSHAL_P1_CFM"]>>)

(* handoverProfile_SecondaryHandleBtStackData: the data is taken for a     *)
(* handset beside the mirrored one as long as one is left, and else for    *)
(* the mirrored one: the secondary becomes primary.  That resets its state *)
(* before the cleanup, which so gives back no performance request.         *)
ApplyBtStackDataAtOnce(e) ==
    /\ is_primary' = [is_primary EXCEPT ![e] = TRUE]
    /\ seen' = [seen EXCEPT ![e].takeovers = @ + 1]
    /\ secondary_state' = [secondary_state EXCEPT ![e] = "idle"]
    /\ waiting' = [waiting EXCEPT ![e] = FALSE]
    /\ UNCHANGED <<p1_left, bt_left, performance_req_count>>

ApplyBtStackData(e) ==
    IF bt_left[e] > 0
    THEN /\ bt_left' = [bt_left EXCEPT ![e] = @ - 1]
         /\ secondary_state' = [secondary_state EXCEPT ![e] = "bt_data"]
         /\ waiting' = [waiting EXCEPT ![e] = TRUE]
         /\ UNCHANGED <<is_primary, p1_left, performance_req_count, seen>>
    ELSE /\ is_primary' = [is_primary EXCEPT ![e] = TRUE]
         /\ seen' = [seen EXCEPT ![e].takeovers = @ + 1]
         /\ performance_req_count' =
                [performance_req_count EXCEPT ![e] = CountAfterCleanup(e, "idle")]
         /\ secondary_state' = [secondary_state EXCEPT ![e] = "idle"]
         /\ waiting' = [waiting EXCEPT ![e] = FALSE]
         /\ UNCHANGED <<p1_left, bt_left>>

HandleBtStackData(e) ==
    /\ Head(inbox[e]).type = "BT_DATA" /\ ~is_primary[e]
    /\ IF HasRequested(e) THEN ApplyBtStackData(e) ELSE DropMarshalData(e)
    /\ Exchange(e, Tail(inbox[e]), <<>>)

(* A confirmation that nobody waits for. *)
HandleLateCfm(e) ==
    /\ Head(inbox[e]).type \in {"START_CFM", "UNMARSHAL_P1_CFM"}
    /\ Exchange(e, Tail(inbox[e]), <<>>)
    /\ DropMarshalData(e)

HandleMessage(e) ==
    /\ primary_state[e] = 0 /\ inbox[e] # <<>>
    /\ \/ HandleStartReq(e) \/ HandleCancelInd(e) \/ HandleAppsP1Data(e)
       \/ HandleBtStackData(e) \/ HandleLateCfm(e)
    /\ UNCHANGED primaryVars

(* No message came while the handler waited: it cancels the handover by    *)
(* itself, and tells nobody.                                               *)
MessageTimeoutWaitsAgain(e) ==
    /\ waiting[e] /\ Cleanup(e)
    /\ seen' = [seen EXCEPT ![e].gave_up = @ \/ HasRequested(e)]
    /\ UNCHANGED <<is_primary, inbox, primaryVars, waiting>>

MessageTimeout(e) ==
    /\ waiting[e] /\ waiting' = [waiting EXCEPT ![e] = FALSE]
    /\ Cleanup(e)
    /\ seen' = [seen EXCEPT ![e].gave_up = @ \/ HasRequested(e)]
    /\ UNCHANGED <<is_primary, inbox, primaryVars>>

-----------------------------------------------------------------------------
Next ==
    \E e \in Earbuds :
        PrimarySetup(e) \/ HandoverAsPrimary(e) \/ HandleMessage(e) \/ MessageTimeout(e)

Spec == Init /\ [][Next]_vars

(* A handover call goes on, and a handler that waits gets a message or its *)
(* time runs out.  It need not be called again for data left unread.       *)
FairSpec ==
    /\ Spec
    /\ \A e \in Earbuds :
          /\ WF_vars(HandoverAsPrimary(e))
          /\ WF_vars(waiting[e] /\ (HandleMessage(e) \/ MessageTimeout(e)))

-----------------------------------------------------------------------------
(* Properties. *)

(* A primary that goes on after a confirmation has it from this session:   *)
(* its peer accepted the session, and later unmarshalled its P1 data.  The *)
(* confirmation of the P1 data names no session.                           *)
PeerInStep ==
    \A e \in Earbuds :
        /\ primary_state[e] > Index("wait_for_start_cfm") =>
               seen[Peer(e)].accepted = session_id[e]
        /\ primary_state[e] > Index("wait_for_marshal_data_cfm") =>
               seen[Peer(e)].unmarshalled = session_id[e]

(* Both earbuds are primary only between the takeover of the one and the   *)
(* commitment of the other, which waits for an acknowledgement of its data *)
(* - or for good, if it did not get the acknowledgement in time and stayed *)
(* primary.  A primary is never given marshal data, which would panic.     *)
AtMostOnePrimary ==
    (\A e \in Earbuds : is_primary[e]) =>
        \E e \in Earbuds :
            \/ seen[e].unacked
            \/ InState(e, "clear_pending_peer_data") \/ InState(e, "commit_to_secondary_role")

PrimaryGetsNoData ==
    \A e \in Earbuds :
        is_primary[e] /\ primary_state[e] = 0 /\ inbox[e] # <<>> =>
            Head(inbox[e]).type \notin {"P1_DATA", "BT_DATA"}

(* No earbud is primary only while the data that makes one so is on its    *)
(* way to a secondary that waits for it - or for good, if the secondary    *)
(* stopped waiting while the primary halted and prepared its links.        *)
TakeoverOnItsWay(e) ==
    /\ waiting[e] /\ HasRequested(e)
    /\ \E i \in 1 .. Len(inbox[e]) :
          inbox[e][i].type = "BT_DATA" /\ inbox[e][i].mirrored

NeverWithoutPrimary ==
    (\A e \in Earbuds : ~is_primary[e]) =>
        \E e \in Earbuds : TakeoverOnItsWay(e) \/ seen[e].gave_up

OnePrimary == AtMostOnePrimary /\ PrimaryGetsNoData /\ NeverWithoutPrimary

(* Wherever a handover ends, nothing a state had completed is left to be   *)
(* undone, unless undoing it may fail: what is left was done in part by    *)
(* the state that failed, which the failure handler does not undo, or by   *)
(* one after it that failed in an earlier handover.                        *)
CompletedIsUndone ==
    [][\A e \in Earbuds :
          primary_state[e] # 0 /\ primary_state'[e] = 0 =>
              undone'[e] \subseteq
                  Unreliable \cup {s \in PartlyDone : Index(s) >= primary_state[e]}]_vars

(* An earbud's performance requests are those of the handover in progress, *)
(* and one for each time it took over the role, which is never given back. *)
RequestsAccounted ==
    \A e \in Earbuds :
        LET asPrimary == primary_state[e] \in
                             (Index("performance_request") + 1) .. Index("performance_relinquish")
            Holding(c) == IF c THEN 1 ELSE 0
        IN  performance_req_count[e] =
                Holding(asPrimary) + Holding(HasRequested(e)) + seen[e].takeovers

(* Whatever fails, both earbuds come out of a handover: the call returns,  *)
(* and a secondary that has unmarshalled data does not keep it.            *)
EarbudsSettle ==
    \A e \in Earbuds :
        (primary_state[e] # 0 \/ waiting[e] \/ HasRequested(e)) ~>
            (primary_state[e] = 0 /\ ~waiting[e] /\ ~HasRequested(e))
=============================================================================
