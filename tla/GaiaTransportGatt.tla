------------------------- MODULE GaiaTransportGatt --------------------------
(***************************************************************************)
(* An upgrade over the GATT transport of GAIA: the RWCP server at the data *)
(* endpoint, the flow control of gaia_transport_gatt.c, the GAIA framework,*)
(* the upgrade plugin and the host interface of the upgrade library, which *)
(* pass each packet on by message.                                         *)
(*                                                                         *)
(* Everything but the ATT streams runs in one thread: while the transport  *)
(* reads its source (reading) no message is delivered, and segments still  *)
(* arrive.                                                                 *)
(***************************************************************************)
EXTENDS RwcpServer, SequencesExt

CONSTANTS
    MaxRxPending,   \* GAIA_TRANSPORT_GATT_MAX_RX_PENDING_PKTS
    Commands,       \* what the client writes to the command endpoint
    QueueRoom       \* bound: the messages queued when the client writes

ASSUME GaiaAssumption ==
    /\ MaxRxPending \in Nat \ {0} /\ QueueRoom \in Nat
    /\ Commands \subseteq {"upgrade_connect", "upgrade_disconnect", "set_data_endpoint"}

VARIABLES
    connected,          \* the transport has a client, and its ATT streams
    rwcp_mode,          \* data_endpoint_mode is GAIA_DATA_ENDPOINT_MODE_RWCP
    rx_packets_pending, \* packets received that are being processed
    reading,            \* in gaiaTransport_GattReceiveDataPacketFromSource
    queue,              \* the messages on their way, oldest first
    plugin_state,       \* upgradeGaiaPlugin_task.state
    has_transport,      \* upgradeGaiaPlugin_task.transport is not NULL
    throttled,          \* upgradeGaiaPlugin_task.throttled
    library             \* the upgrade library has a transport task

gattVars   == <<connected, rwcp_mode, rx_packets_pending, reading>>
pluginVars == <<plugin_state, has_transport, throttled, library>>
vars       == <<rwcpVars, gattVars, pluginVars, queue>>

(* GAIA_COMMAND_IND; with UPGRADE_TRANSPORT_DATA_CFM it carries a packet. *)
CommandInds == Commands \cup {"upgrade_control"}

Messages == CommandInds \cup {"DATA_CFM", "DATA_IND", "CONNECT_CFM", "CONNECT_FAILED",
                              "DISCONNECT_CFM", "GAIA_DISCONNECT", "MORE_DATA"}

TypeOK ==
    /\ RwcpTypeOK
    /\ connected \in BOOLEAN /\ rwcp_mode \in BOOLEAN /\ reading \in BOOLEAN
    /\ rx_packets_pending \in Nat /\ queue \in Seq(Messages)
    /\ plugin_state \in {"DISCONNECTED", "CONNECTING", "CONNECTED", "DISCONNECTING"}
    /\ has_transport \in BOOLEAN /\ throttled \in BOOLEAN /\ library \in BOOLEAN

Init ==
    /\ RwcpInit
    /\ connected = FALSE /\ rwcp_mode = FALSE /\ rx_packets_pending = 0
    /\ reading = FALSE /\ queue = <<>>
    /\ plugin_state = "DISCONNECTED" /\ has_transport = FALSE
    /\ throttled = FALSE /\ library = FALSE

-----------------------------------------------------------------------------
(* The transport. *)

(* gaiaTransport_GattReceivePacket: the packet goes to the framework. *)
ReceivePacket(command) ==
    /\ rx_packets_pending' = rx_packets_pending + 1
    /\ queue' = Append(queue, command)

(* The client writes to the command endpoint; the first access of a client *)
(* connects the transport and creates its ATT streams.                     *)
HandleAccessInd(command) ==
    /\ ~reading /\ Len(queue) < QueueRoom
    /\ ReceivePacket(command)
    /\ connected' = TRUE
    /\ UNCHANGED <<rwcpVars, pluginVars, rwcp_mode, reading>>

(* One packet of the source: the RWCP server takes it, and a payload in    *)
(* sequence becomes a packet; without RWCP it is dropped.                  *)
ReceiveDataPacket ==
    /\ reading /\ rx_packets_pending < MaxRxPending
    /\ IF rwcp_mode THEN RwcpServerHandleMessage ELSE Drop
    /\ IF Len(delivered') > Len(delivered)
       THEN ReceivePacket("upgrade_control") ELSE UNCHANGED <<rx_packets_pending, queue>>
    /\ UNCHANGED <<pluginVars, connected, rwcp_mode, reading>>

EndOfRead ==
    /\ reading /\ reading' = FALSE
    /\ segments = <<>> \/ rx_packets_pending >= MaxRxPending
    /\ UNCHANGED <<rwcpVars, pluginVars, connected, rwcp_mode, rx_packets_pending, queue>>

PacketHandledNoRead ==
    rx_packets_pending' = rx_packets_pending - 1 /\ UNCHANGED reading

(* gaiaTransport_GattPacketHandled: once no packet is being processed the  *)
(* transport reads its source again.                                       *)
PacketHandled ==
    /\ rx_packets_pending' = rx_packets_pending - 1
    /\ reading' = (connected /\ rx_packets_pending' = 0)

(* gaiaTransport_GattDisconnect: the streams and the client go; neither    *)
(* the count of packets nor the RWCP server is reset.                      *)
GattDisconnect ==
    /\ ~reading /\ connected /\ connected' = FALSE
    /\ LinkDown
    /\ queue' = Append(queue, "GAIA_DISCONNECT")
    /\ UNCHANGED <<pluginVars, rwcp_mode, rx_packets_pending, reading>>

(* GATT has no disconnect_req: a request to disconnect is confirmed, and   *)
(* the link stays.                                                         *)
DisconnectReq ==
    /\ ~reading /\ connected /\ Len(queue) < QueueRoom
    /\ queue' = Append(queue, "GAIA_DISCONNECT")
    /\ UNCHANGED <<rwcpVars, gattVars, pluginVars>>

-----------------------------------------------------------------------------
(* The upgrade library and its plugin.  Each operator gives the new queue  *)
(* from rest, what is queued after the message that is handled.            *)

(* UpgradeHostIFTransportDisconnect *)
UpgradeTransportDisconnectRequest(rest) ==
    /\ library' = FALSE
    /\ queue' = IF library THEN Append(rest, "DISCONNECT_CFM") ELSE rest

UpgradeConnect(rest) ==
    /\ PacketHandled
    /\ IF plugin_state = "DISCONNECTED"
       THEN /\ plugin_state' = "CONNECTING" /\ has_transport' = TRUE /\ library' = TRUE
            /\ queue' = Append(rest, IF library THEN "CONNECT_FAILED" ELSE "CONNECT_CFM")
       ELSE queue' = rest /\ UNCHANGED <<plugin_state, has_transport, library>>

UpgradeConnectCfmAnyState(rest, success) ==
    /\ plugin_state' = IF success THEN "CONNECTED" ELSE "DISCONNECTED"
    /\ has_transport' = (success /\ has_transport)
    /\ queue' = rest
    /\ UNCHANGED <<library, rx_packets_pending, reading>>

UpgradeConnectCfm(rest, success) ==
    /\ IF plugin_state = "CONNECTING"
       THEN /\ plugin_state' = IF success THEN "CONNECTED" ELSE "DISCONNECTED"
            /\ has_transport' = (success /\ has_transport)
            /\ queue' = rest /\ UNCHANGED library
       ELSE /\ IF success THEN UpgradeTransportDisconnectRequest(rest)
                          ELSE queue' = rest /\ UNCHANGED library
            /\ UNCHANGED <<plugin_state, has_transport>>
    /\ UNCHANGED <<rx_packets_pending, reading>>

UpgradeDisconnect(rest) ==
    /\ PacketHandled
    /\ IF plugin_state \in {"CONNECTED", "CONNECTING"} /\ has_transport
       THEN UpgradeTransportDisconnectRequest(rest) /\ plugin_state' = "DISCONNECTING"
       ELSE queue' = rest /\ UNCHANGED <<plugin_state, library>>
    /\ UNCHANGED has_transport

UpgradeDisconnectCfm(rest) ==
    /\ queue' = rest
    /\ IF plugin_state = "DISCONNECTING"
       THEN plugin_state' = "DISCONNECTED" /\ has_transport' = (has_transport /\ throttled)
       ELSE UNCHANGED <<plugin_state, has_transport>>
    /\ UNCHANGED <<library, rx_packets_pending, reading>>

(* The library confirms the data, later, if it has a transport task.  The  *)
(* packet is handled at once only where the plugin has no transport.       *)
UpgradeControl(rest) ==
    /\ queue' = IF has_transport /\ library THEN Append(rest, "DATA_CFM") ELSE rest
    /\ IF has_transport THEN UNCHANGED <<rx_packets_pending, reading>> ELSE PacketHandled
    /\ UNCHANGED <<plugin_state, has_transport, library>>

UpgradeDataCfm(rest) ==
    /\ queue' = rest
    /\ IF has_transport THEN PacketHandled ELSE UNCHANGED <<rx_packets_pending, reading>>
    /\ UNCHANGED <<plugin_state, has_transport, library>>

(* UpgradeHostIFClientSendData: the library sends the host a packet, when  *)
(* its own state machine comes to one.                                     *)
SendDataInd ==
    /\ ~reading /\ library /\ Len(queue) < QueueRoom
    /\ queue' = Append(queue, "DATA_IND")
    /\ UNCHANGED <<rwcpVars, gattVars, pluginVars>>

(* The plugin hands it to its transport, and does not ask whether it has   *)
(* one: without, the device panics, and no message is handled any more.    *)
UpgradeDataInd(rest) ==
    /\ has_transport
    /\ queue' = rest
    /\ UNCHANGED <<plugin_state, has_transport, library, rx_packets_pending, reading>>

TransportDisconnectLeavesLibrary(rest) ==
    /\ queue' = rest
    /\ IF has_transport
       THEN has_transport' = FALSE /\ plugin_state' = "DISCONNECTED"
       ELSE UNCHANGED <<plugin_state, has_transport>>
    /\ UNCHANGED <<library, rx_packets_pending, reading>>

TransportDisconnect(rest) ==
    /\ IF has_transport
       THEN /\ UpgradeTransportDisconnectRequest(rest)
            /\ has_transport' = FALSE /\ plugin_state' = "DISCONNECTED"
       ELSE queue' = rest /\ UNCHANGED <<plugin_state, has_transport, library>>
    /\ UNCHANGED <<rx_packets_pending, reading>>

MoreData(rest) ==
    /\ reading' = TRUE /\ queue' = rest
    /\ UNCHANGED <<plugin_state, has_transport, library, rx_packets_pending>>

SetDataEndpoint(rest) ==
    /\ PacketHandled /\ queue' = rest
    /\ UNCHANGED <<plugin_state, has_transport, library>>

HandleMessage ==
    /\ ~reading /\ queue # <<>>
    /\ LET id == Head(queue)  rest == Tail(queue) IN
          /\ \/ id = "upgrade_connect"    /\ UpgradeConnect(rest)
             \/ id = "upgrade_disconnect" /\ UpgradeDisconnect(rest)
             \/ id = "set_data_endpoint"  /\ SetDataEndpoint(rest)
             \/ id = "upgrade_control"    /\ UpgradeControl(rest)
             \/ id \in {"CONNECT_CFM", "CONNECT_FAILED"}
                /\ UpgradeConnectCfm(rest, id = "CONNECT_CFM")
             \/ id = "DISCONNECT_CFM"     /\ UpgradeDisconnectCfm(rest)
             \/ id = "DATA_CFM"           /\ UpgradeDataCfm(rest)
             \/ id = "DATA_IND"           /\ UpgradeDataInd(rest)
             \/ id = "GAIA_DISCONNECT"    /\ TransportDisconnect(rest)
             \/ id = "MORE_DATA"          /\ MoreData(rest)
          /\ rwcp_mode' = (rwcp_mode \/ id = "set_data_endpoint")
    /\ UNCHANGED <<rwcpVars, connected, throttled>>

(* The bandwidth manager throttles the upgrade, or stops doing so. *)
BandwidthThrottle ==
    /\ ~reading /\ throttled' = ~throttled
    /\ UNCHANGED <<rwcpVars, gattVars, queue, plugin_state, has_transport, library>>

-----------------------------------------------------------------------------
(* The client: a segment that arrives raises MESSAGE_MORE_DATA, unless one *)
(* is queued already (VM_MESSAGES_SOME).                                   *)

Arrives(send) ==
    /\ connected /\ send
    /\ queue' = IF UNCHANGED segments \/ "MORE_DATA" \in ToSet(queue)
                THEN queue ELSE Append(queue, "MORE_DATA")
    /\ UNCHANGED <<pluginVars, gattVars>>

ReceiveAnswers == connected /\ ClientReceive /\ UNCHANGED <<gattVars, pluginVars, queue>>

ClientStep ==
    \/ Arrives(ClientSend)
    \/ ReceiveAnswers

Device ==
    \/ ReceiveDataPacket \/ EndOfRead \/ HandleMessage

Next ==
    \/ Device \/ ClientStep \/ GattDisconnect \/ DisconnectReq \/ BandwidthThrottle
    \/ SendDataInd
    \/ \E c \in Commands : HandleAccessInd(c)

Spec == Init /\ [][Next]_vars

-----------------------------------------------------------------------------
(* Fairness: the thread of the applications runs on; a client in a session *)
(* sends again what was not acknowledged and reads its answers; and of the *)
(* copies it sends, and of the answers to them, not every one is lost.  It *)
(* writes commands finitely often: one that is always in process keeps the *)
(* count from 0, and the source unread.                                    *)

GetsThrough(send) == Arrives(send) /\ segments' # segments

ReceiveWanted ==
    /\ ReceiveDataPacket /\ rwcp_mode
    /\ Head(segments).payload = IF phase = "syn" THEN 0 ELSE base

Answered == ReceiveWanted /\ Len(notes') > Len(notes)

FairSpec ==
    /\ Spec /\ WF_vars(Device) /\ WF_vars(ReceiveAnswers)
    /\ SF_vars(GetsThrough(phase = "syn" /\ SendSyn))
    /\ SF_vars(GetsThrough(phase = "open" /\ SendData(base)))
    /\ []<><<ReceiveWanted>>_vars => []<><<Answered>>_vars
    /\ <>[][~\E c \in Commands : HandleAccessInd(c)]_vars

-----------------------------------------------------------------------------
(* Properties. *)

(* The packets that somebody will still answer for. *)
PacketIds == CommandInds \cup {"DATA_CFM"}

Handling(q) == {i \in 1 .. Len(q) : q[i] \in PacketIds}

InProcess == Cardinality(Handling(queue))

Leaked == rx_packets_pending > InProcess

(* A DATA_IND is about to be handled, and the transport is gone. *)
DataIndPanics == queue # <<>> /\ Head(queue) = "DATA_IND" /\ ~has_transport

(* gaiaTransport_GattPacketHandled never counts below zero (PanicFalse),   *)
(* and in the states whose handlers use the transport the plugin has it    *)
(* (PanicNull), whatever a client that comes and goes leaves on its way:   *)
(* the handler of DATA_IND, which looks at no state, is the only one that  *)
(* can panic.                                                              *)
OnlyDataIndPanics ==
    /\ InProcess <= rx_packets_pending
    /\ plugin_state # "DISCONNECTED" => has_transport

(* "Upgrade protocol not connected, so handover can proceed": where        *)
(* upgradeGaiaPlugin_HandoverVeto says so, the library has no transport.   *)
HandoverOnlyWhenIdle == plugin_state = "DISCONNECTED" => ~library

(* The transport stops reading with MaxRxPending packets in process, and   *)
(* MESSAGE_MORE_DATA comes once: where it left segments unread, a message  *)
(* is queued that makes it read again, or one of a packet that somebody    *)
(* will still answer for; unless a packet was counted that nobody does.    *)
DataWillBeRead ==
    segments # <<>> /\ ~Leaked => reading \/ "MORE_DATA" \in ToSet(queue) \/ InProcess > 0

(* A client that starts a session gets all of it through, over any losses  *)
(* and whatever session the last client left behind in the server.         *)
TransferCompletes ==
    phase = "syn" ~> \/ base > Length \/ phase \in {"closed", "reset"}
                     \/ Leaked \/ ~rwcp_mode \/ DataIndPanics

(* "Number of packet received that are being processed": not so. *)
PendingIsBeingProcessed == ~Leaked
=============================================================================
