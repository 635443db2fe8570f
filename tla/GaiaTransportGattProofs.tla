----------------------- MODULE GaiaTransportGattProofs -----------------------
(***************************************************************************)
(* Proofs about an upgrade over GATT, for every window, every length of    *)
(* transfer and any number of clients that come and go.                    *)
(***************************************************************************)
EXTENDS GaiaTransportGatt, RwcpServerProofs, FiniteSetTheorems

-----------------------------------------------------------------------------
(* The RWCP server and its client, as the transport drives them.  The      *)
(* theorems of RwcpServerProofs hold of them in every behaviour.           *)

(* What the transport, the framework and the plugin do is a step of the    *)
(* RWCP server and its client, or leaves them alone.                       *)
LEMMA TransportSteps == [Next]_vars => [RwcpNext]_rwcpVars
  <1> SUFFICES ASSUME [Next]_vars
               PROVE  [RwcpNext]_rwcpVars
    OBVIOUS
  <1>1. CASE ReceiveDataPacket
    BY <1>1 DEF ReceiveDataPacket, RwcpNext
  <1>2. CASE EndOfRead \/ HandleMessage \/ DisconnectReq \/ BandwidthThrottle \/ SendDataInd
    BY <1>2 DEF EndOfRead, HandleMessage, DisconnectReq, BandwidthThrottle, SendDataInd
  <1>3. CASE Arrives(ClientSend)
    BY <1>3 DEF Arrives, RwcpNext
  <1>4. CASE ReceiveAnswers
    BY <1>4 DEF ReceiveAnswers, RwcpNext
  <1>5. CASE GattDisconnect
    BY <1>5 DEF GattDisconnect, RwcpNext
  <1>6. ASSUME NEW c \in Commands, HandleAccessInd(c)
        PROVE  UNCHANGED rwcpVars
    BY <1>6 DEF HandleAccessInd
  <1>7. CASE UNCHANGED vars
    BY <1>7 DEF vars
  <1> QED  BY <1>1, <1>2, <1>3, <1>4, <1>5, <1>6, <1>7 DEF Next, Device, ClientStep

(* The RWCP server behind the transport is the RWCP server of RwcpServer.  *)
THEOREM RunsRwcp == Spec => RwcpSpec
  BY TransportSteps, PTL DEF Spec, Init, RwcpSpec

(* The upgrade's payloads reach GAIA in order and once each, and none is    *)
(* confirmed that did not, through any number of connections: the state    *)
(* that gaiaTransport_GattDisconnect leaves behind does no harm.           *)
THEOREM UpgradeStreamImplemented == Spec => ImplementsStream
  BY RunsRwcp, StreamImplemented

-----------------------------------------------------------------------------
(* The packets in a queue. *)

(* A queue has finitely many. *)
LEMMA HandlingFinite ==
    ASSUME NEW q \in Seq(Messages)
    PROVE  IsFiniteSet(Handling(q)) /\ Cardinality(Handling(q)) \in Nat
  <1>1. IsFiniteSet(1 .. Len(q))
    BY FS_Interval
  <1>2. Handling(q) \in SUBSET (1 .. Len(q))
    BY DEF Handling
  <1> QED  BY <1>1, <1>2, FS_Subset, FS_CardinalityType

(* A message that joins the queue. *)
LEMMA HandlingAppend ==
    ASSUME NEW q \in Seq(Messages), NEW x \in Messages
    PROVE  /\ Append(q, x) \in Seq(Messages)
           /\ Cardinality(Handling(Append(q, x)))
                = IF x \in PacketIds THEN Cardinality(Handling(q)) + 1 ELSE Cardinality(Handling(q))
           /\ \A y : y \in ToSet(Append(q, x)) <=> y = x \/ y \in ToSet(q)
  <1> DEFINE a == Append(q, x)
             n == Len(q)
  <1>1. /\ a \in Seq(Messages) /\ Len(a) = n + 1 /\ n \in Nat
        /\ \A i \in 1 .. n + 1 : a[i] = IF i = n + 1 THEN x ELSE q[i]
    BY AppendFacts
  <1> HIDE DEF a
  <1>2. /\ 1 .. n + 1 = (1 .. n) \cup {n + 1} /\ n + 1 \notin 1 .. n
        /\ DOMAIN q = 1 .. n /\ DOMAIN a = 1 .. n + 1
    BY <1>1, SMT
  <1>3. (\A i \in 1 .. n : a[i] = q[i]) /\ a[n + 1] = x
    BY <1>1, <1>2, Zenon
  <1> HIDE DEF n
  <1>4. Handling(a) = IF x \in PacketIds THEN Handling(q) \cup {n + 1} ELSE Handling(q)
    <2>1. Handling(q) = {i \in 1 .. n : q[i] \in PacketIds}
      BY DEF Handling, n
    <2>2. Handling(a) = {i \in 1 .. n + 1 : a[i] \in PacketIds}
      BY <1>1 DEF Handling
    <2> QED  BY <2>1, <2>2, <1>2, <1>3, Zenon
  <1>5. n + 1 \notin Handling(q)
    BY <1>2 DEF Handling, n
  <1>6. \A y : y \in ToSet(a) <=> y = x \/ y \in ToSet(q)
    BY <1>2, <1>3, Zenon DEF ToSet
  <1>7. Cardinality(Handling(q) \cup {n + 1}) = Cardinality(Handling(q)) + 1
    BY <1>5, HandlingFinite, FS_AddElement
  <1> QED  BY <1>1, <1>4, <1>6, <1>7 DEF a

(* The message that is handled leaves the queue. *)
LEMMA HandlingTail ==
    ASSUME NEW q \in Seq(Messages), q # <<>>
    PROVE  /\ Tail(q) \in Seq(Messages) /\ Head(q) \in Messages
           /\ Cardinality(Handling(Tail(q)))
                = IF Head(q) \in PacketIds THEN Cardinality(Handling(q)) - 1
                                           ELSE Cardinality(Handling(q))
           /\ \A y : y \in ToSet(Tail(q)) => y \in ToSet(q)
           /\ \A y : y \in ToSet(q) => y = Head(q) \/ y \in ToSet(Tail(q))
  <1>1. /\ Tail(q) \in Seq(Messages) /\ Head(q) \in Messages /\ Head(q) = q[1]
        /\ 1 \in 1 .. Len(q) /\ Len(Tail(q)) = Len(q) - 1 /\ Len(q) \in Nat
        /\ \A i \in 1 .. Len(Tail(q)) : i + 1 \in 1 .. Len(q) /\ Tail(q)[i] = q[i + 1]
    BY TailFacts
  <1> DEFINE f == [i \in Handling(Tail(q)) |-> i + 1]
  <1>2. f \in Bijection(Handling(Tail(q)), Handling(q) \ {1})
    <2>1. \A i \in Handling(Tail(q)) : i \in Nat \ {0} /\ i + 1 \in Handling(q) \ {1}
      BY <1>1, SMT DEF Handling
    <2>2. \A j \in Handling(q) \ {1} : j - 1 \in Handling(Tail(q)) /\ j = (j - 1) + 1
      BY <1>1, SMT DEF Handling
    <2>3. \A i, j \in Handling(Tail(q)) : i + 1 = j + 1 => i = j
      BY <2>1, SMT
    <2>4. f \in [Handling(Tail(q)) -> Handling(q) \ {1}]
      BY <2>1
    <2>5. \A i, j \in Handling(Tail(q)) : f[i] = f[j] => i = j
      BY <2>3
    <2>6. \A j \in Handling(q) \ {1} : \E i \in Handling(Tail(q)) : f[i] = j
      <3> SUFFICES ASSUME NEW j \in Handling(q) \ {1}
                   PROVE  \E i \in Handling(Tail(q)) : f[i] = j
        OBVIOUS
      <3>1. j - 1 \in Handling(Tail(q)) /\ f[j - 1] = j
        BY <2>2
      <3> QED  BY <3>1
    <2> HIDE DEF f
    <2> QED  BY <2>4, <2>5, <2>6, Zenon DEF Bijection, Injection, Surjection, IsInjective
  <1>3. Cardinality(Handling(q) \ {1}) = Cardinality(Handling(Tail(q)))
    BY <1>1, <1>2, HandlingFinite, FS_Bijection DEF ExistsBijection
  <1>4. 1 \in Handling(q) <=> Head(q) \in PacketIds
    BY <1>1 DEF Handling
  <1>5. Cardinality(Handling(q) \ {1})
            = IF 1 \in Handling(q) THEN Cardinality(Handling(q)) - 1 ELSE Cardinality(Handling(q))
    BY HandlingFinite, FS_RemoveElement
  <1>6. ASSUME NEW y \in ToSet(Tail(q))
        PROVE  y \in ToSet(q)
    BY <1>1, SMT DEF ToSet
  <1>7. ASSUME NEW y \in ToSet(q)
        PROVE  y = Head(q) \/ y \in ToSet(Tail(q))
    <2>1. PICK i \in 1 .. Len(q) : y = q[i]
      BY <1>1, SMT DEF ToSet
    <2>2. CASE i = 1
      BY <1>1, <2>1, <2>2
    <2>3. CASE i # 1
      <3>1. i - 1 \in 1 .. Len(Tail(q)) /\ (i - 1) + 1 = i
        BY <1>1, <2>1, <2>3, SMT
      <3>2. Tail(q)[i - 1] = y
        BY <1>1, <2>1, <3>1
      <3>3. DOMAIN Tail(q) = 1 .. Len(Tail(q))
        BY <1>1
      <3> QED  BY <3>1, <3>2, <3>3, Zenon DEF ToSet
    <2> QED  BY <2>2, <2>3
  <1> QED  BY <1>1, <1>3, <1>4, <1>5, <1>6, <1>7

-----------------------------------------------------------------------------
(* The inductive invariant.  CONNECT_FAILED is never on its way: it would  *)
(* take a library that has a transport while the plugin has none.  The     *)
(* segments are the client's, so there are none without a client.          *)

PluginInv ==
    /\ "CONNECT_FAILED" \notin ToSet(queue)
    /\ plugin_state \in {"DISCONNECTED", "DISCONNECTING"} => ~library
    /\ plugin_state # "DISCONNECTED" => has_transport

SourceInv ==
    segments # <<>> => reading \/ "MORE_DATA" \in ToSet(queue) \/ rx_packets_pending > 0

CountInv ==
    /\ InProcess <= rx_packets_pending
    /\ ~connected => segments = <<>>
    /\ SourceInv

GaiaInv == TypeOK /\ PluginInv /\ CountInv

(* What handling a message does to the queue, the count and the source:    *)
(* at most one message joins the rest, no packet is counted off that is    *)
(* still in the queue, and the source is read when the last one is.        *)
Handles(x) ==
    /\ x \in Messages /\ x # "CONNECT_FAILED"
    /\ \/ queue' = Tail(queue)
       \/ queue' = Append(Tail(queue), x) /\ (x \notin PacketIds \/ Head(queue) \in PacketIds)
    /\ \/ UNCHANGED <<rx_packets_pending, reading>>
       \/ PacketHandled /\ Head(queue) \in PacketIds /\ (queue' = Tail(queue) \/ x \notin PacketIds)
       \/ UNCHANGED rx_packets_pending /\ reading'
    /\ Head(queue) = "MORE_DATA" => reading'
    /\ UNCHANGED <<rwcpVars, connected>>

(* Each handler is such a step, and keeps the plugin and the library in    *)
(* step with each other.                                                   *)
LEMMA HandlersFacts ==
    ASSUME GaiaInv, HandleMessage
    PROVE  /\ \E x \in Messages : Handles(x)
           /\ plugin_state' \in {"DISCONNECTED", "CONNECTING", "CONNECTED", "DISCONNECTING"}
           /\ has_transport' \in BOOLEAN /\ library' \in BOOLEAN /\ rwcp_mode' \in BOOLEAN
           /\ throttled' \in BOOLEAN /\ reading' \in BOOLEAN
           /\ plugin_state' \in {"DISCONNECTED", "DISCONNECTING"} => ~library'
           /\ plugin_state' # "DISCONNECTED" => has_transport'
  <1> DEFINE id == Head(queue)
             rest == Tail(queue)
  <1>1. queue # <<>> /\ queue \in Seq(Messages) /\ id \in ToSet(queue) /\ id # "CONNECT_FAILED"
    <2>1. queue # <<>> /\ queue \in Seq(Messages)
      BY DEF HandleMessage, GaiaInv, TypeOK
    <2>2. id = queue[1] /\ 1 \in DOMAIN queue
      BY <2>1, TailFacts, SMT
    <2>3. id \in ToSet(queue)
      BY <2>2 DEF ToSet
    <2> QED  BY <2>1, <2>3 DEF GaiaInv, PluginInv
  <1>2. /\ plugin_state \in {"DISCONNECTED", "CONNECTING", "CONNECTED", "DISCONNECTING"}
        /\ has_transport \in BOOLEAN /\ library \in BOOLEAN /\ reading \in BOOLEAN
        /\ connected \in BOOLEAN /\ throttled \in BOOLEAN
        /\ plugin_state \in {"DISCONNECTED", "DISCONNECTING"} => ~library
        /\ plugin_state # "DISCONNECTED" => has_transport
    BY DEF GaiaInv, TypeOK, PluginInv
  <1>3. /\ UNCHANGED <<rwcpVars, connected>> /\ throttled' \in BOOLEAN
        /\ rwcp_mode' \in BOOLEAN
    BY DEF HandleMessage, GaiaInv, TypeOK
  <1>4. /\ {"DATA_CFM", "CONNECT_CFM", "DISCONNECT_CFM"} \subseteq Messages
        /\ {"upgrade_control", "DATA_CFM"} \subseteq PacketIds
        /\ Commands \subseteq {"upgrade_connect", "upgrade_disconnect", "set_data_endpoint"}
        /\ "CONNECT_CFM" \notin PacketIds /\ "DISCONNECT_CFM" \notin PacketIds
    BY GaiaAssumption DEF Messages, PacketIds, CommandInds
  <1>5. id \in {"upgrade_connect", "upgrade_disconnect", "set_data_endpoint"} => id \in PacketIds
    <2>1. id \in Messages
      BY <1>1, TailFacts
    <2> QED  BY <2>1 DEF Messages, PacketIds, CommandInds
  <1>6. PacketHandled => reading' \in BOOLEAN
    BY <1>2 DEF PacketHandled
  <1> HIDE DEF id, rest
  <1>7. CASE id = "upgrade_connect" /\ UpgradeConnect(rest)
    <2>1. Handles("CONNECT_CFM")
      BY <1>1, <1>2, <1>3, <1>4, <1>5, <1>7 DEF UpgradeConnect, Handles, id, rest
    <2> QED  BY <2>1, <1>2, <1>3, <1>4, <1>6, <1>7 DEF UpgradeConnect
  <1>8. CASE id = "upgrade_disconnect" /\ UpgradeDisconnect(rest)
    <2>1. Handles("DISCONNECT_CFM")
      BY <1>1, <1>2, <1>3, <1>4, <1>5, <1>8
         DEF UpgradeDisconnect, UpgradeTransportDisconnectRequest, Handles, id, rest
    <2> QED  BY <2>1, <1>2, <1>3, <1>4, <1>6, <1>8
                DEF UpgradeDisconnect, UpgradeTransportDisconnectRequest
  <1>9. CASE id = "set_data_endpoint" /\ SetDataEndpoint(rest)
    <2>1. Handles("CONNECT_CFM")
      BY <1>1, <1>2, <1>3, <1>4, <1>5, <1>9 DEF SetDataEndpoint, Handles, id, rest
    <2> QED  BY <2>1, <1>2, <1>3, <1>4, <1>6, <1>9 DEF SetDataEndpoint
  <1>10. CASE id = "upgrade_control" /\ UpgradeControl(rest)
    <2>1. Handles("DATA_CFM")
      BY <1>1, <1>2, <1>3, <1>4, <1>10 DEF UpgradeControl, Handles, id, rest
    <2> QED  BY <2>1, <1>2, <1>3, <1>4, <1>6, <1>10 DEF UpgradeControl
  <1>11. CASE id = "CONNECT_CFM" /\ UpgradeConnectCfm(rest, TRUE)
    <2>1. Handles("DISCONNECT_CFM")
      BY <1>1, <1>2, <1>3, <1>4, <1>11
         DEF UpgradeConnectCfm, UpgradeTransportDisconnectRequest, Handles, id, rest
    <2> QED  BY <2>1, <1>2, <1>3, <1>4, <1>11
                DEF UpgradeConnectCfm, UpgradeTransportDisconnectRequest
  <1>12. CASE id = "DISCONNECT_CFM" /\ UpgradeDisconnectCfm(rest)
    <2>1. Handles("DISCONNECT_CFM")
      BY <1>1, <1>2, <1>3, <1>4, <1>12 DEF UpgradeDisconnectCfm, Handles, id, rest
    <2> QED  BY <2>1, <1>2, <1>3, <1>4, <1>12
                DEF UpgradeDisconnectCfm
  <1>13. CASE id = "DATA_CFM" /\ UpgradeDataCfm(rest)
    <2>1. Handles("DISCONNECT_CFM")
      BY <1>1, <1>2, <1>3, <1>4, <1>13 DEF UpgradeDataCfm, Handles, id, rest
    <2> QED  BY <2>1, <1>2, <1>3, <1>4, <1>6, <1>13 DEF UpgradeDataCfm
  <1>14. CASE id = "GAIA_DISCONNECT" /\ TransportDisconnect(rest)
    <2>1. Handles("DISCONNECT_CFM")
      BY <1>1, <1>2, <1>3, <1>4, <1>14
         DEF TransportDisconnect, UpgradeTransportDisconnectRequest, Handles, id, rest
    <2> QED  BY <2>1, <1>2, <1>3, <1>4, <1>14
                DEF TransportDisconnect, UpgradeTransportDisconnectRequest
  <1>15. CASE id = "MORE_DATA" /\ MoreData(rest)
    <2>1. Handles("DISCONNECT_CFM")
      BY <1>1, <1>2, <1>3, <1>4, <1>15 DEF MoreData, Handles, id, rest
    <2> QED  BY <2>1, <1>2, <1>3, <1>4, <1>15 DEF MoreData
  <1>16. CASE id = "DATA_IND" /\ UpgradeDataInd(rest)
    <2>1. Handles("DISCONNECT_CFM")
      BY <1>1, <1>2, <1>3, <1>4, <1>16 DEF UpgradeDataInd, Handles, id, rest
    <2> QED  BY <2>1, <1>2, <1>3, <1>4, <1>16 DEF UpgradeDataInd
  <1> QED  BY <1>1, <1>7, <1>8, <1>9, <1>10, <1>11, <1>12, <1>13, <1>14, <1>15, <1>16
           DEF HandleMessage, id, rest

(* A message that is handled keeps the invariant. *)
LEMMA HandleMessageKeepsInv ==
    ASSUME GaiaInv, RwcpTypeOK', HandleMessage
    PROVE  GaiaInv'
  <1> DEFINE rest == Tail(queue)
             c == IF Head(queue) \in PacketIds THEN 1 ELSE 0
  <1>1. PICK x \in Messages : Handles(x)
    BY HandlersFacts
  <1>2. /\ queue # <<>> /\ queue \in Seq(Messages) /\ rx_packets_pending \in Nat
        /\ InProcess <= rx_packets_pending /\ connected \in BOOLEAN
        /\ "CONNECT_FAILED" \notin ToSet(queue) /\ SourceInv
        /\ ~connected => segments = <<>>
    BY DEF HandleMessage, GaiaInv, TypeOK, PluginInv, CountInv
  <1>3. /\ rest \in Seq(Messages)
        /\ Cardinality(Handling(rest)) = InProcess - c
        /\ InProcess \in Nat /\ Cardinality(Handling(rest)) \in Nat
        /\ \A y \in ToSet(rest) : y \in ToSet(queue)
        /\ \A y \in ToSet(queue) : y = Head(queue) \/ y \in ToSet(rest)
    <2>1. /\ rest \in Seq(Messages)
          /\ Cardinality(Handling(rest)) = IF Head(queue) \in PacketIds THEN InProcess - 1 ELSE InProcess
          /\ \A y \in ToSet(rest) : y \in ToSet(queue)
          /\ \A y \in ToSet(queue) : y = Head(queue) \/ y \in ToSet(rest)
      BY <1>2, HandlingTail DEF InProcess
    <2>2. InProcess \in Nat /\ Cardinality(Handling(rest)) \in Nat
      BY <1>2, <2>1, HandlingFinite DEF InProcess
    <2> HIDE DEF rest
    <2> QED  BY <2>1, <2>2, SMT
  <1>4. /\ Append(rest, x) \in Seq(Messages)
        /\ Cardinality(Handling(Append(rest, x)))
              = IF x \in PacketIds THEN InProcess - c + 1 ELSE InProcess - c
        /\ \A y : y \in ToSet(Append(rest, x)) <=> y = x \/ y \in ToSet(rest)
    BY <1>3, HandlingAppend
  <1>5. /\ queue' = rest \/ queue' = Append(rest, x)
        /\ segments' = segments /\ connected' = connected /\ x # "CONNECT_FAILED"
    BY <1>1 DEF Handles, rwcpVars
  <1>6. queue' \in Seq(Messages) /\ "CONNECT_FAILED" \notin ToSet(queue')
    BY <1>2, <1>3, <1>4, <1>5
  <1>7. /\ InProcess' = Cardinality(Handling(queue'))
        /\ c \in {0, 1} /\ (Head(queue) \in PacketIds => c = 1)
    BY DEF InProcess
  <1>8. rx_packets_pending' \in Nat /\ InProcess' <= rx_packets_pending'
    <2>1. CASE UNCHANGED rx_packets_pending
      <3>1. \/ Cardinality(Handling(queue')) = InProcess - c
            \/ /\ Cardinality(Handling(queue')) = InProcess - c + 1
               /\ c = 1
        BY <1>1, <1>3, <1>4, <1>7 DEF Handles
      <3> HIDE DEF c
      <3> QED  BY <2>1, <3>1, <1>2, <1>3, <1>7, SMT
    <2>2. CASE rx_packets_pending' = rx_packets_pending - 1 /\ c = 1
               /\ (queue' = rest \/ x \notin PacketIds)
      <3>1. Cardinality(Handling(queue')) = InProcess - c
        <4> HIDE DEF c, rest
        <4>1. CASE queue' = rest
          BY <4>1, <1>3
        <4>2. CASE queue' = Append(rest, x) /\ x \notin PacketIds
          BY <4>2, <1>4
        <4> QED  BY <4>1, <4>2, <1>5, <2>2
      <3> HIDE DEF c
      <3> QED  BY <2>2, <3>1, <1>2, <1>3, <1>7, SMT
    <2> QED  BY <1>1, <1>7, <2>1, <2>2 DEF Handles, PacketHandled
  <1>9. SourceInv'
    <2> SUFFICES ASSUME segments # <<>>, ~reading'
                 PROVE  "MORE_DATA" \in ToSet(queue') \/ rx_packets_pending' > 0
      BY <1>5 DEF SourceInv
    <2>1. connected
      BY <1>2
    <2>2. Head(queue) # "MORE_DATA"
      BY <1>1 DEF Handles
    <2>3. CASE UNCHANGED <<rx_packets_pending, reading>>
      <3>1. "MORE_DATA" \in ToSet(queue) \/ rx_packets_pending > 0
        BY <1>2, <2>3 DEF SourceInv
      <3> QED  BY <3>1, <2>2, <2>3, <1>3, <1>4, <1>5
    <2>4. CASE PacketHandled
      <3>1. rx_packets_pending' # 0
        BY <2>1, <2>4 DEF PacketHandled
      <3> QED  BY <3>1, <1>8, SMT
    <2> QED  BY <1>1, <2>3, <2>4 DEF Handles
  <1>10. TypeOK' /\ PluginInv'
    BY <1>1, <1>5, <1>6, <1>8, HandlersFacts DEF TypeOK, PluginInv, GaiaInv
  <1> QED  BY <1>2, <1>5, <1>8, <1>9, <1>10 DEF GaiaInv, CountInv

(* A message that joins the queue, of a packet that is counted or of none. *)
LEMMA QueuedKeepsInv ==
    ASSUME GaiaInv, NEW x \in Messages, x # "CONNECT_FAILED",
           queue' = Append(queue, x),
           UNCHANGED <<plugin_state, has_transport, library>>,
           rx_packets_pending' = rx_packets_pending + (IF x \in PacketIds THEN 1 ELSE 0)
    PROVE  /\ queue' \in Seq(Messages) /\ rx_packets_pending' \in Nat
           /\ InProcess' <= rx_packets_pending' /\ PluginInv'
           /\ \A y : y \in ToSet(queue') <=> y = x \/ y \in ToSet(queue)
  <1>1. /\ queue \in Seq(Messages) /\ rx_packets_pending \in Nat
        /\ InProcess <= rx_packets_pending /\ PluginInv
    BY DEF GaiaInv, TypeOK, CountInv
  <1>2. InProcess \in Nat
    BY <1>1, HandlingFinite DEF InProcess
  <1>3. /\ queue' \in Seq(Messages)
        /\ InProcess' = IF x \in PacketIds THEN InProcess + 1 ELSE InProcess
        /\ \A y : y \in ToSet(queue') <=> y = x \/ y \in ToSet(queue)
    BY <1>1, HandlingAppend DEF InProcess
  <1>4. PluginInv'
    BY <1>1, <1>3 DEF PluginInv
  <1> QED  BY <1>1, <1>2, <1>3, <1>4, SMT

(* Every step keeps the invariant. *)
LEMMA GaiaStep ==
    ASSUME GaiaInv, RwcpTypeOK', [Next]_vars
    PROVE  GaiaInv'
  <1>1. /\ queue \in Seq(Messages) /\ rx_packets_pending \in Nat
        /\ InProcess \in Nat /\ InProcess <= rx_packets_pending
        /\ ~connected => segments = <<>>
    BY HandlingFinite DEF GaiaInv, TypeOK, CountInv, InProcess
  <1>2. \A c \in Commands \cup {"upgrade_control"} :
            c \in Messages /\ c # "CONNECT_FAILED" /\ c \in PacketIds
    BY GaiaAssumption DEF Messages, CommandInds, PacketIds
  <1>3. \A x \in {"MORE_DATA", "GAIA_DISCONNECT", "DATA_IND"} :
            x \in Messages /\ x # "CONNECT_FAILED" /\ x \notin PacketIds
    BY GaiaAssumption DEF Messages, CommandInds, PacketIds
  <1>4. CASE ReceiveDataPacket
    <2>1. /\ reading /\ reading' = reading /\ connected' = connected /\ segments # <<>>
          /\ UNCHANGED pluginVars /\ rwcp_mode' = rwcp_mode
      BY <1>4 DEF ReceiveDataPacket, RwcpServerHandleMessage, Drop
    <2>2. CountInv' /\ PluginInv' /\ queue' \in Seq(Messages) /\ rx_packets_pending' \in Nat
      <3>1. CASE ReceivePacket("upgrade_control")
        BY <3>1, <2>1, <1>1, <1>2, QueuedKeepsInv
           DEF ReceivePacket, CountInv, SourceInv, pluginVars
      <3>2. CASE UNCHANGED <<rx_packets_pending, queue>>
        BY <3>2, <2>1, <1>1
           DEF CountInv, PluginInv, SourceInv, pluginVars, GaiaInv, InProcess
      <3> QED  BY <1>4, <3>1, <3>2 DEF ReceiveDataPacket
    <2> QED  BY <2>1, <2>2 DEF GaiaInv, TypeOK, pluginVars
  <1>5. CASE EndOfRead
    <2>1. /\ UNCHANGED <<rwcpVars, pluginVars, connected, rwcp_mode, rx_packets_pending, queue>>
          /\ reading' = FALSE /\ (segments = <<>> \/ rx_packets_pending >= MaxRxPending)
      BY <1>5 DEF EndOfRead
    <2>2. segments = <<>> \/ rx_packets_pending > 0
      BY <2>1, <1>1, GaiaAssumption, SMT
    <2> QED  BY <2>1, <2>2, <1>1
                DEF GaiaInv, TypeOK, CountInv, PluginInv, SourceInv, InProcess, pluginVars, rwcpVars
  <1>6. CASE HandleMessage
    BY <1>6, HandleMessageKeepsInv
  <1>7. CASE Arrives(ClientSend)
    <2>1. /\ connected /\ UNCHANGED <<pluginVars, gattVars>>
          /\ \/ queue' = queue /\ (segments' = segments \/ "MORE_DATA" \in ToSet(queue))
             \/ queue' = Append(queue, "MORE_DATA")
      BY <1>7 DEF Arrives
    <2>2. CASE queue' = queue /\ (segments' = segments \/ "MORE_DATA" \in ToSet(queue))
      BY <2>1, <2>2, <1>1
         DEF GaiaInv, TypeOK, CountInv, PluginInv, SourceInv, InProcess, pluginVars, gattVars
    <2>3. CASE queue' = Append(queue, "MORE_DATA")
      <3>1. rx_packets_pending' = rx_packets_pending + (IF "MORE_DATA" \in PacketIds THEN 1 ELSE 0)
        BY <2>1, <1>1, <1>3, SMT DEF gattVars
      <3>2. /\ queue' \in Seq(Messages) /\ InProcess' <= rx_packets_pending' /\ PluginInv'
            /\ "MORE_DATA" \in ToSet(queue')
        BY <2>1, <2>3, <3>1, <1>3, QueuedKeepsInv DEF pluginVars
      <3> QED  BY <2>1, <3>2 DEF GaiaInv, TypeOK, CountInv, SourceInv, pluginVars, gattVars
    <2> QED  BY <2>1, <2>2, <2>3
  <1>8. CASE ReceiveAnswers
    <2>1. UNCHANGED <<gattVars, pluginVars, queue, segments>>
      BY <1>8 DEF ReceiveAnswers, ClientReceive
    <2> QED  BY <2>1
                DEF GaiaInv, TypeOK, CountInv, PluginInv, SourceInv, InProcess, pluginVars, gattVars
  <1>9. CASE GattDisconnect \/ DisconnectReq
    <2>1. /\ UNCHANGED <<pluginVars, rwcp_mode, rx_packets_pending, reading>>
          /\ queue' = Append(queue, "GAIA_DISCONNECT") /\ connected' \in BOOLEAN
          /\ segments' = <<>> \/ (segments' = segments /\ connected' = connected)
      BY <1>9 DEF GattDisconnect, DisconnectReq, LinkDown, gattVars, rwcpVars, GaiaInv, TypeOK
    <2>2. rx_packets_pending'
              = rx_packets_pending + (IF "GAIA_DISCONNECT" \in PacketIds THEN 1 ELSE 0)
      BY <2>1, <1>1, <1>3, SMT
    <2>3. /\ queue' \in Seq(Messages) /\ InProcess' <= rx_packets_pending' /\ PluginInv'
          /\ "MORE_DATA" \in ToSet(queue) => "MORE_DATA" \in ToSet(queue')
      BY <2>1, <2>2, <1>3, QueuedKeepsInv DEF pluginVars
    <2>4. SourceInv'
      BY <2>1, <2>3 DEF GaiaInv, CountInv, SourceInv
    <2> QED  BY <2>1, <2>3, <2>4, <1>1 DEF GaiaInv, TypeOK, CountInv, pluginVars
  <1>10. CASE BandwidthThrottle
    BY <1>10 DEF BandwidthThrottle, GaiaInv, TypeOK, CountInv, PluginInv, SourceInv,
                 InProcess, gattVars, rwcpVars
  <1>11. ASSUME NEW c \in Commands, HandleAccessInd(c)
         PROVE  GaiaInv'
    <2>1. /\ UNCHANGED <<rwcpVars, pluginVars, rwcp_mode, reading>> /\ connected' = TRUE
          /\ rx_packets_pending' = rx_packets_pending + 1 /\ queue' = Append(queue, c)
      BY <1>11 DEF HandleAccessInd, ReceivePacket
    <2>2. /\ queue' \in Seq(Messages) /\ InProcess' <= rx_packets_pending' /\ PluginInv'
          /\ rx_packets_pending' \in Nat
      BY <2>1, <1>2, QueuedKeepsInv DEF pluginVars
    <2>3. rx_packets_pending' > 0
      BY <2>1, <1>1, SMT
    <2> QED  BY <2>1, <2>2, <2>3 DEF GaiaInv, TypeOK, CountInv, SourceInv, pluginVars, rwcpVars
  <1>12. CASE SendDataInd
    <2>1. UNCHANGED <<rwcpVars, gattVars, pluginVars>> /\ queue' = Append(queue, "DATA_IND")
      BY <1>12 DEF SendDataInd
    <2>2. rx_packets_pending' = rx_packets_pending + (IF "DATA_IND" \in PacketIds THEN 1 ELSE 0)
      BY <2>1, <1>1, <1>3, SMT DEF gattVars
    <2>3. /\ queue' \in Seq(Messages) /\ InProcess' <= rx_packets_pending' /\ PluginInv'
          /\ "MORE_DATA" \in ToSet(queue) => "MORE_DATA" \in ToSet(queue')
      BY <2>1, <2>2, <1>3, QueuedKeepsInv DEF pluginVars
    <2> QED  BY <2>1, <2>3
                DEF GaiaInv, TypeOK, CountInv, SourceInv, pluginVars, gattVars, rwcpVars
  <1>13. CASE UNCHANGED vars
    BY <1>13 DEF vars, GaiaInv, TypeOK, CountInv, PluginInv, SourceInv, InProcess,
                 gattVars, pluginVars, rwcpVars
  <1> QED  BY <1>4, <1>5, <1>6, <1>7, <1>8, <1>9, <1>10, <1>11, <1>12, <1>13 DEF Next, Device, ClientStep

(* The invariant holds in every behaviour. *)
LEMMA GaiaInvariant == Spec => []GaiaInv
  <1>1. Init => PluginInv /\ CountInv
    <2> SUFFICES ASSUME Init
                 PROVE  PluginInv /\ CountInv
      OBVIOUS
    <2>1. /\ queue = <<>> /\ segments = <<>> /\ rx_packets_pending = 0
          /\ plugin_state = "DISCONNECTED" /\ library = FALSE
      BY DEF Init, RwcpInit
    <2>2. Handling(queue) = {} /\ ToSet(queue) = {}
      <3>1. 1 .. Len(<<>>) = {} /\ DOMAIN <<>> = {}
        BY SMT
      <3> QED  BY <2>1, <3>1, Zenon DEF Handling, ToSet
    <2>3. InProcess <= rx_packets_pending
      BY <2>1, <2>2, FS_EmptySet, SMT DEF InProcess
    <2> QED  BY <2>1, <2>2, <2>3 DEF PluginInv, CountInv, SourceInv
  <1>2. Init /\ RwcpTypeOK => TypeOK
    <2>1. <<>> \in Seq(Messages)
      BY SMT
    <2>2. 0 \in Nat
      BY SMT
    <2> QED  BY <2>1, <2>2, Zenon DEF Init, TypeOK
  <1>3. RwcpTypeOK' /\ GaiaInv /\ [Next]_vars => GaiaInv'
    BY GaiaStep
  <1>4. Spec => []RwcpTypeOK
    BY RunsRwcp, TypeCorrect
  <1> QED  BY <1>1, <1>2, <1>3, <1>4, PTL DEF Spec, GaiaInv

(* The transport, the framework, the plugin and the library keep their      *)
(* types; in particular the count of packets is never negative.            *)
THEOREM GaiaTypeCorrect == Spec => []TypeOK
  BY GaiaInvariant, PTL DEF GaiaInv

(* gaiaTransport_GattPacketHandled is never called for a packet that was    *)
(* not counted, and the plugin has a transport in the states whose         *)
(* handlers use it: whatever messages earlier clients left on their way.   *)
(* Only the handler of a late DATA_IND, which asks for no state, can panic.*)
THEOREM NothingElsePanics == Spec => []OnlyDataIndPanics
  <1>1. GaiaInv => OnlyDataIndPanics
    BY DEF GaiaInv, CountInv, PluginInv, OnlyDataIndPanics
  <1> QED  BY <1>1, GaiaInvariant, PTL

(* Where upgradeGaiaPlugin_HandoverVeto lets a handover proceed, the        *)
(* library has no transport.                                               *)
THEOREM HandoverIsSafe == Spec => []HandoverOnlyWhenIdle
  <1>1. GaiaInv => HandoverOnlyWhenIdle
    BY DEF GaiaInv, PluginInv, HandoverOnlyWhenIdle
  <1> QED  BY <1>1, GaiaInvariant, PTL

(* Unless a packet was counted that nobody answers for, the source is       *)
(* never left unread with no message on its way that will make the         *)
(* transport read it: MaxRxPending pauses a transfer, and no more.         *)
THEOREM SourceWillBeRead == Spec => []DataWillBeRead
  <1>1. GaiaInv => DataWillBeRead
    <2> SUFFICES ASSUME GaiaInv, segments # <<>>, ~Leaked
                 PROVE  reading \/ "MORE_DATA" \in ToSet(queue) \/ InProcess > 0
      BY DEF DataWillBeRead
    <2>1. /\ rx_packets_pending \in Nat /\ queue \in Seq(Messages)
          /\ reading \/ "MORE_DATA" \in ToSet(queue) \/ rx_packets_pending > 0
      BY DEF GaiaInv, TypeOK, CountInv, SourceInv
    <2>2. InProcess \in Nat
      BY <2>1, HandlingFinite DEF InProcess
    <2>3. rx_packets_pending > 0 => InProcess > 0
      BY <2>1, <2>2 DEF Leaked
    <2> QED  BY <2>1, <2>3
  <1> QED  BY <1>1, GaiaInvariant, PTL
=============================================================================
