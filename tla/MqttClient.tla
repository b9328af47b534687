----------------------------- MODULE MqttClient -----------------------------
(***************************************************************************)
(* The core of the mqttclient library (src/mqttclient/mqttclient.c): one   *)
(* background thread running mqtt_yield_thread and application threads    *)
(* calling the public API share one mqtt_client_t.  The model keeps the    *)
(* session state, the ACK table, the subscription table, the packet id,    *)
(* the write buffer and its lock, and the ping counter.  The broker at the *)
(* other end of the TCP stream is an environment: two ordered channels     *)
(* that are emptied when the link drops.  Timers are abstracted to a       *)
(* nondeterministic "expired or not" at the point the code asks.           *)
(***************************************************************************)
EXTENDS Integers, Sequences, FiniteSets, SequencesExt

CONSTANTS
    Users,                (* application threads calling the API           *)
    Topics,               (* topic filters, model values                   *)
    None,                 (* NULL, as a model value                        *)
    MAX_PACKET_ID,        (* MQTT_MAX_PACKET_ID, where the packet id wraps *)
    ACK_HANDLER_NUM_MAX,  (* MQTT_ACK_HANDLER_NUM_MAX                      *)
    CleanSession,         (* mqtt_clean_session as carried in CONNECT      *)
    BrokerQos,            (* QoS levels the broker publishes with          *)
    MaxCalls,             (* bound: API calls made by all users together   *)
    MaxBrokerMsgs,        (* bound: messages the broker originates         *)
    UserQos,              (* QoS levels the application publishes with     *)
    MaxDrops,             (* bound: times the TCP link drops               *)
    MaxExpiries,          (* bound: keep-alive deadlines that expire       *)
    DeadLinkExpires,      (* expiries on a dead link escape MaxExpiries    *)
    MaxChan,              (* bound: packets buffered in one TCP direction  *)
    AllocFailSites        (* the allocations that may return NULL          *)

ASSUME /\ MAX_PACKET_ID \in Nat \ {0}
       /\ ACK_HANDLER_NUM_MAX \in Nat \ {0}
       /\ CleanSession \in BOOLEAN
       /\ DeadLinkExpires \in BOOLEAN
       /\ BrokerQos \subseteq {0, 1, 2}
       /\ UserQos \subseteq {0, 1, 2}
       /\ {MaxCalls, MaxBrokerMsgs, MaxDrops, MaxExpiries, MaxChan} \subseteq Nat
       /\ AllocFailSites \subseteq
            {"subscribe", "unsubscribe", "publish", "pubrel", "pubcomp"}

SUBFAIL == 128                     \* granted QoS 0x80 in a SUBACK
PubTypes == {"PUBACK", "PUBREC", "PUBREL", "PUBCOMP"}
States == {"INVALID", "INITIALIZED", "CONNECTED", "DISCONNECTED", "CLEAN_SESSION"}
Ids == 1..MAX_PACKET_ID
UserMsgs == 1..MaxCalls
BrokerMsgs == 1..MaxBrokerMsgs

VARIABLES
    state,            \* mqtt_client_state
    packetId,         \* mqtt_packet_id
    ackList,          \* mqtt_ack_handler_list, read from head->next
    ackTail,          \* its head->prev: the record add_tail links after
    ackCount,        \* mqtt_ack_handler_number
    msgHandlers,      \* mqtt_msg_handler_list (installed subscriptions)
    pingOutstanding,  \* mqtt_ping_outstanding, a 2-bit field
    writeLock,        \* holder of mqtt_write_lock, or None
    writeBuf,         \* the packet last serialized into mqtt_write_buf
    threadHandle,     \* c->mqtt_thread # NULL
    link,             \* the transport is connected
    toBroker,         \* bytes written by the client, not yet read by the broker
    toClient,         \* bytes written by the broker, not yet read by the client
    upc, uloc,        \* program counter and locals of each user thread
    bpc, bloc,        \* program counter and locals of the background thread
    bSubs,            \* the broker's subscriptions for this client
    bGranted,         \* filters the broker has ever granted (history)
    bInQos2,          \* QoS 2 ids the broker received and has not released
    bOut,             \* the broker's outgoing QoS 1/2 messages in flight
    bMsgs,            \* messages the broker has originated
    bDone,            \* broker messages whose QoS 1/2 flow completed (history)
    bResend,          \* ids of flows the broker re-sends on the resumed session
    bGarbled,         \* the broker read bytes that are no packet (history)
    hNext,            \* message handler objects allocated so far
    freed,            \* message handler objects freed so far
    doubleFree,       \* a handler object was freed twice (history)
    wildFree,         \* a pointer never read from a record was freed (history)
    drops,            \* link drops so far
    expiries,         \* keep-alive expiries so far
    calls,            \* API calls so far
    brokerQos2Deliveries, \* user QoS 2 message -> times the broker delivered it
    appQos2Deliveries     \* broker QoS 2 message -> times the app received it

clientVars == <<state, packetId, ackList, ackTail, ackCount, msgHandlers,
                pingOutstanding, writeLock, writeBuf, threadHandle>>
netVars == <<link, toBroker, toClient>>
brokerVars == <<bSubs, bGranted, bInQos2, bOut, bMsgs, bDone, bResend, bGarbled>>
heapVars == <<hNext, freed, doubleFree, wildFree>>
histVars == <<drops, expiries, calls, brokerQos2Deliveries, appQos2Deliveries>>
vars == <<clientVars, netVars, upc, uloc, bpc, bloc, brokerVars, heapVars,
          histVars>>

-----------------------------------------------------------------------------
(* Packets are records; fields a packet type does not use stay at 0/None.  *)
Pkt(t, i, q, m, tp) == [type |-> t, id |-> i, qos |-> q, dup |-> 0,
                        msg |-> m, topic |-> tp]
AckPkt(t, i) == Pkt(t, i, 0, 0, None)
Bare(t) == Pkt(t, 0, 0, 0, None)

(* A message handler object: its filter and its allocation number.        *)
Handler(t, k) == [topic |-> t, hid |-> k]

(* An ACK record as mqtt_ack_handler_create builds it, with the bytes of   *)
(* the write buffer copied in as the retained payload.                     *)
AckRec(t, i, h, payload) == [type |-> t, id |-> i, handler |-> h,
                             payload |-> payload]

(* The length MQTTSerialize_* returns for a packet: acknowledgements are  *)
(* 4 bytes, PINGREQ/PINGRESP/DISCONNECT 2; the others carry a topic or a   *)
(* client id (one character each here) and a 2-byte packet id for QoS > 0. *)
PktLen(p) ==
    CASE p.type \in {"PUBACK", "PUBREC", "PUBREL", "PUBCOMP", "UNSUBACK"} -> 4
      [] p.type \in {"PINGREQ", "PINGRESP", "DISCONNECT"} -> 2
      [] p.type = "PUBLISH" -> IF p.qos = 0 THEN 6 ELSE 8
      [] p.type = "SUBSCRIBE" -> 8
      [] p.type = "UNSUBSCRIBE" -> 7
      [] OTHER -> 15

(* memcpy(ack_handler->payload, c->mqtt_write_buf, payload_len): the      *)
(* first n bytes of the buffer.  They are the packet b only when b is n   *)
(* bytes long; otherwise a cut-off b, or b followed by the stale tail of  *)
(* an earlier packet, neither of which is a well-formed packet.           *)
Retained(b, n) == IF PktLen(b) = n THEN b ELSE Bare("GARBLED")

(* Mutant: the id is incremented without wrapping at MQTT_MAX_PACKET_ID.  *)
NextPacketIdNoWrap(p) == p + 1

(* mqtt_get_next_packet_id: increment, wrapping MAX to 1, skipping 0.      *)
NextPacketId(p) == IF p = MAX_PACKET_ID THEN 1 ELSE p + 1

(* mqtt_ack_handler_is_maximum                                             *)
AckHandlerIsMaximum == ackCount >= ACK_HANDLER_NUM_MAX

(* mqtt_ack_list_node_is_exist                                             *)
NodeIsExist(l, t, i) == \E k \in 1..Len(l) : l[k].type = t /\ l[k].id = i

(* mqtt_list_add_tail(node, head) is _mqtt_list_add(node, head->prev,     *)
(* head) and takes no lock: prev is read first, then four stores link the *)
(* node between prev and head.  Read from head->next, the list then ends  *)
(* at prev followed by the node, so whatever another thread linked after  *)
(* prev in between is cut off; if prev was unlinked in between, the node  *)
(* is reachable from nowhere.  A prev of None is the list head itself.    *)
LinkAfter(l, prev, x) ==
    IF prev = None THEN << x >>
    ELSE IF \E k \in 1..Len(l) : l[k] = prev
         THEN SubSeq(l, 1, CHOOSE k \in 1..Len(l) : l[k] = prev) \o << x >>
         ELSE l

(* head->prev after those stores: the node, unless prev was unlinked in   *)
(* between and that mqtt_list_del wrote head->prev after the node did.    *)
TailAfterLink(l, prev, x) ==
    IF prev = None \/ \E k \in 1..Len(l) : l[k] = prev THEN {x}
    ELSE {x, ackTail}

(* head->prev after mqtt_list_del of the records of l that rem lacks:     *)
(* unlinking the last node sets it to that node's predecessor.            *)
TailAfterDel(l, rem) ==
    IF l # << >> /\ (rem = << >> \/ Last(rem) # Last(l))
    THEN IF rem = << >> THEN None ELSE Last(rem)
    ELSE ackTail

(* mqtt_list_del of the records of l that rem lacks.                       *)
DelRecords(l, rem) == ackList' = rem /\ ackTail' = TailAfterDel(l, rem)

(* mqtt_ack_list_unrecord: removes every record with this type and id.     *)
Unrecord(l, t, i) == SelectSeq(l, LAMBDA r : ~(r.type = t /\ r.id = i))

(* mqtt_ack_list_record of a fresh record by a thread that runs it whole: *)
(* mqtt_add_ack_handler_num and the add_tail from the head->prev of now.  *)
RecordNow(x) ==
    /\ ackList' = LinkAfter(ackList, ackTail, x)
    /\ ackTail' = x
    /\ ackCount' = ackCount + 1

(* The handler the caller gets back: that of the last match, if any.       *)
UnrecordHandler(l, t, i, init) ==
    LET ks == {k \in 1..Len(l) : l[k].type = t /\ l[k].id = i}
    IN  IF ks = {} THEN init
        ELSE l[CHOOSE k \in ks : \A j \in ks : j <= k].handler

(* mqtt_subtract_ack_handler_num once per removed record; it stops at 0.  *)
SubtractAckHandlerNum(n, k) == IF n - k < 0 THEN 0 ELSE n - k

(* mqtt_add_ack_handler_num when mqtt_ack_list_record inserted a node.    *)
AddAckHandlerNum(n, l, t, i) == IF NodeIsExist(l, t, i) THEN n ELSE n + 1

(* mqtt_set_publish_dup: sets DUP in the buffered header if it is PUBLISH. *)
SetPublishDup(b) == IF b.type = "PUBLISH" THEN [b EXCEPT !.dup = 1] ELSE b

(* mqtt_send_packet: succeeds when the link is up and the stream accepts   *)
(* the bytes before the command timeout (modelled by the channel bound).  *)
CanSend == link /\ Len(toBroker) < MaxChan
SendPacket(p) == toBroker' = IF CanSend THEN Append(toBroker, p) ELSE toBroker
SendRc == IF CanSend THEN "SUCCESS" ELSE "SEND_PACKET"

(* network_release / network_disconnect: the stream and its bytes are gone.*)
ReleaseLink == /\ link' = FALSE
               /\ toBroker' = << >>
               /\ toClient' = << >>

(* mqtt_get_msg_handler: the installed handler for a filter, or None.      *)
GetMsgHandler(t) ==
    IF \E h \in msgHandlers : h.topic = t
    THEN CHOOSE h \in msgHandlers : h.topic = t ELSE None

(* mqtt_msg_handler_destory of a set of handler objects: unlinked from the *)
(* subscription table and freed; freeing one already freed is recorded.   *)
Destroy(hs) == /\ msgHandlers' = msgHandlers \ hs
               /\ freed' = freed \cup hs
               /\ doubleFree' = (doubleFree \/ hs \cap freed # {})

(* mqtt_msg_handler_is_exist: a handler with an equal filter is installed.*)
MsgHandlerIsExist(t) == \E x \in msgHandlers : x.topic = t

Sat(n) == IF n >= 2 THEN 2 ELSE n + 1     \* counts kept up to "twice"

(* The locals of a call; snap and rec hold, between the two halves of an  *)
(* add_tail, the head->prev read and the record being linked.             *)
NoCall == [qos |-> 0, topic |-> None, id |-> 0, msg |-> 0, snap |-> None,
           rec |-> None]

(* The length of the packet a call serialized.                            *)
CallLen(t, l) == PktLen(Pkt(t, l.id, l.qos, l.msg, l.topic))

(* platform_memory_alloc in a *_create call at a site: TRUE when it       *)
(* returns memory.  At the sites of AllocFailSites it may return NULL.     *)
Allocs(site) == IF site \in AllocFailSites THEN BOOLEAN ELSE {TRUE}

-----------------------------------------------------------------------------
(* mqtt_connect_with_results.  Its outcomes: network_connect fails;        *)
(* CONNECT is sent under the write lock but no good CONNACK comes back     *)
(* within the command timeout; or the session is connected.  The exchange *)
(* of CONNECT and CONNACK on the fresh stream is one step.  Each fragment  *)
(* fixes the client, network and broker variables.                         *)
ConnectNetFail ==
    /\ state # "CONNECTED"
    /\ ReleaseLink
    /\ UNCHANGED <<clientVars, brokerVars>>

ConnectRefused ==
    /\ state # "CONNECTED"
    /\ writeLock = None
    /\ ReleaseLink
    /\ state' = "INITIALIZED"
    /\ writeBuf' = Bare("CONNECT")
    /\ UNCHANGED <<packetId, ackList, ackTail, ackCount, msgHandlers, pingOutstanding,
                   writeLock, threadHandle, brokerVars>>

(* The broker drops its session state if CONNECT asked for a clean one;   *)
(* on a resumed session it is to re-send every unacknowledged PUBLISH and *)
(* PUBREL (MQTT 3.1.1 section 4.4).                                        *)
ConnectOk ==
    /\ state # "CONNECTED"
    /\ writeLock = None
    /\ state' = "CONNECTED"
    /\ pingOutstanding' = 0
    /\ writeBuf' = Bare("CONNECT")
    /\ threadHandle' = TRUE
    /\ link' = TRUE
    /\ toBroker' = << >>
    /\ toClient' = << >>
    /\ IF CleanSession
       THEN /\ bSubs' = {} /\ bInQos2' = {} /\ bOut' = {}
       ELSE UNCHANGED <<bSubs, bInQos2, bOut>>
    /\ bResend' = {x.id : x \in bOut'}
    /\ UNCHANGED <<packetId, ackList, ackTail, ackCount, msgHandlers, writeLock,
                   bGranted, bMsgs, bDone, bGarbled>>

-----------------------------------------------------------------------------
(* Application threads.  A call starts from "idle"; MaxCalls bounds them. *)

StartCall(u, pc, l) ==
    /\ upc[u] = "idle"
    /\ calls < MaxCalls
    /\ calls' = calls + 1
    /\ upc' = [upc EXCEPT ![u] = pc]
    /\ uloc' = [uloc EXCEPT ![u] = l]

(* mqtt_connect.  A yield thread is spawned only if c->mqtt_thread is NULL;*)
(* the handle is never reset when the thread exits.                        *)
UserConnect(u) ==
    /\ StartCall(u, "idle", uloc[u])
    /\ \/ /\ state = "CONNECTED"
          /\ UNCHANGED <<clientVars, netVars, brokerVars, bpc>>
       \/ ConnectNetFail /\ UNCHANGED bpc
       \/ ConnectRefused /\ UNCHANGED bpc
       \/ ConnectOk /\ bpc' = IF threadHandle THEN bpc ELSE "start"
    /\ UNCHANGED <<bloc, heapVars, drops, expiries, brokerQos2Deliveries,
                   appQos2Deliveries>>

(* mqtt_publish: the state check before the write lock is taken.          *)
PublishStart(u, q) ==
    /\ StartCall(u, IF state = "CONNECTED" THEN "pub_lock" ELSE "idle",
                 [NoCall EXCEPT !.qos = q, !.msg = calls + 1])
    /\ UNCHANGED <<clientVars, netVars, bpc, bloc, brokerVars, heapVars,
                   drops, expiries, brokerQos2Deliveries, appQos2Deliveries>>

userFrame == <<netVars, bpc, bloc, brokerVars, heapVars, histVars>>

(* Under the lock: the ACK bound, the packet id, serialization.           *)
PublishLock(u) ==
    LET q == uloc[u].qos
        id == IF q = 0 THEN 0 ELSE NextPacketId(packetId)
    IN
    /\ upc[u] = "pub_lock"
    /\ writeLock = None
    /\ writeLock' = u
    /\ IF q # 0 /\ AckHandlerIsMaximum
       THEN /\ upc' = [upc EXCEPT ![u] = "pub_fail"]
            /\ UNCHANGED <<packetId, writeBuf, uloc>>
       ELSE /\ upc' = [upc EXCEPT ![u] = "pub_send"]
            /\ packetId' = IF q = 0 THEN packetId ELSE id
            /\ writeBuf' = Pkt("PUBLISH", id, q, uloc[u].msg, None)
            /\ uloc' = [uloc EXCEPT ![u].id = id]
    /\ UNCHANGED <<state, ackList, ackTail, ackCount, msgHandlers, pingOutstanding,
                   threadHandle, userFrame>>

(* mqtt_send_packet(c, len): the first len bytes of the write buffer as  *)
(* it is now.  QoS 0, or a failed send, leaves through the exit label:     *)
(* unlock.                                                                 *)
PublishSend(u) ==
    /\ upc[u] = "pub_send"
    /\ SendPacket(Retained(writeBuf, CallLen("PUBLISH", uloc[u])))
    /\ IF SendRc = "SUCCESS" /\ uloc[u].qos # 0
       THEN /\ upc' = [upc EXCEPT ![u] = "pub_record"]
            /\ UNCHANGED writeLock
       ELSE /\ upc' = [upc EXCEPT ![u] = "idle"]
            /\ writeLock' = None
    /\ UNCHANGED <<state, packetId, ackList, ackTail, ackCount, msgHandlers,
                   pingOutstanding, writeBuf, threadHandle, link, toClient,
                   uloc, bpc, bloc, brokerVars, heapVars, histVars>>

(* Set DUP in the buffer and mqtt_ack_list_record(c, PUBACK or PUBREC,    *)
(* id, len): a record that exists returns, unlock; else create, copying   *)
(* len bytes of the buffer, count, read head->prev (pub_link).  The       *)
(* background thread may already have read the broker's answer by now.    *)
(* A failed mqtt_ack_handler_create returns MQTT_MEM_NOT_ENOUGH_ERROR,    *)
(* which the exit label treats as the bound error: release the transport, *)
(* DISCONNECTED (pub_fail).                                                *)
PublishRecord(u) ==
    LET t == IF uloc[u].qos = 1 THEN "PUBACK" ELSE "PUBREC"
        id == uloc[u].id
        b == SetPublishDup(writeBuf)
        x == AckRec(t, id, None, Retained(b, CallLen("PUBLISH", uloc[u])))
    IN
    /\ upc[u] = "pub_record"
    /\ writeBuf' = b
    /\ \E ok \in Allocs("publish") :
         CASE NodeIsExist(ackList, t, id) ->
                /\ writeLock' = None
                /\ upc' = [upc EXCEPT ![u] = "idle"]
                /\ UNCHANGED <<ackCount, uloc>>
           [] ~ok ->
                /\ upc' = [upc EXCEPT ![u] = "pub_fail"]
                /\ UNCHANGED <<ackCount, writeLock, uloc>>
           [] OTHER ->
                /\ ackCount' = ackCount + 1
                /\ uloc' = [uloc EXCEPT ![u].snap = ackTail, ![u].rec = x]
                /\ upc' = [upc EXCEPT ![u] = "pub_link"]
                /\ UNCHANGED writeLock
    /\ UNCHANGED <<state, packetId, ackList, ackTail, msgHandlers,
                   pingOutstanding, threadHandle, userFrame>>

(* The stores of mqtt_list_add_tail from the head->prev read before them, *)
(* then the unlock at the exit label of mqtt_publish, mqtt_subscribe or   *)
(* mqtt_unsubscribe.                                                       *)
UserLink(u, pc) ==
    /\ upc[u] = pc
    /\ ackList' = LinkAfter(ackList, uloc[u].snap, uloc[u].rec)
    /\ ackTail' \in TailAfterLink(ackList, uloc[u].snap, uloc[u].rec)
    /\ writeLock' = None
    /\ upc' = [upc EXCEPT ![u] = "idle"]
    /\ uloc' = [uloc EXCEPT ![u].snap = None, ![u].rec = None]
    /\ UNCHANGED <<state, packetId, ackCount, msgHandlers, pingOutstanding,
                   writeBuf, threadHandle, userFrame>>

PublishLink(u) == UserLink(u, "pub_link")

(* AckHandlerIsMaximum: unlock, release the transport, DISCONNECTED.      *)
PublishFail(u) ==
    /\ upc[u] = "pub_fail"
    /\ writeLock' = None
    /\ ReleaseLink
    /\ state' = "DISCONNECTED"
    /\ upc' = [upc EXCEPT ![u] = "idle"]
    /\ UNCHANGED <<packetId, ackList, ackTail, ackCount, msgHandlers, pingOutstanding,
                   writeBuf, threadHandle, uloc, bpc, bloc, brokerVars,
                   heapVars, histVars>>

(* mqtt_subscribe / mqtt_unsubscribe: the state check before the lock.    *)
SubscribeStart(u, t) ==
    /\ StartCall(u, IF state = "CONNECTED" THEN "sub_lock" ELSE "idle",
                 [NoCall EXCEPT !.topic = t])
    /\ UNCHANGED <<clientVars, netVars, bpc, bloc, brokerVars, heapVars,
                   drops, expiries, brokerQos2Deliveries, appQos2Deliveries>>

UnsubscribeStart(u, t) ==
    /\ StartCall(u, IF state = "CONNECTED" THEN "unsub_lock" ELSE "idle",
                 [NoCall EXCEPT !.topic = t])
    /\ UNCHANGED <<clientVars, netVars, bpc, bloc, brokerVars, heapVars,
                   drops, expiries, brokerQos2Deliveries, appQos2Deliveries>>

(* Under the lock: mqtt_get_next_packet_id and the serialized request.    *)
SerializeRequest(u, pc, t, next) ==
    LET id == NextPacketId(packetId)
    IN
    /\ upc[u] = pc
    /\ writeLock = None
    /\ writeLock' = u
    /\ packetId' = id
    /\ writeBuf' = Pkt(t, id, 0, 0, uloc[u].topic)
    /\ uloc' = [uloc EXCEPT ![u].id = id]
    /\ upc' = [upc EXCEPT ![u] = next]
    /\ UNCHANGED <<state, ackList, ackTail, ackCount, msgHandlers, pingOutstanding,
                   threadHandle, userFrame>>

SubscribeLock(u) == SerializeRequest(u, "sub_lock", "SUBSCRIBE", "sub_send")
UnsubscribeLock(u) == SerializeRequest(u, "unsub_lock", "UNSUBSCRIBE", "unsub_send")

(* The send of len bytes of the buffer; on failure the exit label unlocks.*)
RequestSend(u, pc, t, next) ==
    /\ upc[u] = pc
    /\ SendPacket(Retained(writeBuf, CallLen(t, uloc[u])))
    /\ IF SendRc = "SUCCESS"
       THEN /\ upc' = [upc EXCEPT ![u] = next]
            /\ UNCHANGED writeLock
       ELSE /\ upc' = [upc EXCEPT ![u] = "idle"]
            /\ writeLock' = None
    /\ UNCHANGED <<state, packetId, ackList, ackTail, ackCount, msgHandlers,
                   pingOutstanding, writeBuf, threadHandle, link, toClient,
                   uloc, bpc, bloc, brokerVars, heapVars, histVars>>

SubscribeSend(u) == RequestSend(u, "sub_send", "SUBSCRIBE", "sub_record")
UnsubscribeSend(u) ==
    RequestSend(u, "unsub_send", "UNSUBSCRIBE", "unsub_record")

(* mqtt_msg_handler_create, then mqtt_ack_list_record of SUBACK carrying  *)
(* it (sub_link links it).  The handler is installed only when the SUBACK *)
(* arrives.  If the handler cannot be allocated the call returns; if the  *)
(* record exists already or its ack handler cannot be allocated,          *)
(* mqtt_ack_list_record returns an error and the handler object is        *)
(* neither recorded nor freed.  Either error unlocks.                     *)
SubscribeRecord(u) ==
    LET id == uloc[u].id
        h == Handler(uloc[u].topic, hNext)
        x == AckRec("SUBACK", id, h,
                    Retained(writeBuf, CallLen("SUBSCRIBE", uloc[u])))
    IN
    /\ upc[u] = "sub_record"
    /\ \E mk \in Allocs("subscribe"), ak \in Allocs("subscribe") :
         /\ hNext' = IF mk THEN hNext + 1 ELSE hNext
         /\ IF mk /\ ak /\ ~NodeIsExist(ackList, "SUBACK", id)
            THEN /\ ackCount' = ackCount + 1
                 /\ uloc' = [uloc EXCEPT ![u].snap = ackTail, ![u].rec = x]
                 /\ upc' = [upc EXCEPT ![u] = "sub_link"]
                 /\ UNCHANGED writeLock
            ELSE /\ writeLock' = None
                 /\ upc' = [upc EXCEPT ![u] = "idle"]
                 /\ UNCHANGED <<ackCount, uloc>>
    /\ UNCHANGED <<state, packetId, ackList, ackTail, msgHandlers,
                   pingOutstanding, writeBuf, threadHandle, netVars, bpc, bloc,
                   brokerVars, freed, doubleFree, wildFree, histVars>>

SubscribeLink(u) == UserLink(u, "sub_link")

(* After the UNSUBSCRIBE went out: mqtt_get_msg_handler by topic; none    *)
(* installed is an error, else mqtt_ack_list_record of UNSUBACK carrying  *)
(* it (unsub_link links it).  An error unlocks.                            *)
UnsubscribeRecord(u) ==
    LET id == uloc[u].id
        h == GetMsgHandler(uloc[u].topic)
        x == AckRec("UNSUBACK", id, h,
                    Retained(writeBuf, CallLen("UNSUBSCRIBE", uloc[u])))
    IN
    /\ upc[u] = "unsub_record"
    /\ \E ok \in Allocs("unsubscribe") :
         IF h # None /\ ok /\ ~NodeIsExist(ackList, "UNSUBACK", id)
         THEN /\ ackCount' = ackCount + 1
              /\ uloc' = [uloc EXCEPT ![u].snap = ackTail, ![u].rec = x]
              /\ upc' = [upc EXCEPT ![u] = "unsub_link"]
              /\ UNCHANGED writeLock
         ELSE /\ writeLock' = None
              /\ upc' = [upc EXCEPT ![u] = "idle"]
              /\ UNCHANGED <<ackCount, uloc>>
    /\ UNCHANGED <<state, packetId, ackList, ackTail, msgHandlers,
                   pingOutstanding, writeBuf, threadHandle, userFrame>>

UnsubscribeLink(u) == UserLink(u, "unsub_link")

(* mqtt_disconnect: no state check; DISCONNECT is sent under the lock,    *)
(* then, after the unlock, the state becomes CLEAN_SESSION.                *)
Disconnect(u) ==
    /\ StartCall(u, "disc_state", uloc[u])
    /\ writeLock = None
    /\ writeBuf' = Bare("DISCONNECT")
    /\ SendPacket(Bare("DISCONNECT"))
    /\ UNCHANGED <<state, packetId, ackList, ackTail, ackCount, msgHandlers,
                   pingOutstanding, writeLock, threadHandle, link, toClient,
                   bpc, bloc, brokerVars, heapVars, drops, expiries,
                   brokerQos2Deliveries, appQos2Deliveries>>

DisconnectSetState(u) ==
    /\ upc[u] = "disc_state"
    /\ state' = "CLEAN_SESSION"
    /\ upc' = [upc EXCEPT ![u] = "idle"]
    /\ UNCHANGED <<packetId, ackList, ackTail, ackCount, msgHandlers, pingOutstanding,
                   writeLock, writeBuf, threadHandle, uloc, userFrame>>

(* mqtt_release: waits for INVALID until the command timeout.  On success *)
(* the client is zeroed (memset), which reads as INITIALIZED, and the     *)
(* application is done with it; on timeout it returns an error.          *)
Release(u) ==
    /\ StartCall(u, IF state = "INVALID" THEN "done" ELSE "idle", uloc[u])
    /\ IF state = "INVALID"
       THEN /\ state' = "INITIALIZED"
            /\ packetId' = 0
            /\ pingOutstanding' = 0
            /\ threadHandle' = FALSE
            /\ UNCHANGED <<ackList, ackTail, ackCount, msgHandlers, writeLock, writeBuf>>
       ELSE UNCHANGED clientVars
    /\ UNCHANGED <<netVars, bpc, bloc, brokerVars, heapVars, drops, expiries,
                   brokerQos2Deliveries, appQos2Deliveries>>

-----------------------------------------------------------------------------
(* The background thread: mqtt_yield_thread looping over mqtt_yield.      *)
(* bpc names the point it has reached; bloc holds its locals.             *)

bgFrame == <<upc, uloc, brokerVars, histVars>>

BgGoto(pc) == bpc' = pc /\ UNCHANGED bloc

(* mqtt_yield_thread entry: not CONNECTED stops (suspends) the thread.    *)
BgStart ==
    /\ bpc = "start"
    /\ BgGoto(IF state = "CONNECTED" THEN "top" ELSE "stopped")
    /\ UNCHANGED <<clientVars, netVars, heapVars, bgFrame>>

(* The head of the mqtt_yield loop reads the state once and acts on it.   *)
BgTop ==
    /\ bpc = "top"
    /\ BgGoto(CASE state = "CLEAN_SESSION" -> "cleanup"
                [] state = "CONNECTED"     -> "read"
                [] OTHER                   -> "reconnect")
    /\ UNCHANGED <<clientVars, netVars, heapVars, bgFrame>>

(* MQTT_CLEAN_SESSION_ERROR: network_disconnect, mqtt_clean_session (no   *)
(* lock taken), then the thread frees its handle object and returns.  The *)
(* field c->mqtt_thread keeps pointing at it.                              *)
BgCleanup ==
    LET hs == {ackList[k].handler : k \in 1..Len(ackList)} \ {None}
    IN
    /\ bpc = "cleanup"
    /\ ReleaseLink
    /\ ackList' = << >>
    /\ ackTail' = None
    /\ ackCount' = 0
    /\ msgHandlers' = {}
    /\ freed' = freed \cup hs \cup msgHandlers
    /\ doubleFree' = (doubleFree \/ hs \cap freed # {})
    /\ state' = "INVALID"
    /\ BgGoto("exited")
    /\ UNCHANGED <<packetId, pingOutstanding, writeLock, writeBuf,
                   threadHandle, hNext, wildFree, bgFrame>>

(* mqtt_try_reconnect / mqtt_try_do_reconnect: mqtt_connect unless the   *)
(* state is CONNECTED by now; success goes on to resubscribe.             *)
BgReconnect ==
    /\ bpc = "reconnect"
    /\ \/ /\ state = "CONNECTED"
          /\ BgGoto("top")
          /\ UNCHANGED <<clientVars, netVars, brokerVars>>
       \/ ConnectNetFail /\ BgGoto("top")
       \/ ConnectRefused /\ BgGoto("top")
       \/ /\ ConnectOk
          /\ bpc' = "resub"
          /\ bloc' = [bloc EXCEPT !.todo = msgHandlers]
    /\ UNCHANGED <<heapVars, upc, uloc, histVars>>

(* mqtt_try_resubscribe: one whole mqtt_subscribe per installed handler, *)
(* holding the write lock; then mqtt_ack_list_scan(c, 0).                 *)
BgResub ==
    /\ bpc = "resub"
    /\ bloc.todo # {}
    /\ \E h \in bloc.todo :
         LET id == NextPacketId(packetId)
             p == Pkt("SUBSCRIBE", id, 0, 0, h.topic)
         IN
         /\ bloc' = [bloc EXCEPT !.todo = @ \ {h}]
         /\ UNCHANGED bpc
         /\ IF state # "CONNECTED"
            THEN UNCHANGED <<clientVars, netVars, hNext>>
            ELSE /\ writeLock = None
                 /\ packetId' = id
                 /\ writeBuf' = p
                 /\ SendPacket(p)
                 /\ \E mk \in Allocs("subscribe"), ak \in Allocs("subscribe") :
                    IF CanSend /\ mk
                    THEN /\ hNext' = hNext + 1
                         /\ IF ak /\ ~NodeIsExist(ackList, "SUBACK", id)
                            THEN RecordNow(AckRec("SUBACK", id,
                                                  Handler(h.topic, hNext), p))
                            ELSE UNCHANGED <<ackList, ackTail, ackCount>>
                    ELSE UNCHANGED <<ackList, ackTail, ackCount, hNext>>
                 /\ UNCHANGED <<state, msgHandlers, pingOutstanding, writeLock,
                                threadHandle, link, toClient>>
    /\ UNCHANGED <<freed, doubleFree, wildFree, bgFrame>>

BgResubDone ==
    /\ bpc = "resub"
    /\ bloc.todo = {}
    /\ bpc' = "scan"
    /\ bloc' = [bloc EXCEPT !.mode = 0]
    /\ UNCHANGED <<clientVars, netVars, heapVars, bgFrame>>

(* mqtt_ack_list_scan(c, mode).  Mode 0 takes every record, mode 1 those  *)
(* whose timer expired (any subset).  PUBACK/PUBREC/PUBREL/PUBCOMP records *)
(* are resent from their retained bytes under the write lock; SUBACK and  *)
(* UNSUBACK records are removed and their handler objects destroyed.      *)
Resends(sel) == SelectSeq(ackList, LAMBDA r : r \in sel /\ r.type \in PubTypes)
Drops(sel) == {r \in sel : r.type \notin PubTypes}

ScanRecords(sel) ==
    LET rs == Resends(sel)
        ds == Drops(sel)
        room == IF link THEN MaxChan - Len(toBroker) ELSE 0
        sent == SubSeq(rs, 1, IF Len(rs) < room THEN Len(rs) ELSE room)
        hs == {r.handler : r \in ds} \ {None}
    IN
    /\ rs # << >> => writeLock = None
    /\ writeBuf' = IF rs = << >> THEN writeBuf ELSE Last(rs).payload
    /\ toBroker' = toBroker \o [k \in 1..Len(sent) |-> sent[k].payload]
    /\ DelRecords(ackList, SelectSeq(ackList, LAMBDA r : r \notin ds))
    /\ ackCount' = SubtractAckHandlerNum(ackCount, Cardinality(ds))
    /\ Destroy(hs)
    /\ UNCHANGED <<state, packetId, pingOutstanding, writeLock, threadHandle,
                   link, toClient, hNext, wildFree>>

BgScanWith(sel) ==
    /\ bpc = "scan"
    /\ BgGoto("top")
    /\ IF ackList = << >> \/ state # "CONNECTED"
       THEN UNCHANGED <<clientVars, netVars, heapVars>>
       ELSE /\ bloc.mode = 0 => sel = ToSet(ackList)
            /\ ScanRecords(sel)
    /\ UNCHANGED bgFrame

(* mqtt_ack_list_scan with the records whose deadline has expired.       *)
BgScan == \E sel \in SUBSET ToSet(ackList) : BgScanWith(sel)

(* mqtt_packet_handle / mqtt_read_packet: a read that times out with      *)
(* nothing, or the next packet on the stream.  Every handler first checks *)
(* mqtt_is_connected; a handler that returns still runs mqtt_keep_alive.  *)
ReadNothing ==
    /\ bpc = "read"
    /\ BgGoto("keepalive")
    /\ UNCHANGED <<clientVars, netVars, heapVars, bgFrame>>

Recv(types) ==
    /\ bpc = "read"
    /\ toClient # << >>
    /\ Head(toClient).type \in types
    /\ toClient' = Tail(toClient)
    /\ UNCHANGED <<link, toBroker>>

Matches(t, i) == Len(ackList) - Len(Unrecord(ackList, t, i))

(* Remove every record of (t, i), one counter decrement per record.       *)
UnrecordAll(t, i) ==
    /\ DelRecords(ackList, Unrecord(ackList, t, i))
    /\ ackCount' = SubtractAckHandlerNum(ackCount, Matches(t, i))

(* Mutant: a PUBCOMP is read but its record is not removed.              *)
HandlePubackPubcompKeepPubcomp ==
    LET p == Head(toClient)
    IN
    /\ Recv({"PUBACK", "PUBCOMP"})
    /\ BgGoto("keepalive")
    /\ IF state = "CONNECTED" /\ p.type = "PUBACK"
       THEN UnrecordAll(p.type, p.id)
       ELSE UNCHANGED <<ackList, ackTail, ackCount>>
    /\ UNCHANGED <<state, packetId, msgHandlers, pingOutstanding, writeLock,
                   writeBuf, threadHandle, heapVars, bgFrame>>

(* mqtt_puback_and_pubcomp_packet_handle: unrecord, no lock taken.        *)
HandlePubackPubcomp ==
    LET p == Head(toClient)
    IN
    /\ Recv({"PUBACK", "PUBCOMP"})
    /\ BgGoto("keepalive")
    /\ IF state = "CONNECTED"
       THEN UnrecordAll(p.type, p.id)
       ELSE UNCHANGED <<ackList, ackTail, ackCount>>
    /\ UNCHANGED <<state, packetId, msgHandlers, pingOutstanding, writeLock,
                   writeBuf, threadHandle, heapVars, bgFrame>>

(* Mutant: the SUBACK's granted QoS is not compared with SUBFAIL.        *)
HandleSubackNoNack ==
    LET p == Head(toClient)
        h == UnrecordHandler(ackList, "SUBACK", p.id, None)
    IN
    /\ Recv({"SUBACK"})
    /\ BgGoto("keepalive")
    /\ IF state = "CONNECTED"
       THEN /\ UnrecordAll("SUBACK", p.id)
            /\ CASE h = None -> UNCHANGED <<msgHandlers, freed, doubleFree>>
                 [] MsgHandlerIsExist(h.topic) -> Destroy({h})
                 [] OTHER -> /\ msgHandlers' = msgHandlers \cup {h}
                             /\ UNCHANGED <<freed, doubleFree>>
       ELSE UNCHANGED <<ackList, ackTail, ackCount, msgHandlers, freed, doubleFree>>
    /\ UNCHANGED <<state, packetId, pingOutstanding, writeLock, writeBuf,
                   threadHandle, hNext, wildFree, bgFrame>>

(* mqtt_suback_packet_handle: unrecord, taking the record's handler; no  *)
(* record: error.  A refusal destroys it; else mqtt_msg_handlers_install, *)
(* which destroys it instead when the filter is already installed.        *)
HandleSuback ==
    LET p == Head(toClient)
        h == UnrecordHandler(ackList, "SUBACK", p.id, None)
    IN
    /\ Recv({"SUBACK"})
    /\ BgGoto("keepalive")
    /\ IF state = "CONNECTED"
       THEN /\ UnrecordAll("SUBACK", p.id)
            /\ CASE h = None -> UNCHANGED <<msgHandlers, freed, doubleFree>>
                 [] p.qos = SUBFAIL \/ MsgHandlerIsExist(h.topic) ->
                        Destroy({h})
                 [] OTHER -> /\ msgHandlers' = msgHandlers \cup {h}
                             /\ UNCHANGED <<freed, doubleFree>>
       ELSE UNCHANGED <<ackList, ackTail, ackCount, msgHandlers, freed, doubleFree>>
    /\ UNCHANGED <<state, packetId, pingOutstanding, writeLock, writeBuf,
                   threadHandle, hNext, wildFree, bgFrame>>

(* mqtt_unsuback_packet_handle: msg_handler is not initialised, and       *)
(* unrecord sets it only when a record matches.  Without one it holds     *)
(* whatever the stack held: NULL (error return) or a stale pointer, which  *)
(* is then destroyed.                                                      *)
HandleUnsuback ==
    LET p == Head(toClient)
        h == UnrecordHandler(ackList, "UNSUBACK", p.id, None)
    IN
    /\ Recv({"UNSUBACK"})
    /\ BgGoto("keepalive")
    /\ IF state = "CONNECTED"
       THEN /\ UnrecordAll("UNSUBACK", p.id)
            /\ IF h = None
               THEN /\ \E garbage \in BOOLEAN : wildFree' = (wildFree \/ garbage)
                    /\ UNCHANGED <<msgHandlers, freed, doubleFree>>
               ELSE Destroy({h}) /\ UNCHANGED wildFree
       ELSE UNCHANGED <<ackList, ackTail, ackCount, msgHandlers, freed, doubleFree,
                        wildFree>>
    /\ UNCHANGED <<state, packetId, pingOutstanding, writeLock, writeBuf,
                   threadHandle, hNext, bgFrame>>

(* mqtt_publish_packet_handle: QoS 0 is delivered at once; QoS 1 and 2   *)
(* send their acknowledgement first.                                      *)
HandlePublish ==
    LET p == Head(toClient)
    IN
    /\ Recv({"PUBLISH"})
    /\ IF state = "CONNECTED" /\ p.qos # 0
       THEN /\ bpc' = "pub_ack"
            /\ bloc' = [bloc EXCEPT !.pkt = p]
       ELSE BgGoto("keepalive")
    /\ UNCHANGED <<clientVars, heapVars, bgFrame>>

(* mqtt_pubrec_and_pubrel_packet_handle                                    *)
HandlePubrecPubrel ==
    LET p == Head(toClient)
    IN
    /\ Recv({"PUBREC", "PUBREL"})
    /\ IF state = "CONNECTED"
       THEN /\ bpc' = "ack_reply"
            /\ bloc' = [bloc EXCEPT !.pkt = p]
       ELSE BgGoto("keepalive")
    /\ UNCHANGED <<clientVars, heapVars, bgFrame>>

(* PINGRESP: mqtt_ping_outstanding = 0, without a state check.            *)
HandlePingresp ==
    /\ Recv({"PINGRESP"})
    /\ BgGoto("keepalive")
    /\ pingOutstanding' = 0
    /\ UNCHANGED <<state, packetId, ackList, ackTail, ackCount, msgHandlers, writeLock,
                   writeBuf, threadHandle, heapVars, bgFrame>>

(* The PUBACK/PUBREC reply, serialized and sent under the write lock.  A  *)
(* failed send returns; QoS 1 is then delivered; QoS 2 goes on to record  *)
(* PUBREL after the lock is released.                                      *)
BgPubAck ==
    LET p == bloc.pkt
        a == AckPkt(IF p.qos = 1 THEN "PUBACK" ELSE "PUBREC", p.id)
    IN
    /\ bpc = "pub_ack"
    /\ writeLock = None
    /\ writeBuf' = a
    /\ SendPacket(a)
    /\ bpc' = IF CanSend /\ p.qos = 2 THEN "pub_rel_record" ELSE "keepalive"
    /\ UNCHANGED <<state, packetId, ackList, ackTail, ackCount, msgHandlers,
                   pingOutstanding, writeLock, threadHandle, link, toClient,
                   bloc, heapVars, bgFrame>>

Deliver(m) == appQos2Deliveries' = [appQos2Deliveries EXCEPT ![m] = Sat(@)]

bgRecFrame == <<state, packetId, ackList, ackTail, msgHandlers,
                pingOutstanding, writeLock, writeBuf, threadHandle, netVars,
                heapVars, upc, uloc, brokerVars, drops, expiries, calls,
                brokerQos2Deliveries>>

(* mqtt_ack_list_record(c, PUBREL, msg.id, len), outside the lock: len is *)
(* the 4 bytes of the PUBREC serialized before, copied from the buffer as *)
(* it is now.  A record that exists returns MQTT_ACK_NODE_IS_EXIST_ERROR  *)
(* and nothing is delivered; one that cannot be allocated returns another *)
(* error and the message is delivered; else it is counted and head->prev  *)
(* read (pub_rel_link).                                                    *)
BgPubRelRecord ==
    LET p == bloc.pkt
        x == AckRec("PUBREL", p.id, None,
                    Retained(writeBuf, PktLen(AckPkt("PUBREC", p.id))))
    IN
    /\ bpc = "pub_rel_record"
    /\ \E ok \in Allocs("pubrel") :
         CASE NodeIsExist(ackList, "PUBREL", p.id) ->
                BgGoto("keepalive") /\ UNCHANGED <<ackCount, appQos2Deliveries>>
           [] ~ok ->
                BgGoto("keepalive") /\ Deliver(p.msg) /\ UNCHANGED ackCount
           [] OTHER ->
                /\ ackCount' = ackCount + 1
                /\ bpc' = "pub_rel_link"
                /\ bloc' = [bloc EXCEPT !.snap = ackTail, !.rec = x]
                /\ UNCHANGED appQos2Deliveries
    /\ UNCHANGED bgRecFrame

(* The stores of that add_tail, then mqtt_deliver_message.                 *)
BgPubRelLink ==
    /\ bpc = "pub_rel_link"
    /\ ackList' = LinkAfter(ackList, bloc.snap, bloc.rec)
    /\ ackTail' \in TailAfterLink(ackList, bloc.snap, bloc.rec)
    /\ Deliver(bloc.pkt.msg)
    /\ bpc' = "keepalive"
    /\ bloc' = [bloc EXCEPT !.snap = None, !.rec = None]
    /\ UNCHANGED <<state, packetId, ackCount, msgHandlers, pingOutstanding,
                   writeLock, writeBuf, threadHandle, netVars, heapVars, upc,
                   uloc, brokerVars, drops, expiries, calls,
                   brokerQos2Deliveries>>

(* mqtt_publish_ack_packet, under the write lock: for PUBREC, serialize   *)
(* PUBREL and record PUBCOMP with its 4 bytes (a record that exists or    *)
(* cannot be allocated skips the send); for PUBREL, serialize and send    *)
(* PUBCOMP.  The unrecord follows after the unlock (ack_unrecord).        *)
BgAckReplyWith(ok) ==
    LET p == bloc.pkt
        a == AckPkt(IF p.type = "PUBREC" THEN "PUBREL" ELSE "PUBCOMP", p.id)
        rec == p.type = "PUBREC" /\ ok /\ ~NodeIsExist(ackList, "PUBCOMP", p.id)
    IN
    /\ bpc = "ack_reply"
    /\ writeLock = None
    /\ BgGoto("ack_unrecord")
    /\ writeBuf' = a
    /\ IF p.type = "PUBREL" \/ rec THEN SendPacket(a) ELSE UNCHANGED toBroker
    /\ IF rec THEN RecordNow(AckRec("PUBCOMP", p.id, None, a))
       ELSE UNCHANGED <<ackList, ackTail, ackCount>>
    /\ UNCHANGED <<state, packetId, msgHandlers, pingOutstanding, writeLock,
                   threadHandle, link, toClient, heapVars, bgFrame>>

BgAckReply == \E ok \in Allocs("pubcomp") : BgAckReplyWith(ok)

(* Mutant: the PUBREC record is left in place after PUBREL is sent.       *)
BgAckUnrecordKeepPubrec ==
    /\ bpc = "ack_unrecord"
    /\ BgGoto("keepalive")
    /\ IF bloc.pkt.type = "PUBREC" THEN UNCHANGED <<ackList, ackTail, ackCount>>
       ELSE UnrecordAll(bloc.pkt.type, bloc.pkt.id)
    /\ UNCHANGED <<state, packetId, msgHandlers, pingOutstanding, writeLock,
                   writeBuf, threadHandle, netVars, heapVars, bgFrame>>

(* mqtt_ack_list_unrecord(c, packet_type, packet_id), no lock taken.      *)
BgAckUnrecord ==
    /\ bpc = "ack_unrecord"
    /\ BgGoto("keepalive")
    /\ UnrecordAll(bloc.pkt.type, bloc.pkt.id)
    /\ UNCHANGED <<state, packetId, msgHandlers, pingOutstanding, writeLock,
                   writeBuf, threadHandle, netVars, heapVars, bgFrame>>

(* mqtt_keep_alive.  Either deadline may have expired (MaxExpiries bounds *)
(* how often; on a dead link nothing refreshes the deadline of           *)
(* mqtt_last_received, and with DeadLinkExpires the bound is lifted       *)
(* there, as a liveness check needs).  A ping still                       *)
(* outstanding releases the transport and sets                            *)
(* DISCONNECTED; otherwise PINGREQ is serialized into the write buffer    *)
(* without taking the write lock.  Success goes on to scan(1).            *)
BgKeepAlive ==
    /\ bpc = "keepalive"
    /\ \/ /\ state # "CONNECTED"
          /\ BgGoto("top")
          /\ UNCHANGED <<clientVars, netVars, expiries>>
       \/ /\ state = "CONNECTED"
          /\ bpc' = "scan"
          /\ bloc' = [bloc EXCEPT !.mode = 1]
          /\ UNCHANGED <<clientVars, netVars, expiries>>
       \/ /\ state = "CONNECTED"
          /\ expiries < MaxExpiries \/ (DeadLinkExpires /\ ~link)
          /\ expiries' = IF link \/ ~DeadLinkExpires THEN expiries + 1
                          ELSE expiries
          /\ IF pingOutstanding # 0
             THEN /\ ReleaseLink
                  /\ state' = "DISCONNECTED"
                  /\ BgGoto("top")
                  /\ UNCHANGED writeBuf
             ELSE /\ writeBuf' = Bare("PINGREQ")
                  /\ BgGoto("ka_send")
                  /\ UNCHANGED <<state, netVars>>
          /\ UNCHANGED <<packetId, ackList, ackTail, ackCount, msgHandlers,
                         pingOutstanding, writeLock, threadHandle>>
    /\ UNCHANGED <<heapVars, upc, uloc, brokerVars, drops, calls,
                   brokerQos2Deliveries, appQos2Deliveries>>

(* mqtt_send_packet of the 2 bytes of PINGREQ, read from the write buffer *)
(* as it is now, then the 2-bit mqtt_ping_outstanding++ whatever the send *)
(* returned.                                                               *)
BgKaSend ==
    /\ bpc = "ka_send"
    /\ SendPacket(Retained(writeBuf, PktLen(Bare("PINGREQ"))))
    /\ pingOutstanding' = (pingOutstanding + 1) % 4
    /\ IF CanSend
       THEN /\ bpc' = "scan" /\ bloc' = [bloc EXCEPT !.mode = 1]
       ELSE BgGoto("top")
    /\ UNCHANGED <<state, packetId, ackList, ackTail, ackCount, msgHandlers, writeLock,
                   writeBuf, threadHandle, link, toClient, heapVars, bgFrame>>

-----------------------------------------------------------------------------
(* The broker: an MQTT 3.1.1 server for this one client.  It reads the    *)
(* client's stream in order and answers on the other stream, which must   *)
(* have room (TCP back-pressure).                                          *)

brokerFrame == <<clientVars, upc, uloc, bpc, bloc, heapVars, drops, expiries,
                 calls, appQos2Deliveries>>

Reply(p) == toClient' = Append(toClient, p)

BrokerRecv ==
    LET p == Head(toBroker)
        flow(q, st) == {x \in bOut : x.id = p.id /\ x.qos = q /\ x.stage = st}
    IN
    /\ toBroker # << >>
    /\ Len(toClient) < MaxChan
    /\ toBroker' = IF p.type \in {"DISCONNECT", "GARBLED"} THEN << >>
                   ELSE Tail(toBroker)
    /\ CASE p.type = "PUBLISH" /\ p.qos = 2 ->
              /\ brokerQos2Deliveries' =
                   IF p.id \in bInQos2 THEN brokerQos2Deliveries
                   ELSE [brokerQos2Deliveries EXCEPT ![p.msg] = Sat(@)]
              /\ bInQos2' = bInQos2 \cup {p.id}
              /\ Reply(AckPkt("PUBREC", p.id))
              /\ UNCHANGED <<link, bSubs, bGranted, bOut, bDone>>
         [] p.type = "PUBLISH" ->
              /\ IF p.qos = 1 THEN Reply(AckPkt("PUBACK", p.id))
                 ELSE UNCHANGED toClient
              /\ UNCHANGED <<link, bSubs, bGranted, bInQos2, bOut, bDone,
                             brokerQos2Deliveries>>
         [] p.type = "PUBREL" ->
              /\ bInQos2' = bInQos2 \ {p.id}
              /\ Reply(AckPkt("PUBCOMP", p.id))
              /\ UNCHANGED <<link, bSubs, bGranted, bOut, bDone,
                             brokerQos2Deliveries>>
         [] p.type = "SUBSCRIBE" ->
              /\ \/ /\ bSubs' = bSubs \cup {p.topic}
                    /\ bGranted' = bGranted \cup {p.topic}
                    /\ Reply(Pkt("SUBACK", p.id, 0, 0, None))
                 \/ /\ Reply(Pkt("SUBACK", p.id, SUBFAIL, 0, None))
                    /\ UNCHANGED <<bSubs, bGranted>>
              /\ UNCHANGED <<link, bInQos2, bOut, bDone, brokerQos2Deliveries>>
         [] p.type = "UNSUBSCRIBE" ->
              /\ bSubs' = bSubs \ {p.topic}
              /\ Reply(AckPkt("UNSUBACK", p.id))
              /\ UNCHANGED <<link, bGranted, bInQos2, bOut, bDone,
                             brokerQos2Deliveries>>
         [] p.type = "PINGREQ" ->
              /\ Reply(Bare("PINGRESP"))
              /\ UNCHANGED <<link, bSubs, bGranted, bInQos2, bOut, bDone,
                             brokerQos2Deliveries>>
         [] p.type \in {"DISCONNECT", "GARBLED"} ->  \* 4.8: close on a malformed packet
              /\ link' = FALSE
              /\ toClient' = << >>
              /\ UNCHANGED <<bSubs, bGranted, bInQos2, bOut, bDone,
                             brokerQos2Deliveries>>
         [] p.type = "PUBREC" ->    \* a duplicate in stage "rel" is ignored
              /\ bOut' = {IF x \in flow(2, "pub") THEN [x EXCEPT !.stage = "rel"]
                          ELSE x : x \in bOut}
              /\ IF flow(2, "pub") # {} THEN Reply(AckPkt("PUBREL", p.id))
                 ELSE UNCHANGED toClient
              /\ UNCHANGED <<link, bSubs, bGranted, bInQos2, bDone,
                             brokerQos2Deliveries>>
         [] OTHER ->    \* PUBACK and PUBCOMP end the broker's own flows
              LET done == IF p.type = "PUBACK" THEN flow(1, "pub") ELSE flow(2, "rel")
              IN
              /\ bOut' = bOut \ done
              /\ bDone' = bDone \cup {[msg |-> x.msg, qos |-> x.qos] : x \in done}
              /\ UNCHANGED <<link, toClient, bSubs, bGranted, bInQos2,
                             brokerQos2Deliveries>>
    /\ bGarbled' = (bGarbled \/ p.type = "GARBLED")
    /\ UNCHANGED <<bMsgs, bResend, brokerFrame>>

(* The broker forwards a new message on a subscribed filter, using a      *)
(* packet id not in flight for QoS 1 and 2.                                *)
BrokerPublish ==
    /\ link
    /\ bMsgs < MaxBrokerMsgs
    /\ Len(toClient) < MaxChan
    /\ \E t \in bSubs, q \in BrokerQos, i \in Ids \ {x.id : x \in bOut} :
         LET m == bMsgs + 1
         IN
         /\ bMsgs' = m
         /\ Reply(Pkt("PUBLISH", IF q = 0 THEN 0 ELSE i, q, m, t))
         /\ bOut' = IF q = 0 THEN bOut
                    ELSE bOut \cup {[id |-> i, msg |-> m, qos |-> q, stage |-> "pub"]}
    /\ UNCHANGED <<link, toBroker, bSubs, bGranted, bInQos2, bDone, bResend,
                   bGarbled, brokerQos2Deliveries, brokerFrame>>

(* The re-send, on the resumed session, of a flow still unacknowledged:   *)
(* PUBLISH with DUP, or PUBREL.                                            *)
BrokerRetransmit ==
    /\ link
    /\ Len(toClient) < MaxChan
    /\ \E x \in bOut :
         /\ x.id \in bResend
         /\ bResend' = bResend \ {x.id}
         /\ Reply(IF x.stage = "pub"
                  THEN [Pkt("PUBLISH", x.id, x.qos, x.msg, None) EXCEPT !.dup = 1]
                  ELSE AckPkt("PUBREL", x.id))
    /\ UNCHANGED <<link, toBroker, bSubs, bGranted, bInQos2, bOut, bMsgs, bDone,
                   bGarbled, brokerQos2Deliveries, brokerFrame>>

(* The TCP connection breaks; whatever was in flight is lost.             *)
LinkDrop ==
    /\ link
    /\ drops < MaxDrops
    /\ drops' = drops + 1
    /\ ReleaseLink
    /\ UNCHANGED <<brokerVars, clientVars, upc, uloc, bpc, bloc, heapVars,
                   expiries, calls, brokerQos2Deliveries, appQos2Deliveries>>

-----------------------------------------------------------------------------
(* mqtt_lease / mqtt_init: an INITIALIZED client with packet id 1, empty  *)
(* tables and no thread; the broker holds no session for it.              *)
Init ==
    /\ state = "INITIALIZED"
    /\ packetId = 1
    /\ ackList = << >>
    /\ ackTail = None
    /\ ackCount = 0
    /\ msgHandlers = {}
    /\ pingOutstanding = 0
    /\ writeLock = None
    /\ writeBuf = Bare("NONE")
    /\ threadHandle = FALSE
    /\ link = FALSE
    /\ toBroker = << >>
    /\ toClient = << >>
    /\ upc = [u \in Users |-> "idle"]
    /\ uloc = [u \in Users |-> NoCall]
    /\ bpc = "none"
    /\ bloc = [mode |-> 0, pkt |-> Bare("NONE"), todo |-> {}, snap |-> None,
               rec |-> None]
    /\ bSubs = {} /\ bGranted = {} /\ bInQos2 = {} /\ bOut = {}
    /\ bMsgs = 0 /\ bDone = {} /\ bResend = {} /\ bGarbled = FALSE
    /\ hNext = 0 /\ freed = {} /\ doubleFree = FALSE /\ wildFree = FALSE
    /\ drops = 0 /\ expiries = 0 /\ calls = 0
    /\ brokerQos2Deliveries = [m \in UserMsgs |-> 0]
    /\ appQos2Deliveries = [m \in BrokerMsgs |-> 0]

UserNext(u) ==
    \/ UserConnect(u)
    \/ \E q \in UserQos : PublishStart(u, q)
    \/ PublishLock(u) \/ PublishSend(u) \/ PublishRecord(u) \/ PublishLink(u)
    \/ PublishFail(u)
    \/ \E t \in Topics : SubscribeStart(u, t) \/ UnsubscribeStart(u, t)
    \/ SubscribeLock(u) \/ SubscribeSend(u) \/ SubscribeRecord(u)
    \/ SubscribeLink(u)
    \/ UnsubscribeLock(u) \/ UnsubscribeSend(u) \/ UnsubscribeRecord(u)
    \/ UnsubscribeLink(u)
    \/ Disconnect(u) \/ DisconnectSetState(u)
    \/ Release(u)

BgNext ==
    \/ BgStart \/ BgTop \/ BgCleanup \/ BgReconnect \/ BgResub \/ BgResubDone
    \/ BgScan \/ ReadNothing \/ HandlePubackPubcomp \/ HandleSuback
    \/ HandleUnsuback \/ HandlePublish \/ HandlePubrecPubrel \/ HandlePingresp
    \/ BgPubAck \/ BgPubRelRecord \/ BgPubRelLink \/ BgAckReply
    \/ BgAckUnrecord \/ BgKeepAlive \/ BgKaSend

BrokerNext == BrokerRecv \/ BrokerPublish \/ BrokerRetransmit \/ LinkDrop

(* Nothing is left to run: the application threads are done or out of    *)
(* calls and no yield thread runs.                                         *)
Quiescent ==
    /\ bpc \in {"none", "exited", "stopped"}
    /\ \A u \in Users : upc[u] \in {"idle", "done"}
    /\ calls = MaxCalls \/ \A u \in Users : upc[u] = "done"
    /\ UNCHANGED vars

Next ==
    \/ \E u \in Users : UserNext(u)
    \/ BgNext
    \/ BrokerNext
    \/ Quiescent

Spec == Init /\ [][Next]_vars

(* The steps of an API call once it has started: a running thread goes on *)
(* until its call returns.  Starting a call is the application's choice.  *)
UserStep(u) ==
    \/ PublishLock(u) \/ PublishSend(u) \/ PublishRecord(u) \/ PublishLink(u)
    \/ PublishFail(u)
    \/ SubscribeLock(u) \/ SubscribeSend(u) \/ SubscribeRecord(u)
    \/ SubscribeLink(u)
    \/ UnsubscribeLock(u) \/ UnsubscribeSend(u) \/ UnsubscribeRecord(u)
    \/ UnsubscribeLink(u)
    \/ DisconnectSetState(u)

(* The handling of a packet that has arrived.                              *)
BgHandle ==
    \/ HandlePubackPubcomp \/ HandleSuback \/ HandleUnsuback \/ HandlePublish
    \/ HandlePubrecPubrel \/ HandlePingresp

(* A scan in which every record's deadline has expired.                   *)
BgScanExpired == BgScanWith(ToSet(ackList))

(* A keep-alive check on a dead link that finds a deadline expired.       *)
BgKeepAliveDead ==
    BgKeepAlive /\ ~link /\ state = "CONNECTED" /\ bpc' # "scan"

(* A reconnect that reaches the broker and is accepted.                   *)
BgReconnectOk == BgReconnect /\ bpc' = "resub"

(* Fairness: application threads finish the calls they started; the      *)
(* yield thread keeps running; a packet on a live connection is read by a *)
(* yield thread that reads again and again; every ACK deadline eventually *)
(* expires; the broker answers what it receives, and accepts one of the  *)
(* reconnects the yield thread keeps attempting; on a resumed session it  *)
(* re-sends the PUBLISH and PUBREL of each unfinished flow, as MQTT 3.1.1 *)
(* section 4.4 requires (and only then).  On a dead link no packet is read, so nothing    *)
(* refreshes mqtt_last_received and its deadline passes: a keep-alive     *)
(* check eventually finds it expired.  Link drops and new calls are not   *)
(* forced.                                                                 *)
FairSpec ==
    /\ Spec
    /\ \A u \in Users : WF_vars(UserStep(u))
    /\ WF_vars(BgNext)
    /\ SF_vars(BgHandle)
    /\ SF_vars(BgScanExpired)
    /\ SF_vars(BgReconnectOk)
    /\ SF_vars(BgKeepAliveDead)
    /\ SF_vars(BrokerRecv)
    /\ SF_vars(BrokerRetransmit)

-----------------------------------------------------------------------------
Packets == [type : {"NONE", "CONNECT", "PUBLISH", "PUBACK", "PUBREC", "PUBREL",
                    "PUBCOMP", "SUBSCRIBE", "SUBACK", "UNSUBSCRIBE", "UNSUBACK",
                    "PINGREQ", "PINGRESP", "DISCONNECT", "GARBLED"},
            id : 0..MAX_PACKET_ID, qos : {0, 1, 2, SUBFAIL}, dup : {0, 1},
            msg : 0..(MaxCalls + MaxBrokerMsgs), topic : Topics \cup {None}]

UPCs == {"idle", "done", "pub_lock", "pub_send", "pub_record", "pub_fail",
         "pub_link", "sub_lock", "sub_send", "sub_record", "sub_link",
         "unsub_lock", "unsub_send", "unsub_record", "unsub_link", "disc_state"}
BPCs == {"none", "start", "stopped", "top", "cleanup", "exited", "reconnect",
         "resub", "scan", "read", "pub_ack", "pub_rel_record", "pub_rel_link",
         "ack_reply", "ack_unrecord", "keepalive", "ka_send"}

(* Every variable holds a value of its type.                               *)
TypeOK ==
    /\ state \in States
    /\ packetId \in 0..MAX_PACKET_ID
    /\ \A k \in 1..Len(ackList) :
         /\ ackList[k].type \in PubTypes \cup {"SUBACK", "UNSUBACK"}
         /\ ackList[k].id \in Ids
         /\ ackList[k].payload \in Packets
    /\ ackTail = None \/ ackTail.type \in PubTypes \cup {"SUBACK", "UNSUBACK"}
    /\ ackCount \in Nat
    /\ \A h \in msgHandlers : h.topic \in Topics /\ h.hid \in 0..hNext
    /\ pingOutstanding \in 0..3
    /\ writeLock \in Users \cup {None}
    /\ writeBuf \in Packets
    /\ threadHandle \in BOOLEAN
    /\ link \in BOOLEAN
    /\ \A k \in 1..Len(toBroker) : toBroker[k] \in Packets
    /\ \A k \in 1..Len(toClient) : toClient[k] \in Packets
    /\ \A u \in Users : upc[u] \in UPCs
    /\ bpc \in BPCs
    /\ bSubs \subseteq Topics /\ bGranted \subseteq Topics
    /\ bInQos2 \subseteq Ids
    /\ bMsgs \in 0..MaxBrokerMsgs
    /\ doubleFree \in BOOLEAN /\ wildFree \in BOOLEAN
    /\ brokerQos2Deliveries \in [UserMsgs -> 0..2]
    /\ appQos2Deliveries \in [BrokerMsgs -> 0..2]

-----------------------------------------------------------------------------
(* mqtt_ack_handler_number counts the records of mqtt_ack_handler_list:   *)
(* every record, unrecord, scan removal and mqtt_clean_session keeps the  *)
(* counter, which publish compares with the bound, in step with the list  *)
(* (a record counted and not yet linked by its add_tail included).        *)
AckCountMatches ==
    LET linking == Cardinality({u \in Users :
                       upc[u] \in {"pub_link", "sub_link", "unsub_link"}})
                   + (IF bpc = "pub_rel_link" THEN 1 ELSE 0)
    IN  ackCount = Len(ackList) + linking

(* A QoS 2 message from the broker reaches the application at most once, *)
(* however the PUBLISH is retransmitted: mqtt_publish_packet_handle       *)
(* "only processes it when the qos2 message is received for the first     *)
(* time", that is when it creates the PUBREL record, and the record stays *)
(* in the table until the PUBREL comes.                                    *)
Qos2ReceivedAtMostOnce == \A m \in BrokerMsgs : appQos2Deliveries[m] <= 1

(* Every subscription the SUBACK handler installs is one the broker has   *)
(* granted: a refused SUBACK (0x80) destroys the pending handler.         *)
InstalledWasGranted == \A h \in msgHandlers : h.topic \in bGranted

(* The bytes a PUBACK or PUBREC record retains, and resends on timeout,   *)
(* are the PUBLISH that mqtt_publish serialized for that packet id.        *)
PublishRetainsItsMessage ==
    \A k \in 1..Len(ackList) :
        ackList[k].type \in {"PUBACK", "PUBREC"} =>
            /\ ackList[k].payload.type = "PUBLISH"
            /\ ackList[k].payload.id = ackList[k].id

(* Every packet the client writes to the stream is whole: the broker never *)
(* reads bytes that are no packet and closes the connection for them.  The *)
(* records, the PINGREQ and the publish all send a length of the shared   *)
(* write buffer that was serialized earlier, some of them without the     *)
(* write lock.                                                             *)
ClientSendsWholePackets == ~bGarbled

(* A QoS 2 message the application publishes is delivered by the broker  *)
(* at most once (MQTT 3.1.1 exactly-once), whatever the client resends.   *)
Qos2PublishedAtMostOnce == \A m \in UserMsgs : brokerQos2Deliveries[m] <= 1

(* After mqtt_disconnect sets CLEAN_SESSION, no step but the application's *)
(* own mqtt_connect leaves it for anything other than the INVALID that the *)
(* yield thread's mqtt_clean_session sets: the yield thread, whose loop    *)
(* head may have read the state before the disconnect, must not reconnect.*)
DisconnectIsFinal ==
    [][(state = "CLEAN_SESSION" /\ ~\E u \in Users : UserConnect(u))
         => state' \in {"CLEAN_SESSION", "INVALID"}]_vars

(* Every request the client records in the ACK table is eventually       *)
(* answered or reaped: once the application stops calling, the table of  *)
(* mqtt_ack_list_record empties and stays empty, through the answers of  *)
(* the broker, the resends and the reaping of mqtt_ack_list_scan.  A     *)
(* client left in CLEAN_SESSION is the subject of DisconnectReachesInvalid.*)
AckTableDrains == <>[](ackList = << >> \/ state = "CLEAN_SESSION")

(* A TCP link that dies under a CONNECTED client whose yield thread runs *)
(* is eventually noticed: mqtt_read_packet reports a failed read as       *)
(* MQTT_NOTHING_TO_READ_ERROR, like an idle link, so it is the keep-alive *)
(* (a PINGREQ whose send fails still counts as outstanding, and the next  *)
(* expiry gives up) that moves the client out of CONNECTED, towards a     *)
(* reconnect.  A client with no yield thread is ConnectedHasLoop's case.  *)
DeadLinkNoticed ==
    (state = "CONNECTED" /\ ~link /\ bpc \notin {"none", "exited", "stopped"})
        ~> state # "CONNECTED"

(* Spec 8 invariant 5: once mqtt_disconnect has set CLEAN_SESSION while a *)
(* yield thread has been spawned and has not exited, the thread's next   *)
(* loop head sees it, runs mqtt_clean_session and the state reaches      *)
(* INVALID.                                                                *)
DisconnectReachesInvalid ==
    state = "CLEAN_SESSION" /\ bpc \notin {"none", "exited"}
        ~> state = "INVALID"

(* The ACK table never holds more than MQTT_ACK_HANDLER_NUM_MAX records. *)
AckTableBounded == Len(ackList) <= ACK_HANDLER_NUM_MAX

(* No message handler object is destroyed twice (SUBACK/UNSUBACK         *)
(* handlers, scan timeouts and mqtt_clean_session all destroy them).      *)
NoDoubleFree == ~doubleFree

(* The UNSUBACK handler never destroys a pointer it did not read from a  *)
(* record.                                                                 *)
NoWildFree == ~wildFree

(* Every message handler object that mqtt_msg_handler_create allocated is *)
(* still reachable or was freed: it is installed in mqtt_msg_handler_list *)
(* or carried by a SUBACK/UNSUBACK record, so a SUBACK, UNSUBACK, scan or *)
(* mqtt_clean_session will free it.  mqtt_subscribe returns an error     *)
(* without freeing it when mqtt_ack_list_record fails.                    *)
NoHandlerLeak ==
    \A k \in 0..(hNext - 1) :
        \/ \E h \in freed \cup msgHandlers : h.hid = k
        \/ \E j \in 1..Len(ackList) : ackList[j].handler # None
                                    /\ ackList[j].handler.hid = k

(* Once mqtt_clean_session has set INVALID, both tables stay empty: no    *)
(* call that passed its state check earlier adds records afterwards.      *)
InvalidMeansEmpty ==
    state = "INVALID" => ackList = << >> /\ msgHandlers = {}

(* A CONNECTED client has a yield thread running to read its packets.    *)
ConnectedHasLoop ==
    state = "CONNECTED" => bpc \notin {"none", "exited", "stopped"}

(* A QoS 2 flow the broker completed (PUBCOMP received) was a message the *)
(* application received.                                                   *)
CompletedQos2WasDelivered ==
    \A d \in bDone : d.qos = 2 => appQos2Deliveries[d.msg] >= 1

=============================================================================
