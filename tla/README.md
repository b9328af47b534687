# TLA+ model of mqttclient

This directory holds TLA+ models of the MQTT 3.1.1 client library in `src/`.
TLC checks them. Every module is translated from the C source. `PROJECT.json`
maps each definition to the lines it models. It also lists the runs, the
mutants that show each property can fail, the findings and the hazards.

## 1. Inventory

### Components

| Component | Source | State it keeps | Operations that change state |
|---|---|---|---|
| Intrusive list | `src/common/mqtt_list.c` | `prev`/`next` links of a head-sentinel circular list | `mqtt_list_init`, `add`, `add_tail`, `del`, `del_init`, `move`, `move_tail` |
| Platform timer | `src/platform/FreeRTOS/platform_timer.c` | `timer->time`, a 32-bit deadline in ms derived from the tick counter | `platform_timer_init`, `cutdown`, `is_expired`, `remain`, `usleep` |
| Client session state | `mqttclient.c` 19-42, 1217-1362, 1535-1604 | `mqtt_client_state` (INVALID, INITIALIZED, CONNECTED, DISCONNECTED, CLEAN_SESSION), `mqtt_thread`, transport | `mqtt_connect` / `mqtt_connect_with_results`, `mqtt_disconnect`, `mqtt_release`, `mqtt_keep_alive` failure, publish resource failure |
| ACK table (in-flight) | `mqttclient.c` 64-97, 352-460, 571-602 | `mqtt_ack_handler_list` (type, packet id, subscription, retained bytes), `mqtt_ack_handler_number`, `mqtt_packet_id` | `mqtt_ack_list_record`, `mqtt_ack_list_unrecord`, `mqtt_ack_list_scan`, `mqtt_clean_session` |
| Subscription table | `mqttclient.c` 254-350, 463-524 | `mqtt_msg_handler_list` (topic filter, QoS, handler) | `mqtt_msg_handlers_install`, `mqtt_msg_handler_destory`, lookup by `mqtt_topic_is_matched` |
| Write buffer and send path | `mqttclient.c` 44-62, 214-252, 667-705 | `mqtt_write_buf`, `mqtt_last_sent` | serialize into the buffer, `mqtt_send_packet`, `mqtt_set_publish_dup` |
| Read path and framing | `mqttclient.c` 99-189, 1366-1386, 1474-1477 | `mqtt_read_buf`, `mqtt_last_received` | `mqtt_decode_packet`, `mqtt_read_packet`, `mqtt_packet_drain` |
| Packet dispatch | `mqttclient.c` 707-997 | the tables above, `mqtt_ping_outstanding` | one handler for each incoming packet type |
| Keep-alive | `mqttclient.c` 1489-1515 | `mqtt_ping_outstanding` (a 2-bit field), the two deadlines | `mqtt_keep_alive` |
| Background loop | `mqttclient.c` 604-665, 1050-1181 | the thread handle | `mqtt_yield`, `mqtt_try_reconnect`, `mqtt_try_resubscribe`, `mqtt_yield_thread` |
| Public API | `mqttclient.c` 1410-1899 | configuration fields, buffers | `mqtt_lease`, setters, `mqtt_subscribe`, `mqtt_unsubscribe`, `mqtt_publish`, `mqtt_set_will_options`, buffer resize |
| Example program | `src/example/baidu/baidu.c` | none of the library's | drives the API: connect, subscribe, then publish from a second thread |
| Wire codec | `src/mqtt/MQTTPacket.h` (declarations only) | none | out of scope (spec §1) |

### How the components interact

* Two kinds of threads share one `mqtt_client_t`. One background thread runs
  `mqtt_yield_thread`. It reads packets, dispatches them, runs keep-alive, scans
  the ACK table and reconnects. Any number of application threads call the
  public API. `baidu.c` uses a publisher thread alongside the main thread.
* `mqtt_write_lock` serializes API calls that write the write buffer. It is
  held by publish, subscribe, unsubscribe, disconnect, connect, the ACK resend
  and the PUBACK/PUBREC/PUBCOMP replies. The background thread touches shared
  state without it in four places:
  * it serializes and sends PINGREQ (`mqtt_keep_alive`, 1507-1509);
  * it copies the write buffer into a PUBREL record (826);
  * it runs `mqtt_ack_list_unrecord` for PUBACK, PUBCOMP, SUBACK and UNSUBACK;
  * it runs `mqtt_clean_session`.
* `mqtt_global_lock` guards only single assignments: the state, the ACK counter
  and the packet id. A value read under it is stale by the time it is used.
* The broker is the other end of a TCP stream. It delivers bytes in order and
  loses everything in flight when the connection drops.

### What is hard

* Interleavings of an API call between `mqtt_send_packet` and
  `mqtt_ack_list_record` with the background thread's unlocked handlers.
* The unlocked PINGREQ write into the shared write buffer.
* State read at the top of `mqtt_yield` and acted on later. A reconnect can
  overwrite the CLEAN_SESSION that `mqtt_disconnect` set.
* A connection that drops, then reconnects. After a reconnect the client
  resubscribes and runs `scan(0)`.
* Retransmission by deadline, and duplicate packets from the broker.
* The bound on the ACK table. Only publish checks it.
* Timer arithmetic on a 32-bit millisecond counter that wraps.

### Properties that make each component correct

* ACK table:
  * `mqtt_ack_handler_number` equals the length of the list;
  * no two records share a type and packet id;
  * the table holds at most `MQTT_ACK_HANDLER_NUM_MAX` records;
  * each record retains the bytes of the request it waits for.
* Reliability:
  * a QoS 2 message from the broker reaches the application at most once;
  * a QoS 2 message published by the client reaches the broker's subscribers
    at most once.
* Session:
  * after `mqtt_disconnect` the state moves only to INVALID;
  * INVALID means both tables are empty;
  * CONNECTED means a background thread is running.
* Dispatch never frees a pointer it did not read from a record.
* Subscription table: a filter is installed only after the broker granted it.
* Topic matcher: for filters without wildcards it agrees with string equality.
  It agrees with the MQTT 3.1.1 matching rules.
* Timer: a deadline set with timeout `t` expires after about `t` ms, including
  across counter wrap.

## 2. Plan

Modules, in the order they are written. The most important behaviour comes
first.

1. `MqttClient.tla`. The core, a composition of:
   * the session state machine;
   * the ACK table;
   * the subscription table;
   * the write buffer and its lock;
   * packet dispatch, keep-alive and the background loop;
   * the API calls connect, publish, subscribe, unsubscribe, disconnect and
     release;
   * a broker environment over two TCP channels that can drop.

   `MCMqttClient.tla` gives it model values and bounds. It is the subject of
   sitting 1.
2. `TopicMatch.tla` (done). A RECURSIVE translation of
   `mqtt_topic_is_matched` and `mqtt_is_topic_equals` over character
   sequences. They are checked against a reference definition of MQTT 3.1.1
   matching by levels, for all filters and topics up to a bounded length.
3. `PlatformTimer.tla` (done). `platform_uptime_ms`, `cutdown`,
   `is_expired`, `remain` and `usleep` over a tick counter of reduced width.
   Arithmetic is `% 2^w`. It checks that deadlines expire and that sleeps have
   the requested length.
4. `MqttAckTable.tla` (planned). The abstract specification of the
   in-flight table as a set of pending requests. `MqttClient` is shown to
   refine it through `INSTANCE ... WITH`.
5. `MqttList.tla` (done). The intrusive list as prev/next functions over a
   small node set. It refines the abstract sequence of `MqttListSpec.tla`.
6. Liveness runs on `MqttClient` (done: the ACK table drains, disconnect
   reaches INVALID, and a dead link is noticed; see Fairness below).
7. `MqttFraming.tla` (done). `mqtt_read_packet`, `mqtt_decode_packet` and
   `mqtt_packet_drain` byte by byte over a stream of encoded packets.

## 3. Modules, runs and results

### `MqttClient.tla`

One module composes the client, the application threads and the broker.

* **State.** `state` is `mqtt_client_state`. `packetId` and `ackCount` are
  `mqtt_packet_id` and `mqtt_ack_handler_number`. `ackList` is the ACK list as a
  sequence of records `[type, id, handler, pkt]`, where `pkt` is the packet the
  record retains for a resend. `msgHandlers` is the subscription table.
  `writeLock` and `writeBuf` are `mqtt_write_lock` and the last packet
  serialized into `mqtt_write_buf`. `pingOutstanding` is the 2-bit field.
  `threadHandle` is `mqtt_thread != NULL`.
* **Threads.** Each user in `Users` runs one API call at a time. `upc[u]` is
  the point the call has reached, and `uloc[u]` holds its locals. The
  background thread has `bpc` and `bloc`. The code's steps become separate
  actions wherever another thread can run between them: lock, serialize, send,
  unlock, record. Each action names the C lines it models in `PROJECT.json`.
* **Broker.** `toBroker` and `toClient` are ordered channels of at most
  `MaxChan` packets. `link` says whether the TCP connection is up. A
  `LinkDrop` empties both channels. The broker keeps its subscriptions and its
  QoS 1/2 flows. It clears them on a connect when `CleanSession` is TRUE. It
  re-sends its unfinished QoS 1/2 flows only when the client reconnects to a
  resumed session (`bResend`, MQTT 3.1.1 section 4.4), and publishes up to
  `MaxBrokerMsgs` messages. Bytes that are no packet (`GARBLED`) and
  DISCONNECT make it close the connection (section 4.8); `bGarbled` records
  the former.
* **Heap.** `hNext` numbers handler allocations. `freed` records freed
  handlers. `doubleFree` and `wildFree` flag a second free, or a free of an
  uninitialized pointer.
* **Abstractions.**
  * Timers are nondeterministic. A scan(1) processes any subset of records.
  * Keep-alive expiry is a free choice. While the link is up it is bounded
    by `MaxExpiries`. On a dead link nothing refreshes `mqtt_last_received`.
    With `DeadLinkExpires` (only in `MCDeadLink.cfg`), expiries there escape the
    bound (`BgKeepAliveDead`). The other cfgs keep the bound, so the state
    space of the base run stays the same.
  * Topics are model values, so matching is equality.
  * `mqtt_list_add_tail` is not atomic. `mqtt_ack_list_record` is two
    steps: the existence check, the allocation, the count and the read of
    head->prev (`ackTail`, kept in `uloc[u].snap` or `bloc.snap`); then the
    stores that link the node after it (`LinkAfter`, `TailAfterLink`). A
    node read as head->prev and unlinked in between leaves the new node,
    and every node added after it, unreachable from the head. Deletions are
    atomic (`DelRecords`), since the race needs only one of the two sides
    split. The reply of `mqtt_pubrec_and_pubrel_packet_handle` (848, under
    the write lock) and its unrecord (849, without it) are separate steps.
  * The bytes a send or a record copies are the first `len` bytes of the
    write buffer as it is then. `PktLen` is the length the serializer
    returned; when the buffer now holds a packet of another length, the
    copy is `GARBLED` (`Retained`).
  * `AllocFailSites` names the `*_create` calls whose `platform_memory_alloc`
    may return NULL. `Allocs(site)` is then a free choice, and each caller
    takes its error path: subscribe returns with its handler unrecorded;
    publish takes the exit-label branch for `MQTT_MEM_NOT_ENOUGH_ERROR`
    (release, DISCONNECTED); the PUBREL record still delivers; the PUBCOMP
    record skips the PUBREL send.
  * The source of `mqtt_yield` ends after its state switch. The model
    continues with keep-alive and scan(1) on success, and returns to the top on
    an error.

### Runs

| Run | cfg | Expect | What it shows |
|---|---|---|---|
| base | `MCMqttClient.cfg` | pass (1.0M states, about 40 s) | `TypeOK` and `InstalledWasGranted` hold with one user, packet-id wrap (`MAX_PACKET_ID` 2), a link drop, a keep-alive expiry, and allocation failures in subscribe, unsubscribe and publish |
| pingreq_race | `MCPingreqRace.cfg` | violation | the unlocked PINGREQ overwrites the start of the PUBLISH between send and record; the PUBACK record retains PINGREQ plus the PUBLISH's tail |
| stale_pubrel | `MCStalePubrel.cfg` | violation | the PUBREL record copies 4 bytes of an UNSUBSCRIBE serialized since the PUBREC; the scan resends them and the broker reads a cut-off packet (`ClientSendsWholePackets`) |
| lost_disconnect | `MCLostDisconnect.cfg` | violation | the yield thread reads DISCONNECTED at its loop head, `mqtt_disconnect` sets CLEAN_SESSION, and the thread's reconnect overwrites it (1070, 629-645) |
| lost_record | `MCLostRecord.cfg` | violation | a scan unlinks the SUBACK record that a PUBREC add has just read as head->prev; that node and the later PUBREL record are orphaned, and after a reconnect the broker's DUP PUBLISH is delivered twice (`Qos2ReceivedAtMostOnce`, 433) |
| double_free | `MCDoubleFree.cfg` | violation | two unsubscribes of one filter free the handler twice |
| persistent_session | `MCPersistentSession.cfg` | pass (38k states) | with a persistent session, QoS 2 publishes both ways and failing PUBCOMP records, a QoS 2 publish reaches the broker's subscribers at most once (`Qos2PublishedAtMostOnce`). Under `FairSpec` the ACK table eventually empties for good once the calls stop (`AckTableDrains`) |
| clean_pubrel_kept | `MCCleanPubrelKept.cfg` | violation | an old PUBREL record acknowledges a new broker message that reuses the id |
| disconnect_stuck | `MCDisconnectStuck.cfg` | violation | a disconnect before the new yield thread first runs leaves it suspended (1134-1140) and the state in CLEAN_SESSION forever (`DisconnectReachesInvalid`) |

Each violation is a finding in `PROJECT.json`. Each property of a passing run
has a mutant there: a plausible bug in one mapped definition, which TLC then
catches.

### Bounds

* One topic, and one or two users.
* `MAX_PACKET_ID` 2 or 3, so ids wrap and records can share an id.
* `ACK_HANDLER_NUM_MAX` 1 or 2.
* At most 2 to 4 API calls (`MaxCalls`), and 0 to 2 broker messages.
* At most one link drop, and one or two keep-alive expiries.
* Channels of 2 packets; 1 in the liveness run `MCPersistentSession.cfg`, which keeps its mutant runs within minutes.

Every violation above needs at most these bounds, and each is found within a
few minutes. Larger bounds multiply the interleavings without adding a new
kind of step.

### Fairness

The safety runs use `Spec` and assume nothing. The liveness runs use
`FairSpec`:

* weak fairness of each user's in-call steps (`UserStep`). A thread that has
  started an API call runs until the call returns; starting a call is never
  forced;
* weak fairness of the yield thread (`BgNext`). It is a `while (1)` loop that
  only blocks in reads with a timeout;
* strong fairness of packet handling (`BgHandle`). A packet is readable only
  while the thread is at its read, so the step is enabled only now and then;
* strong fairness of a scan in which every deadline has expired
  (`BgScanExpired`). The model's timers are a free choice, and real deadlines
  do pass;
* strong fairness of a successful reconnect (`BgReconnectOk`). The broker is
  assumed to accept one of the reconnects the thread keeps attempting;
* strong fairness of the broker reading what it receives (`BrokerRecv`) and
  re-sending an unfinished flow after a resumed-session connect
  (`BrokerRetransmit`). MQTT 3.1.1 section 4.4 requires that re-send, and
  only that one.

* strong fairness of a keep-alive expiry on a dead link while CONNECTED
  (`BgKeepAliveDead`). Nothing refreshes `mqtt_last_received` once the link is
  dead, so its deadline does pass.

Link drops, keep-alive expiries on a live link, and new calls are never forced.

The persistent_session run has no link drop and no keep-alive expiry. With a drop, a resend of a garbled record
(pingreq_race, stale_pubrel) closes the connection again at every reconnect,
and the list race of lost_record orphans records; those runs show these
failures. The run asks what remains: whether the client's own QoS 2 flows,
with the PUBCOMP record failing, finish and reach the broker once. A read on a dead connection returns
`MQTT_NOTHING_TO_READ_ERROR`, like a read that times out (162). The code
therefore notices a drop only when keep-alive finds a ping unanswered:
the first expiry sends a PINGREQ that fails, but still counts it (1507-1509),
and the next one disconnects. `DeadLinkNoticed` states this. It is checked
with one drop by `MCDeadLink.cfg` under Further checks below.

`AckTableDrains` holds with a persistent session. With a clean session it
fails (`MCAckLeak.cfg`): the broker forgets the old flow, but the client keeps its
PUBREL record and resends it forever. `DisconnectReachesInvalid` is stated
only while a yield thread exists. Without one, nothing could ever clean the
session.

### `TopicMatch.tla`

* **State.** `filter` is the filter of an installed handler, and `topic` is
  the topic name of an incoming PUBLISH. Both are strings over `Chars`, `/`,
  `+` and `#`.
* **Code.** `MatchLoop` is the `while` loop of `mqtt_topic_is_matched` as a
  RECURSIVE operator over the positions `curf` and `curn`, and `PlusEnd` is its
  inner `+` loop. `Result` is the return expression. `IsTopicEquals` is
  `mqtt_is_topic_equals`. `GetMsgHandler` is the first match of
  `mqtt_get_msg_handler`.
* **Reference.** `MqttMatch` splits both strings into levels and applies the
  MQTT 3.1.1 rules.
* **Actions.** `Subscribe` installs any valid filter, and `Receive` takes any
  topic name. Every pair is therefore a state.

| Run | cfg | Expect | What it shows |
|---|---|---|---|
| topic_match | `MCTopicMatch.cfg` | pass (21k states) | the loop agrees with equality for wildcard-free filters, and never matches what MQTT does not |

Bound: two ordinary characters, and strings up to 4 characters. That covers
two-level filters with both wildcards and empty levels.

### `PlatformTimer.tla`

* **State.** `tick` is `xTaskGetTickCount()` on `W` bits. `time` is
  `timer->time`. `armed`, `since` and `slept` record the last timeout, the
  real time since it was set, and the last sleep, for the properties.
* **Actions.** `Tick` is the tick interrupt. `Cutdown` is
  `platform_timer_init` plus `platform_timer_cutdown`. `SleepMs` is
  `mqtt_sleep_ms`, through `platform_timer_usleep`. `UptimeMs`, `IsExpired`
  and `Remain` translate the C expressions, each sum or product taken
  `% 2^W`.

| Run | cfg | Expect | What it shows |
|---|---|---|---|

No run of the twelve checks the timer; its cfgs are under Further
violations. `ExpiredOnceReached` (a deadline is reported expired once its
timeout has passed, before the uptime wraps) and `NeverExpiredEarly` (a
deadline is not reported expired before its timeout) are both violated:
the sum `now + timeout` is stored `% 2^W`, so a deadline set near the top
of the counter wraps to a small value and expires at once, and
`is_expired` compares with `>`, so a deadline reached exactly is not yet
expired.

Bounds: `W` is 6 for wrap and 12 for the tick-rate overflow. Timeouts of 0, 3
and 20 put deadlines on both sides of the wrap.

### `MqttList.tla` and `MqttListSpec.tla`

* **Abstract spec.** `MqttListSpec` is what the list promises: `list` is a
  sequence of distinct entries. `PushFront`, `PushBack`, `Unlink`,
  `UnlinkReset`, `ToFront` and `ToBack` change it. `RemoveAll(c, S)` takes the
  entries of `S` out in one pass. `Reset` (init) leaves it alone. The history
  variable `op` names the call of each step, so a step must be explained by
  the abstract operation of the same call, not by any operation that happens to
  give the same sequence.
* **State.** `next` and `prev` are the two fields of `mqtt_list_t` for the
  head `ListHead` and the entries `Nodes`. Entry fields that were never
  written hold `Garbage`: `platform_memory_alloc` does not zero them.
* **Code.** Each function of `mqtt_list.c` is an operator from memory
  `[next, prev]` to memory. It makes its stores as sequential `EXCEPT`s in the
  order of the C. `LinkAdd` is `_mqtt_list_add`. On an empty list `prev` and
  `next` are both the head, and on a one-entry list they alias, so only the
  code's store order gives the right ring. `Walk` is `LIST_FOR_EACH` from the
  head. `DelEachFrom` is `LIST_FOR_EACH_SAFE`, which reads the successor
  before the body unlinks the entry. It serves the unrecord and scan loops.
  `ListClean` is the branch of `mqtt_clean_session` for one list: the loop,
  then `mqtt_list_del_init` of the head.
* **Callers' contract.** An entry is added only while it is not linked. It is
  deleted or moved only while it is linked or only initialised. This is how
  `mqttclient.c` uses the list. `StaleDel` allows the one exception the client
  can produce, a second delete.
* **Refinement.** `Abs == INSTANCE MqttListSpec WITH list <- Walk(Mem)` maps
  the ring to the sequence met walking `next` from the head. The history
  variable `op` maps to itself.

| Run | cfg | Expect | What it shows |
|---|---|---|---|
| list_refinement | `MCMqttList.cfg` | pass (4.9k states) | `RingWellFormed`: `prev` mirrors `next` around the ring. `ListRefinesSpec`: every step implements the abstract call it makes |

Bound: three entries. That is enough for an entry between two others, a
move of the middle entry, and a loop that deletes a first, middle or last
entry. Symmetry is not used, because `Walk` depends on the order of the
entries.

### `MqttListReader.tla`

It extends `MqttList` with a second thread on `mqtt_msg_handler_list`. An
application thread walks the list with `LIST_FOR_EACH_SAFE`, as
`mqtt_get_msg_handler` (called by `mqtt_unsubscribe`) and
`mqtt_list_subscribe_topic` (called by the example's publisher thread) do.
Meanwhile the yield thread creates (`Create`), installs (`Install`) and
destroys (`Destroy`: `mqtt_list_del`, then free) handler objects. `live` is
the set of allocated objects. `rcur` and `rnxt` are the loop's `curr` and
`next`. The yield thread's handlers take no lock that the walk takes. The list
operations are the atomic operators of `MqttList`, and the walk takes one step
per iteration. There is no run of its own; its cfg is listed under Further
violations.

### `MqttFraming.tla`

It models `mqtt_read_packet` byte by byte over the TCP stream. The yield
thread in `MqttClient` reads one whole packet per read, and this module
checks that the byte-level code deserves that abstraction.

* **Constants.** `Sent` is the sequence of packets the broker writes, each a
  record `[type, flags, len]`. `Wire` is their bytes: the header byte of
  `MQTTHeader` (`type * 16 + flags`), the remaining length as
  `MQTTPacket_encode` writes it (`Encode`, RECURSIVE), and `len` bytes of
  `Filler`. The payload is abstracted to a constant. `ReadBufSize` is what
  `mqtt_read_buf_malloc` makes of `ReadBufSizeArg`.
* **State.** `pos` is the stream position that `network_read` has reached.
  `rpc` is the point `mqtt_read_packet` has reached: idle, len, check, drain
  or body. `remLen`, `mult` and `nLen` are the locals of
  `mqtt_decode_packet`. `total` and `b2r` are the locals of
  `mqtt_packet_drain`. `broken` is a failed connection. `parsed` lists the
  packets returned with `MQTT_SUCCESS_ERROR`. `cut` records a read that
  returned less than it asked for. `overflow` records `MQTTPacket_encode`
  writing past the buffer.
* **Actions.** `ReadHeader` reads the header byte (160-163). `DecodeStep` is
  one round of the decode loop (99-122). `Check` re-encodes the length and
  compares it with the buffer (165-177). `Drain` is one round of the drain
  loop (124-145). `Body` reads the rest (179-189). `Break` fails the
  connection. `Got(n)` is the set of results `network_read` may return for
  `n` bytes: -1 on a broken connection, otherwise all of them. With
  `ShortReads` it is any count from 0, as after a timeout.

| Run | cfg | Expect | What it shows |
|---|---|---|---|
| framing | `MCMqttFraming.cfg` | pass (2.2k states) | six packets, three too large for a 4-byte read buffer (one with a 2-byte length). Every packet returned is the next fitting packet sent (`ParsedAreSent`), and the drain's `bytes2read` never exceeds the buffer (`TypeOK`), with a connection that may fail at any byte |

The pass run turns `ShortReads` off. A timeout in the middle of a packet
desynchronises the stream, and the parse of the garbage that follows has no
small bound (see `MCFramingTimeout.cfg` below). Read errors are on. They
drive every short-read branch, because -1 is also a short read.

### Further checks

| cfg | Property | What TLC shows |
|---|---|---|
| `MCDeadLink.cfg` | `DeadLinkNoticed` | holds (3.8k states). With one link drop and QoS 1, a CONNECTED client whose yield thread runs leaves CONNECTED after a drop. Two keep-alive expiries suffice. If `ping_outstanding++` counted only pings that were sent, it would never leave CONNECTED |

### Further violations

The project keeps twelve runs, listed above and in `PROJECT.json`. The cfgs
below are kept beside them. Each one checks a property of the same modules,
and TLC finds each of them violated:

| cfg | Property | What TLC finds |
|---|---|---|
| `MCAckBound.cfg` | `AckTableBounded` | `mqtt_subscribe`, `mqtt_unsubscribe` and the PUBREL/PUBCOMP records grow the ACK table past `MQTT_ACK_HANDLER_NUM_MAX`. Only publish checks the bound (1684) |
| `MCWildFree.cfg` | `NoWildFree` | an UNSUBACK that matches no record frees the uninitialized `msg_handler` (764-778) |
| `MCInvalidNotEmpty.cfg` | `InvalidMeansEmpty` | `mqtt_clean_session` runs without the write lock (563). A publish between send and record adds a record after INVALID |
| `MCDanglingThread.cfg` | `ConnectedHasLoop` | the yield thread exits without clearing `c->mqtt_thread` (1180). A later connect reaches CONNECTED with no loop |
| `MCAckLeak.cfg` | `AckTableDrains` | with a clean session, an old PUBREL record is resent forever after a reconnect (639). It never frees its slot |
| `MCTimerNeverExpires.cfg` | `DeadlineExpires` | a deadline at `2^W-1` is never reported expired (`platform_timer.c` 182) |
| `MCTimerReached.cfg` | `ExpiredOnceReached` | a deadline whose timeout has passed exactly is not expired: `platform_timer_is_expired` tests `now > time`, not `>=` (`platform_timer.c` 182) |
| `MCTimerWrap.cfg` | `NeverExpiredEarly` | a cutdown of 20 ms at tick 44 of a 6-bit counter stores the deadline `(44+20) % 64 = 0`, which is reported expired at once (`platform_timer.c` 126-131, 182) |
| `MCAckCountLeak.cfg` | `AckCountMatches` | the user's second PUBACK record reads head->prev while the yield thread's unlocked unrecord (721) frees the first; the new node is orphaned, and `mqtt_ack_handler_number` counts a record that no unrecord or scan can find again, so the bound that publish checks fills up |
| `MCTimerTickRate.cfg` | `ExpiresOnTime` | at 100 Hz `tick*1000` overflows TickType_t, and the uptime jumps back (`platform_timer.c` 47) |
| `MCTopicMatchMqtt.cfg` | `DeliveredToEveryMatching` | the loop misses MQTT matches: `#` against `/`, `a/#` against `a`, `+` against an empty level. `mqtt_topic_is_matched` stops at a `/` of the topic unless the filter has one there, and `+` always consumes a character (278) |
| `MCPubrelAllocFail.cfg` | `Qos2ReceivedAtMostOnce` | the PUBREL record of an incoming QoS 2 PUBLISH cannot be allocated. `mqtt_ack_list_record` returns `MQTT_MEM_NOT_ENOUGH_ERROR`, not `NODE_IS_EXIST`, so the message is delivered with nothing recorded, and after a drop and a resumed-session reconnect the broker's retransmitted PUBLISH is delivered again (828). No add races a delete in this trace: the only other record is the SUBACK |
| `MCListReaderUaf.cfg` | `NoUseAfterFree` | a walk of `mqtt_msg_handler_list` stands on a handler, and the yield thread's UNSUBACK handler destroys that handler. The loop body then reads the freed object. One application thread suffices: its second `mqtt_unsubscribe` walks the list in `mqtt_get_msg_handler` (314) while the UNSUBACK of its first one is handled |
| `MCSleepLength.cfg` | `SleepHasRequestedLength` | `mqtt_sleep_ms(1)` sleeps 1000 ms: `mqtt_sleep_ms` passes `ms * 1000` microseconds, and `platform_timer_usleep` divides them by `portTICK_PERIOD_MS` as if they were milliseconds (`mqttclient.c` 660, `platform_timer.c` 285) |
| `MCHandlerLeak.cfg` | `NoHandlerLeak` | the SUBSCRIBE is sent and its handler created, then the ACK handler cannot be allocated. `mqtt_subscribe` ignores the error of `mqtt_ack_list_record` (1684), and the handler is never freed |
| `MCFramingTimeout.cfg` | `StaysFramed` | a remaining-length byte times out. `mqtt_read_packet` ignores the result of `mqtt_decode_packet` (166) and uses the partial length. The next header read then starts on a length byte of the same packet |
| `MCDrainHang.cfg` | `DrainTerminates` | the connection fails while an oversized packet is being drained. `network_read` returns -1, which `mqtt_packet_drain` adds to its total and does not stop on (136). The loop never ends |
| `MCReadBufOverflow.cfg` | `NoReadBufOverflow` | `mqtt_set_read_buf_size(3)` is accepted (1376). A packet of 16384 bytes has a 3-byte remaining length, and `MQTTPacket_encode` writes it at offset 1 of the 3-byte buffer (169) before the size check |
| `MCListStaleDel.cfg` | `ListRefinesSpec` | with `StaleDel`, `mqtt_list_del` of an entry that was already deleted stores through its stale `prev`/`next`. After add n1, add_tail n2, del n1 and del_init n2, a second del of n1 links the removed n2 back in: the list then reaches a freed handler. A second `mqtt_msg_handler_destory` of one handler (the double_free run) does exactly this |

### Not modelled

* The wire codec (`MQTTPacket.h` declares it; its code is not in `src/`).
  Only `MQTTPacket_encode` of the remaining length is modelled, from its
  specification, because `mqtt_read_packet` calls it.
* `MqttFraming` is not composed into `MqttClient`. The client reads whole
  packets. Composing the two would multiply the client's state space by the
  byte positions.
* Allocation failure of the client, the buffers, the network object and the
  will options (1379-1522, 1886), and a failed `platform_thread_init`.
  Allocation failure is modelled only for the ACK and message handler creates
  (356, 467).
* Configuration setters, will options and buffer resizing.
* Inside `MqttClient` the list is a sequence plus `ackTail` (head->prev);
  an add is split as described above, deletes are atomic.
  `MqttList` checks separately that the pointer code implements that sequence.
* `CONTAINER_OF`, `LIST_ENTRY` and the `LIST_FOR_EACH_PREV` loops of
  `mqtt_list.h`. The first two are pointer arithmetic, and the client never
  uses the last ones.
* `platform_timer_now`. It only reads the clock.
* The FreeRTOS thread functions. They are not in `src/`. `platform_thread_stop`
  is taken to be `vTaskSuspend`, as in the library's FreeRTOS port.
