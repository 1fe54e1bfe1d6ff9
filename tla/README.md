# Verification of the Zephyr sensor, Thread and control-panel firmware

TLA+ models of the firmware in this repository (nRF52840, Zephyr / nRF Connect
SDK), the TLC runs that check them and the TLAPS proofs about them.

1. [Inventory](#1-inventory) - 2. [Modules](#2-modules) - 3. [What the models say](#3-what-the-models-say)
- 4. [Runs](#4-runs-and-bounds) - 5. [Fairness](#5-fairness) - 6. [Proofs](#6-proofs)
- 7. [Disagreements](#7-disagreements-with-the-documentation) - 8. [Not modelled](#8-what-is-not-modelled) - 9. [Plan](#9-plan)

## 1. Inventory

The repository holds several applications that share files by copy.

| Application | What it is |
|---|---|
| `crs_demo` | sensors -> queue -> frame -> Bluetooth LE notification |
| `crs` | the CRS GATT service used by `crs_demo` |
| `IoT/coap_control_board` | OLED and keys, parameter storage, CoAP provisioning |
| `IoT/coap_ed_temp`, `IoT/coap_end_device` | CoAP/Thread end device (the same client sources) |
| `IoT/coap_ed_light` | CoAP light (work in progress, does not compile) |
| `IoT/coap_router` | Thread router with role LEDs |
| `IoT/client`, `IoT/server` | the two ends of a Thread network, with the sensor pipeline |
| `smp_svr_demo`, `test_storage`, `func_demo` | bring-up demos |

Components, their state and operations, and what makes each correct:

* **Sensor pipeline** (`crs_demo/src/protocol/src/crs_producer.c`; near copies
  in `IoT/server`, `IoT/client`). State: kernel heap, message queue, event group,
  static frame. Operations: `create_event_payload`, called by sensor threads and
  by one UART interrupt; `producer_thread`. Hard: a call is five kernel calls
  that any more urgent thread may cut; `k_event_wait` clears the bits before it
  sleeps; two limits, heap and queue. Correct when no block leaks or is freed
  early, readings are merged in order and once, and none stays queued for ever.
* **Sensor drivers** (`crs_aht20_ts.c`, `crs_bmp280_ps.c`, `crs_hrbo.c`,
  `crs_as201_imu.c`). They are the callers of the pipeline. The IMU driver asks
  over a UART, and its interrupt cuts the answers into segments; thread and
  interrupt share a buffer and a flag that is neither atomic nor volatile. Correct
  when a segment is one frame and the request/answer cycle goes on. HRBO stamps a
  counter. AHT20 and BMP280 are tick automata that write through pointers which
  are never given storage.
* **Control panel** (`IoT/coap_control_board`: `coap_client_button.c`,
  `coap_client_oled.c`, `main.c`). State: key automaton, page, edit flag,
  parameters, redraw flag, minute timer. Actors: a timer interrupt, `sys_thread`,
  `key_thread`, `oled_thread`, and a mutex one of them ignores. Correct when
  presses are debounced and none is lost, parameters stay in range, and the
  glass ends up showing the current page.
* **Parameter store** (`user_nvs.c`, called by `main.c`). Three flash records and
  their copies in RAM. Hard: power lost between the writes of the first start,
  writes and mounts that fail, and starts after that. Correct when the flag of
  the first use stands for records that are there.
* **CoAP client** (`IoT/client/src/protocol/src/iot_coap_client_utils.c`; copies
  in `coap_ed_temp`, `coap_end_device`; an older one in `coap_control_board`).
  State: role, connection flag, work items, LEDs, link mode, poll period. It is
  driven by OpenThread, by button and Bluetooth commands, and by replies. Hard:
  work items coalesce and run after the check that submitted them; replies are
  lost, late or doubled.
* **CoAP server** (`IoT/server/src/protocol/src/iot_coap_utils.c`, `iot_led.c`,
  `iot_button.c`). Requests and responses; a blocking query with one semaphore
  for all callers and an answer written to the caller's stack. Hard: time-outs,
  late answers, overlapping queries, repeated commands.
* **Bluetooth link** (`crs_ble.c`, `iot_ble.c`). State: connection objects,
  advertising, a work item, state bits, the subscription flag. Hard: callbacks,
  the work queue and a polling thread start advertising independently, and none
  tries again.
* **CRS service** (`crs/crs.c`): a list of listeners, the peers' subscriptions,
  the control point. Hard: a peer that subscribes before `crs_ble.c` listens,
  several peers whose subscriptions differ, several listeners that answer.
* **Bluetooth NUS utilities** (`iot_ble_utils.c`, `ble_utils.c`, and what is
  alike in `coap_router`'s `ble.c` and `smp_svr_demo`'s `bluetooth.c`): one set of
  callbacks in four programs that differ in who advertises again; a connection
  reference; LED works that coalesce. Correct when the LED settles on the
  connection and the device can be found again.
* **Router LEDs** (`coap_router.c`): two LEDs that follow the Thread role, from a
  callback that may not see every role.
* **Control board provisioning**, **light end device**, **bring-up demos**: see
  section 8.

Sensors call the pipeline (a queue and an event group between threads); the
pipeline hands frames to the CRS service if the subscription flag says so, and the
service to the Bluetooth link; keys, timer and drawing share the menu's state; button
and Bluetooth commands reach the CoAP client as work items; the CoAP client and
server meet over the network.

## 2. Modules

| Module | Models | State in the code | Proofs |
|---|---|---|---|
| `SensorProducer` | `crs_producer.c`: every kernel call of `create_event_payload` and of `producer_thread` | `msgHeap`, `dataHeap` = blocks of the heap; `queue` = `g_msg_queue`; `events` = `g_event_group`; `tx` = `tx_buf`; `pc`, `slot`, `ppc`, `cur` = where each thread stands and what it holds | `SensorProducerProofs` |
| `SensorFeed` | the abstract promise of the pipeline: readings merged in order and once, frames whole | - | `SensorProducerProofs` |
| `ImuLink` | `crs_as201_imu.c`: thread, interrupt handler, and the IMU at the other end of the UART | `pc` = where `as201_imu_thread` is; `tx_buf_flag`; `rx_buf` = the first `rx_buf_pos` bytes of it; `delivered` = what `create_event_payload` gets | `ImuLinkProofs` |
| `KeyScan` | `key_scan`, and when `key_status` acts | `state`, `action` = `key_op`; `time_cnt`, `lock`, `current_key_bit` | `ControlBoardProofs` |
| `ControlPanel` | `key_status`'s effects, `table_op`, the drawing functions, `sys_thread`, the timer | `current_index` ... `param` = `oled_par`; `counter`, `flag` = `sys_tim`; `mutex` = `i2c_mutex`; `screen` = the pages on the glass | `ControlPanelProofs` |
| `ParamStore` | `user_nvs.c` and its place in `main` | `flash` = the records in NVS; `g_par`, `shown` = the copies in RAM that hold their values; `pc` = how far `main` is | `ControlBoardProofs` |
| `CoapClient` | `iot_coap_client_utils.c`, `coap_client_light.c` | `pending`, `running`, `at` = `coap_client_workq` and its thread; `med`, `poll_period`, `link_poll`, the two LEDs | `CoapClientProofs` |
| `CoapServer` | `iot_led.c`, `iot_coap_utils.c`, and the network between two nodes | `led` = `led->state`; `answer`, `current`, `pc` = the stack of each query; `led_get_sem`; `request`, `cached`, `air`, `back` = OpenThread and the network | `CoapServerProofs` |
| `RemoteLed` | the abstract promise of the LED resource: a command changes the LED at one moment, a query is one look at it | - | `CoapServerProofs` |
| `BleLink` | `crs_ble.c`: advertising and connection objects | `queued`, `running` = `advertise_work`; `disconnected` = `STATE_DISCONNECTED`; `object` = the stack's connection objects | `BleLinkProofs` |
| `CrsLink` | `crs.c` composed with `BleLink` | `crs_cbs`; `crf_ntf_enabled` = `crs_ble.c`'s flag; `ccc` = what the stack keeps for each peer | `BleLinkProofs` |
| `NusLink` | the Bluetooth side of `coap_ed_temp`, `IoT/client`, `smp_svr_demo`, `coap_router` | `workq` = the system work queue; `current_conn`; `led` = `BLE_CONNECTION_LED`; `app` = which program | `NusLinkProofs` |
| `RouterLeds` | `coap_router.c` composed with `NusLink` | `LEADER_LED`, `ROUTER_LED`; `role`, `announced` = OpenThread's | `NusLinkProofs` |

`MC*` modules instantiate them for TLC. `CrsLink` and `RouterLeds` extend the
module they are composed with: a step of the whole is a step of one side that
leaves the other alone, or, in `PeerGone`, of both. An operator whose comment
begins with "Fault:" is a bug the code does not have; it is not part of any
specification and serves to show that a property can fail.

## 3. What the models say

**Granularity.** A step is what no other actor of the model can interrupt:
mostly one kernel call with the computation up to the next. The nRF52840 has one
core, so the models use the threads' priorities where they matter
(`SensorProducer`: `Runs`, `ProducerRuns`; `CoapClient`: `QueueRuns`, `ReplyRuns`).

**SensorProducer.** The heap is known by its total size and the cost of blocks;
`Fragments` allows it to refuse a block although there is room. What is in use is
counted as a set of units (`Units`), so that the proofs can count it too. `Slot` bounds the
messages alive at once in the model; it is never felt, the heap is exhausted before
(`NoCallWantsASlot`). A sensor calls at
most once while `producer_thread` is on its way to sleep (microseconds against
milliseconds); `burst` is that assumption. The lost wake-up of `k_event_wait` is
in the model: `StrandedOnlyByPreemption` bounds what it can strand, and
`QueuedIsTaken` shows that the next HRBO reading frees it. That needs a heap with
room for one more message; with a heap of a few messages that are all
stranded, no sensor could post again (2048 bytes are far from that). In
`IoT/server` and `IoT/client` the mask of the wait lacks HRBO (and the IMU): there
an HRBO reading wakes nobody, which is the mutant `MaskWithoutHRBO`. IMU data is
transmitted only when an HRBO reading follows, which overwrites the whole body.

**ControlPanel.** Pages stand for pixels. `sys_thread` preempts anywhere and
takes no mutex, so a time-out can strike inside a drawing; the model then calls
the glass `Garbled`, which is more than happens in most cases, and everything
else must be exact. A tick comes only after `sys_thread` looked (1 ms against
1 s). A `clear_oled` that alternates with a drawing or with the drawing's own
`clear_oled` shares the display's one address with it, so it can leave columns
uncleared: the glass is `Garbled` in each of these cases, until a drawing has
cleared it with nobody else on the bus. This is likely after a time-out, since
`oled_thread` looks for a request every 50 ms; `ShowsCurrentPage` speaks of the other cases.
`add_flag` may be used up on another page than the one it was set on: `asked` is
the history of that. `AdvancesAsAsked`
says that a drawing advances the parameter DOWN was pressed on, by one step, unless
its page may have been left before; nothing in the repository says what happens then.

**CoapClient.** OpenThread's thread is cooperative, so `on_thread_state_changed`
is one step. Whether the thread that delivers replies is more urgent than
the work queue depends on the library and its caller (in `IoT/client`, `coap_init`
runs in a thread of priority 4 and the queue in one of 5), so it is the constant
`ReplyPreempts`. If it is, two requests and a late second reply can make the device
take the shortened poll period (100 ms) for its own: the reply restores between
`SavePeriod` and `ShortenPeriod`. `PeriodLostOnlyIfOvertaken` says that this is the
only way, and `PeriodNeverLost` proves that without preemption there is none.
A lost reply is in the model; no timer ends the short period in the code.
`merged` and `overtaken` are history variables. The address a reply carries and the
ON/OFF alternation of multicast commands are left out.

**CoapServer.** Everything OpenThread does is taken from its use: it repeats a
confirmable request, filters repetitions by the response it sent, and calls the
handler once, without a message when it gives up. The handler of a query passes that null
pointer on to `otMessageGetLength`: either it reads something that is no answer
(`"unread"`, `RequestTimesOut`) and wakes its caller, or the access stops the node
(`HandlerFaults`; `halted` is then true and no thread or handler of it takes another
step). `QueryReturns` promises nothing after that. Two queries at once break both the answer
and the wake-up; the properties say that nothing else does. `overlapped`, `seen`
and `applied` are history.

**RemoteLed** says what that adds up to for the nodes that use the resource, without
requests, responses, repetitions, semaphore and stacks. A command takes effect at one
moment, and again only if its response failed, when nobody knows that it was carried out.
A query is one look at the LED between call and return, or `"unread"` when OpenThread
gave up. Queries that overlap, or that meet one whose caller has returned without its
answer (`stray`), are promised nothing (`"spoilt"`). `LedSpec` maps
`CoapServer` to it: `Carried` is the command of an exchange, in the request or in what the
network still holds of it; `Outlook` is what a query will return, which is
settled when the handler of the other node reads its LED and not when the answer arrives.

**BleLink.** `bt_le_adv_start` is refused while advertising and when every object is in
use; these refusals the design has to survive, and it does, because an object
in use is recycled later. Refused for another reason (a full command queue),
the device stays silent, as nobody tries again: that hazard is listed, and
`FoundAgain` would be false with it.

**CrsLink.** The service and `crs_ble.c` on the link of `BleLink`. The stack keeps a
CCC value for each peer, reports their maximum when it changes, and clears a peer's
value before it reports that the peer is gone. `ble_thread` registers its listener
after `bt_enable`, which does not wait, so a subscription can come first: nobody
is told, and the flag is wrong until the maximum changes again (`missed` is the
history of that). Since the report is a maximum and `crs_ntf_changed` compares it
with 1, one peer that asks for indications (2 or 3) stops the notifications of all others.
`FlagFollowsPeers` says that nothing else goes wrong, in either direction. The
control point asks the listeners in order until one fails and answers with the
last result it has (`Collect`, `Answer`), which is not what `crs.h` says of a request that
one listener served and the next passed on (section 7). When one of several peers leaves, the stack
does not look for the maximum anew until the next write; the model does, which makes no
difference with the one connection object these programs are configured with.

**NusLink.** Four programs, chosen by `app` once and for all. The system work queue
runs works in order on a cooperative thread, so a work that does not wait is one
step; `bt_le_adv_start` waits, hence `TakeAdvertise` and `Advertise`. In `IoT/client` a
failed connection counts as a report and lights the LED; `last` and `merged` are
history. `coap_ed_temp` and `coap_router` advertise in their initialisation only:
`OneConnectionOnly` states what that means: once they have stopped advertising they never
advertise again, and once the connection has ended they never have another.
`TempConnectionShown` follows the reference and the LED of `coap_ed_temp`, where no report
is ever merged.

**RouterLeds.** The callback reads the role of the moment, so a role between two
others may never be seen (`ChangeRole` twice before `StateChanged`). The LEDs are
cleared only when the node is attached no more, and LED 1 belongs to the leader
(section 7). `LedsShowAttachment` is what the code keeps nevertheless: the LED of the present
role is lit, and none outlasts the connection.

**ImuLink.** One step of the interrupt handler is one byte. `rereads` is the
compiler's choice: the flag is not volatile, and a build that keeps it in a register
turns for ever after its first request. A byte of a frame is `"data"` or the end mark
`0xFD`. `raced`: the flag was set by an answer between a request and its clearing, and the
assignment wiped it out: then nobody asks again. `SilentOnlyIfRaced` and `AsksForEver`
say that this, a lost request and such a build are the only ways to fall silent.

**ParamStore.** A record holds its default or is not there, since only defaults are ever
written. `PowerOff` may strike at any step; mounts, writes and reads may fail. If the flag is
there and cannot be read, its copy stays zero and the start takes itself for the first (`Misread`):
`start` is the history of what a start took itself for. The store is broken when the flag stands
for records that are missing, and `OnlyMisreadingRepairs` says that only such a start writes
them. `ParametersNotLoaded` states a fact a reader of the code might not expect: a later
start that reads the flag leaves `g_par` without parameters, whatever flash holds.

**KeyScan.** One step is one 10 ms turn of `key_thread`, with the code's own limit of
100 turns; `sample`, `run`, `gap` are the history of the contacts. `PressIsTaken` is about the
presses the comment at `key_scan` calls short, 6 to 20 samples; shorter and longer ones
that the code takes as well are in the model and no property asks for them.

## 4. Runs and bounds

| Run | Shows | Bounds, and why they are enough |
|---|---|---|
| `sensor_pipeline` | no leak or early free, one owner, what a lost wake-up can strand | HRBO, AHT20 and the IMU interrupt; a heap of 6 units and a queue of 2: heap exhaustion, queue overflow and fragmentation all occur |
| `sensor_feed` | `SensorProducer` implements `SensorFeed`; the heap fills before the queue; every queued message is taken | two sensors (BMP280 behaves like AHT20); heap 7 and queue 4 keep the code's order, the heap is short before the queue is. With a heap of 5 one stranded HRBO message (3 units) leaves no room for the next one and `QueuedIsTaken` fails; `RoomForTheNext` says how large a heap must be, and 2048 bytes are far above that |
| `control_board` | keys: debouncing, no short press lost, a key acts once and when it is up; panel: parameter ranges, the parameter a drawing advances, glass against page, no way back to the welcome page, redraws served, idle panel goes home; store: a broken store needs an interruption, and only a failed read repairs it; what RAM holds | `KeyScan`, `ControlPanel` and `ParamStore` side by side: they share no state, so a behaviour is one of a single part (`part`) and the product of the three need not be explored. `LongCount` is the code's; no key, two keys and both together. `Minute` 2 instead of 60: the counter's value is only compared; limits 2 and 1, wrapping and not wrapping. The store is finite |
| `coap_client` | LEDs and poll period under every order of role changes, calls, works and replies | two pending works when a caller adds one (role changes add more), two awaited replies |
| `coap_server` | `CoapServer` implements `RemoteLed`; fresh answers, commands carried out once; a query returns unless a time-out stopped its node | two threads, two exchanges, the command that is not idempotent |
| `ble_link` | an unconnected device is advertising, or about to, and in the end it is found again; the subscription flag | `CrsLink` with two connection objects, hence two peers; CCC values 0, 1 and 3; two listeners besides `crs_cb` |
| `nus_link` | LEDs, reference and connection; LEDs against role; the one connection of the programs that advertise once; the others are found again | `RouterLeds` with one connection object, `CONFIG_BT_MAX_CONN` of these programs; the proofs cover every number |
| `imu_link` | whole segments, one request at a time, polling goes on | a buffer of 4; frames shorter, as long as it, longer, and one with an end mark inside; one frame unasked, two requests held |
| `key_long_press`, `coap_client_led`, `crs_control_point`, `router_led1` | violations, see section 7 | the bounds of `control_board`, `coap_client`, `ble_link` and `nus_link` |

`CHECK_DEADLOCK` is on except in `nus_link` and `router_led1`, `imu_link`, `coap_server`, where
the program itself may stop: a device that advertised once and lost its peer, an IMU driver that
has fallen silent, a node stopped by a null message. Every type invariant is proved; those of `KeyScan`, `ImuLink` and
`ParamStore` are also checked by a run.

## 5. Fairness

* Sensors: each thread that has work gets the processor again and again,
  because more urgent ones sleep for milliseconds after each call (SF: the guards
  of priorities come and go); HRBO calls every 20 ms; the other sensors need not
  call. `bt_gatt_notify` returns.
* Panel: timer and `sys_thread` go on; nobody need press a key. Zephyr hands a
  mutex to the most urgent thread that has waited longest, so `oled_thread`
  gets it however often `key_thread` asks (SF).
* CoAP server: OpenThread ends every request, by a response or by giving up; the
  callers go on, as long as their node does. Nothing is assumed of the network or of the
  other node.
* Bluetooth: the stack recycles what it closed; the work queues and `ble_thread`
  run, `ble_thread` gets to the end of `crs_ble_init` and `main` to that of its
  initialisation. Nobody need ever connect, subscribe or leave.
* IMU: the driver's thread runs, a byte that has come is handled, a request the
  IMU has got is answered. Requests may be lost; `AsksForEver` is about
  behaviours in which none is.

## 6. Proofs

Every theorem holds for all values of the constants that satisfy the named
`ASSUME`s; these are checked by TLC on each instance.

* `SensorProducerProofs`: `TypeCorrect`, `NoLeakNoEarlyFree`, `OneOwner`,
  `LostWakeUps`, `ImplementsFeed`. The first three are proved together:
  `HeapAccounted` is kept by freeing only if nobody else has the message
  (`SingleOwner`), which is kept only if what is queued has both blocks. `Holding`
  says what a thread's position implies about the message it holds.
  `LostWakeUps` needs that only preempting sensors run while the producer is on its
  way to sleep, and each of them once (`Entering`), and that any message put later
  is followed by a post that wakes it (`Asleep`); `OneEach` turns this into a
  count. `ImplementsFeed` maps every step to a step of `SensorFeed` or to a stutter:
  `PutBacklog`, `TakeBacklog` and `ProcessBacklog` say what the queue operations
  do to the backlog `SensorFeed` sees.
* `SensorProducerProofs`, the heap: `HeapNeverOverdrawn`, `HeapFillsFirst`, `NoCallWantsASlot`,
  `RoomForTheNext`. `HeapKept` is the inductive part: the units in use are finitely
  many and no more than the heap has (`HeapGrows`: a block adds its cost, as its units are new).
  `QueueWeight` says that a queue of n messages, each of k units at least, has n * k units in
  use: no message is queued twice (`SingleOwner`), so the first k units of each are n * k
  different ones. From it `HeapFillsFirst` concludes
  `QueueNeverFull` when QueueSize messages of any sensor do not fit into the heap; two
  blocks of 16 bytes with their headers, 100 places and 2048 bytes are such a case. `RoomForTheNext`
  counts what is in use while `producer_thread` sleeps and nobody is about to post: at most one
  stranded message for each sensor that may preempt it (`OneEach`) and one for each call under way.
  A heap with room for these and one more never refuses the next message for
  want of room (`Fragments` apart): seven messages of less than 150 bytes, against 2048.
* `ControlBoardProofs`, keys: `TypeCorrect`, `Debounced`, `NoPressLost`, `ActsOnceUp`. `Timed`
  compares the automaton with the history of the contacts: after two samples
  without a key it is in `KEY_CHECK`, and while it times a press its count is the
  length of the run. `Pending` says where an action is left over, so that the turn in which
  a key acts is the one that uses it up.
* `ControlBoardProofs`, storage: `StoreTypeCorrect`, `HarmNeedsInterruption`, `HarmStays`,
  `LaterStartsLoadNothing`. `Written` says how far the flash is at each point of the first start,
  and that without a cut or a failure it holds nothing, everything, or exactly what has been
  written so far; `Copied` says what RAM holds in each kind of start. `HarmStays` is an action
  property: no step writes to a broken store or leads from it to one that is not, but those of a
  start that could not read the flag.
* `ControlPanelProofs`: `TypeCorrect`, `ParameterRanges`, `WelcomeGone`,
  `GlassShowsCurrentPage`, `AddsWhatWasAsked`. The welcome page stays gone because no time-out can be
  due while it is shown (`WelcomeQuiet`) - otherwise a key could store the
  welcome page it looked up before the time-out. The glass is followed through
  the steps of a drawing (`Undisturbed`), with what each holder of the mutex is
  doing (`MutexHeld`). For `add_flag`, as long as its page is not left no key is on the
  way to another page and a drawing is one of that page (`AskedHere`).
  `MutexGivenBack`: who holds the mutex has a step left that goes on to give it back
  (`HolderGoesOn`), and a key and a drawing never hold it together. `TimeoutComesCloser`:
  away from `MAIN_PAGE` the ticks left before the time-out (`TicksLeft`) fall with every tick and
  are put off by a key only, although `sys_thread` writes the counter in each of its turns.
* `CoapClientProofs`: `TypeCorrect`, `ModeIsShown`, `PeriodLostOnce`,
  `PeriodNeverLost`, `LinkIsShown`. `PeriodSound` adds what is known between the two
  halves of saving and of restoring. For the LED: unless the last role change was
  merged, the work it wants is the last link work in the queue, or runs with
  none behind it, or is done (`LedSound`).
* `BleLinkProofs`: `AlwaysAWayBack`, `FlagFollows`, `ErrorsEnd`, `CrsTypeCorrect` and
  `ImplementsBleLink`, of `CrsLink`. The first is
  inductive together with the types, as an attempt to advertise fails only for a
  reason that shows in an object (`AttemptShows`). The second needs that only
  connected peers have a subscription and that the flag, once set, is the last
  report's (`Subscribed`); `HighestIs` says what a maximum of CCC values is. The third
  proves of the control point what `crs.h` says and the code keeps (errors end requests, and only
  a request that was served is confirmed); it rests on `CollectIs`: an error can only be the last
  result collected. `ImplementsBleLink`
  says that the composition does nothing to the link that `BleLink` does not.
* `NusLinkProofs`: `RouterTypeCorrect`, `ConnectionIsShown`, `OneConnection`, `TempIsShown`,
  `AttachmentIsShown`, `AlwaysAWayBack`, of `RouterLeds`. `Life` bounds the objects a program that
  advertises once ever uses to one and says that it never has the work to advertise queued or
  running, hence `OneConnection`; `Kept` follows its connection, reference, works and LED through their
  few states; `LedInv` says that carrying out what is queued leaves the LED as the
  last report wanted it, and rests on `Kept`: `coap_ed_temp` reports the end of a
  connection only if it holds a reference. `AlwaysAWayBack`: a program that submits
  `advertise_work` is connected, advertises, is closing an object, or has the work queued or
  running, whichever attempts failed.
* `ImuLinkProofs`: `TypeCorrect` (the buffer's bound), `OneAtATime`,
  `EndsOnlyIfRaced`, `SegmentsClean`. `Turns` counts requests, frames on the wire and
  the flag together: one of them at most. `Waits` says what is still coming whenever the
  thread waits. `Arriving` says which frame the buffer holds the beginning of.
* `CoapServerProofs`: `TypeCorrect`, `FreshAnswers`, `OnceOnly`, `NoQueryStranded`,
  `ImplementsRemoteLed`. A query that overlaps
  with none finds the semaphore empty, and that is a matter of counting:
  the wake-ups that are left over or will still be given are no more than the callers
  that are still blocked (`WakeUps`, kept by `CountKept`). From there the query is
  followed to its end (`Alone`); `Exchanged` says that what is under way belongs to the
  request that is open, so a command cannot answer a query. `NoQueryStranded`: a query that
  overlaps with none is never blocked without an open request of its own. The refinement goes action
  by action: `Foreseen` says what `Outlook` is at each place of a query, `QueryKept` and
  `OrderKept` that what a step leaves alone keeps its image. The answer is settled
  when the handler runs, which the abstract query takes as its look; a query that returns while
  another one is under way, or leaves its request behind, was spoilt before.

Only model-checked: the liveness properties (`QueuedIsTaken`, `RedrawServed`,
`IdleReturnsToMain`, `QueryReturns`, `FoundAgain` of both Bluetooth modules, `AsksForEver`),
because fairness and ENABLED are out of the prover's reach. The theorems have the safety half
of each, that no state is a dead end:

| Liveness property | Safety half, proved | What remains for the run |
|---|---|---|
| `QueuedIsTaken` | `LostWakeUps`, `RoomForTheNext` | HRBO calls again, `producer_thread` runs |
| `RedrawServed` | `MutexGivenBack` | the mutex is handed to who waits longest |
| `IdleReturnsToMain` | `TimeoutComesCloser` | the timer ticks, `sys_thread` runs |
| `QueryReturns` | `NoQueryStranded` | OpenThread ends each request, and its handler does not stop the node |
| `FoundAgain` | `AlwaysAWayBack`, in both modules | the works run, objects are recycled |
| `AsksForEver` | `EndsOnlyIfRaced` | the thread runs, the IMU answers |

What a proof takes from the code by assumption: only the named `ASSUME`s about the constants, and
for `HeapFillsFirst` and `RoomForTheNext` the two hypotheses about sizes given above.

## 7. Disagreements with the documentation

* `key_long_press`: after a long press the automaton returns to its first state
  with the key down; the comment says that all keys are up
  (`coap_client_button.c:122`). Letting go performs a short press as well.
* `coap_client_led`: connect, disconnect, connect behind a busy queue leaves the
  connection LED wrong, since the third work is merged with the first;
  `coap_ed_temp/README.rst:68-69` says it is on when the connection is established.
* `crs_control_point`: a request that one listener served is refused with
  `NOT_SUPPORTED` if the next one passes it on; by `crs.h:34-36` a result of 0 means that
  the request has been handled, and `ENOTSUP` only hands it to other listeners.
* `router_led1`: a node attached as a child has LED 1 off; `coap_router/README.rst:57-58`
  has it lit when the OpenThread connection is established. It is lit in a leader only, or in
  what was one without having lost the network since.
* Without a run of its own: the code takes presses of 2 to 101 samples as short, the comment at
  `coap_client_button.c:67` names 6 to 20. `PressIsTaken` claims only those.

## 8. What is not modelled

* **AHT20, BMP280**: their first statement writes through a pointer without
  storage; listed as a hazard. **HRBO** is the caller in `SensorProducer`.
* **Control board provisioning**: the work queue is never initialised
  (`coap_client_utils.c:137-143` are commented out); every submission fails and
  nothing follows.
* **Light end device**: does not compile (`coap_client_list.c:116`).
* **Copies**: `iot_producer.c` of `IoT/server` and `IoT/client` follow the queue protocol of
  `crs_producer.c`, but their `main.h` has no HRBO event, on which alone a frame is
  sent: frames are merged and never transmitted. `IoT/client` does not build as it is
  (`conn_auth_callbacks` is undeclared at `iot_ble_utils.c:248`, `disconnect_option` is
  commented out and called at `iot_producer.c:67`, and `iot_producer.c` is in no
  CMake list). `iot_ble.c` is `crs_ble.c` under an `#ifdef`; `iot_led.c` and `iot_button.c` of
  `IoT/client` are copies.
* **Button resource** of `IoT/server`: the query of the LED resource with a
  semaphore of its own, and no state to set.
* **Initialisation order**: `coap_ed_temp`'s buttons are live before the work they submit
  is initialised; `IoT/server`'s button calls OpenThread without its lock. Their outcomes
  are the kernel's and OpenThread's; both are listed as hazards.
* **Data**: fonts, pixels and the layout of pages, JSON, UUIDs, addresses, radio
  parameters, device-tree set-up; bring-up demos and vendor samples. More than half of the
  repository's lines are of this kind (`uuid.h` alone is a third).

## 9. Plan

1. Proofs: an abstract feed of whole IMU segments that `ImuLink` implements; an abstract
   indicator (an LED that follows the last event a work has seen) that `NusLink` and
   `CoapClient` both implement.
2. The layout of the panel's pages: that what the drawing functions of one family write
   does not overlap, and what `clear_half_part` leaves.
3. Two peers and the pairing callbacks of the NUS utilities, once the repository
   says what a failed pairing should lead to.
4. Two more LED nodes in `CoapServer`, for multicast commands.
