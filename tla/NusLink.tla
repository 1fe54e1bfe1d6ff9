------------------------------- MODULE NusLink --------------------------------
(* The Bluetooth side of four programs, each with its own copy of the same      *)
(* callbacks, and the LED two of them hang on the connection: ble_utils.c of    *)
(* coap_ed_temp (coap_ed_light, coap_end_device and coap_control_board have the *)
(* same file), iot_ble_utils.c of IoT/client, bluetooth.c of smp_svr_demo and   *)
(* ble.c of coap_router. The first and the last advertise once, in their        *)
(* initialisation; the others through a work item, after a failed connection,   *)
(* when a connection object has been recycled and, IoT/client, after a          *)
(* disconnection. (disconnect_option, which iot_producer.c calls from its work, *)
(* is commented out.)                                                           *)
(*                                                                              *)
(* All works share the system work queue: it runs them in order, and a work     *)
(* that is queued is not queued again. Its thread is cooperative, so a work     *)
(* that does not wait runs in one step; bt_le_adv_start waits for the           *)
(* controller.                                                                  *)
EXTENDS Integers, Sequences, SequencesExt

CONSTANT Objects        \* the connection objects, CONFIG_BT_MAX_CONN of them

ASSUME ObjectsAssumption == Objects # {}

VARIABLES
  app,              \* which of the four programs runs
  object,           \* what each connection object is used for
  up,               \* Bluetooth is initialised
  workq,            \* the system work queue
  advertising,      \* advertise runs: bt_le_adv_start has been called
  current_conn,     \* of ble_utils.c: the objects it holds a reference to
  led,              \* BLE_CONNECTION_LED
  last,             \* history: the last callback that asked for the LED, ...
  merged            \* ... and whether the work it submitted was queued already

history == <<last, merged>>
vars == <<app, object, up, workq, advertising, current_conn, led, history>>

Once == {"coap_ed_temp", "coap_router"}          \* they advertise once
Again == {"IoT/client", "smp_svr_demo"}          \* they have advertise_work
App == Once \cup Again
Work == {"advertise", "on_connect", "on_disconnect"}
Use == {"free", "advertising", "connected", "closing"}
Event == {"none", "connected", "failed", "disconnected"}

TypeOK ==
  /\ app \in App
  /\ object \in [Objects -> Use]
  /\ up \in BOOLEAN /\ advertising \in BOOLEAN /\ led \in BOOLEAN
  /\ workq \in Seq(Work) /\ IsInjective(workq)
  /\ current_conn \subseteq Objects
  /\ last \in Event /\ merged \in BOOLEAN

Init ==
  /\ app \in App
  /\ object = [o \in Objects |-> "free"]
  /\ up = FALSE /\ advertising = FALSE /\ led = FALSE
  /\ workq = <<>>
  /\ current_conn = {}
  /\ last = "none" /\ merged = FALSE

Is(use) == \E o \in Objects : object[o] = use

(* bt_le_adv_start: refused while advertising and when every object is in use.  *)
AdvStart ==
  \/ /\ ~Is("advertising")
     /\ \E o \in Objects : object[o] = "free" /\ object' = [object EXCEPT ![o] = "advertising"]
  \/ /\ Is("advertising") \/ ~Is("free")
     /\ UNCHANGED object

(* k_work_submit.                                                               *)
Submit(queue, work) == IF work \in ToSet(queue) THEN queue ELSE Append(queue, work)

-------------------------------------------------------------------------------
(* The stack: an advertising object becomes a connection ...                    *)
Opens(o) == object[o] = "advertising" /\ object' = [object EXCEPT ![o] = "connected"]

(* ... and one that is given up is in use until it is recycled.                *)
Closes(o, use) == object[o] = use /\ object' = [object EXCEPT ![o] = "closing"]

(* The LED is asked to follow event, by a work.                                 *)
AskForLed(queue, work, event) ==
  /\ workq' = Submit(queue, work)
  /\ last' = event /\ merged' = (work \in ToSet(queue))

-------------------------------------------------------------------------------
(* coap_ed_temp. ble_utils_init waits for bt_enable and advertises.             *)
TempEnable ==
  /\ app = "coap_ed_temp" /\ ~up
  /\ up' = TRUE
  /\ AdvStart
  /\ UNCHANGED <<app, workq, advertising, current_conn, led, history>>

\* Fault: the connection is not kept.
TempConnectedUnkept(o) ==
  /\ app = "coap_ed_temp" /\ Opens(o)
  /\ AskForLed(workq, "on_connect", "connected")
  /\ UNCHANGED <<app, up, advertising, led, current_conn>>

(* connected() keeps a reference; after an error it does nothing.               *)
TempConnected(o) ==
  /\ app = "coap_ed_temp"
  /\ \/ /\ Opens(o)
        /\ current_conn' = current_conn \cup {o}
        /\ AskForLed(workq, "on_connect", "connected")
     \/ Closes(o, "advertising") /\ UNCHANGED <<current_conn, workq, history>>
  /\ UNCHANGED <<app, up, advertising, led>>

\* Fault: the reference is dropped and kept in current_conn.
TempDisconnectedKept(o) ==
  /\ app = "coap_ed_temp" /\ Closes(o, "connected")
  /\ AskForLed(workq, "on_disconnect", "disconnected")
  /\ UNCHANGED <<app, up, advertising, led, current_conn>>

(* disconnected().                                                              *)
TempDisconnected(o) ==
  /\ app = "coap_ed_temp" /\ Closes(o, "connected")
  /\ IF current_conn # {} THEN AskForLed(workq, "on_disconnect", "disconnected")
                          ELSE last' = "disconnected" /\ UNCHANGED <<workq, merged>>
  /\ current_conn' = {}
  /\ UNCHANGED <<app, up, advertising, led>>

(* coap_router: ble_enable, which registers no callbacks.                       *)
RouterEnable ==
  /\ app = "coap_router" /\ ~up
  /\ up' = TRUE
  /\ AdvStart
  /\ UNCHANGED <<app, workq, advertising, current_conn, led, history>>

RouterLink(o) ==
  /\ app = "coap_router"
  /\ Opens(o) \/ Closes(o, "advertising") \/ Closes(o, "connected")
  /\ UNCHANGED <<app, up, workq, advertising, current_conn, led, history>>

-------------------------------------------------------------------------------
(* IoT/client. ble_utils_init enables Bluetooth, and bt_ready submits the work. *)
ClientEnable ==
  /\ app = "IoT/client" /\ ~up
  /\ up' = TRUE
  /\ workq' = Submit(workq, "advertise")
  /\ UNCHANGED <<app, object, advertising, current_conn, led, history>>

(* connected() submits on_connect_work after an error, too.                     *)
ClientConnected(o) ==
  /\ app = "IoT/client"
  /\ \/ Opens(o) /\ AskForLed(workq, "on_connect", "connected")
     \/ Closes(o, "advertising") /\ AskForLed(Submit(workq, "advertise"), "on_connect", "failed")
  /\ UNCHANGED <<app, up, advertising, current_conn, led>>

(* disconnected().                                                              *)
ClientDisconnected(o) ==
  /\ app = "IoT/client" /\ Closes(o, "connected")
  /\ AskForLed(Submit(workq, "advertise"), "on_disconnect", "disconnected")
  /\ UNCHANGED <<app, up, advertising, led, current_conn>>

(* smp_svr_demo: start_smp_bluetooth_adverts and bt_ready.                      *)
SmpEnable ==
  /\ app = "smp_svr_demo" /\ ~up
  /\ up' = TRUE
  /\ workq' = Submit(workq, "advertise")
  /\ UNCHANGED <<app, object, advertising, current_conn, led, history>>

(* connected(), and disconnected(), which only logs.                            *)
SmpLink(o) ==
  /\ app = "smp_svr_demo"
  /\ \/ Opens(o) /\ UNCHANGED workq
     \/ Closes(o, "advertising") /\ workq' = Submit(workq, "advertise")
     \/ Closes(o, "connected") /\ UNCHANGED workq
  /\ UNCHANGED <<app, up, advertising, current_conn, led, history>>

-------------------------------------------------------------------------------
\* Fault: nobody hears that an object is free again.
RecycledUnnoticed(o) ==
  /\ object[o] = "closing"
  /\ object' = [object EXCEPT ![o] = "free"]
  /\ UNCHANGED <<app, up, workq, advertising, current_conn, led, history>>

\* Fault: every program has the on_conn_recycled of IoT/client.
RecycledAdvertises(o) ==
  /\ object[o] = "closing"
  /\ object' = [object EXCEPT ![o] = "free"]
  /\ workq' = Submit(workq, "advertise")
  /\ UNCHANGED <<app, up, advertising, current_conn, led, history>>

(* The stack recycles an object: on_conn_recycled, where there is one.          *)
Recycled(o) ==
  /\ object[o] = "closing"
  /\ object' = [object EXCEPT ![o] = "free"]
  /\ workq' = IF app \in Again THEN Submit(workq, "advertise") ELSE workq
  /\ UNCHANGED <<app, up, advertising, current_conn, led, history>>

(* The system work queue takes its oldest work.                                 *)
Taken(work) ==
  /\ ~advertising
  /\ workq # <<>> /\ Head(workq) = work
  /\ workq' = Tail(workq)

(* on_ble_connect and on_ble_disconnect.                                        *)
SwitchLed ==
  /\ \/ Taken("on_connect") /\ led' = TRUE
     \/ Taken("on_disconnect") /\ led' = FALSE
  /\ UNCHANGED <<app, object, up, advertising, current_conn, history>>

(* advertise is called ...                                                      *)
TakeAdvertise ==
  /\ Taken("advertise")
  /\ advertising' = TRUE
  /\ UNCHANGED <<app, object, up, current_conn, led, history>>

(* ... and done.                                                                *)
Advertise ==
  /\ advertising
  /\ advertising' = FALSE
  /\ AdvStart
  /\ UNCHANGED <<app, up, workq, current_conn, led, history>>

Enable == TempEnable \/ RouterEnable \/ ClientEnable \/ SmpEnable

Next ==
  \/ Enable \/ SwitchLed \/ TakeAdvertise \/ Advertise
  \/ \E o \in Objects :
       \/ TempConnected(o) \/ TempDisconnected(o) \/ RouterLink(o)
       \/ ClientConnected(o) \/ ClientDisconnected(o) \/ SmpLink(o) \/ Recycled(o)

(* The queue's thread runs, the stack recycles, and main gets to the end.       *)
Fairness ==
  /\ WF_vars(Enable)
  /\ WF_vars(SwitchLed) /\ WF_vars(TakeAdvertise) /\ WF_vars(Advertise)
  /\ \A o \in Objects : WF_vars(Recycled(o))

Spec == Init /\ [][Next]_vars /\ Fairness

-------------------------------------------------------------------------------
LedSettled == "on_connect" \notin ToSet(workq) /\ "on_disconnect" \notin ToSet(workq)

(* Whatever else the work queue has run, the LED shows what the stack last      *)
(* reported, unless that report found its work queued already, before the       *)
(* opposite one. A failed connection counts as a report of IoT/client: it       *)
(* lights the LED.                                                              *)
LedWrongOnlyIfMerged ==
  LedSettled /\ ~merged => (led <=> last \in {"connected", "failed"})

(* A program that advertises once has one connection in its life: when it has   *)
(* stopped advertising, because a peer has connected or failed to, it never     *)
(* advertises again, and when the connection has ended it never has another.    *)
OneConnectionOnly ==
  [][up /\ app \in Once /\ ~Is("advertising") =>
       /\ ~Is("advertising")'
       /\ Is("connected")' => Is("connected")]_vars

(* coap_ed_temp holds a reference exactly to the connected objects, and when    *)
(* the work queue has switched the LED, the LED is lit exactly if there is one. *)
TempConnectionShown ==
  app = "coap_ed_temp" =>
    /\ current_conn = {o \in Objects : object[o] = "connected"}
    /\ LedSettled => (led <=> Is("connected"))

(* The others can be found again after whatever happened to their connections.  *)
FoundAgain ==
  app \in Again => []<>(Is("advertising") \/ Is("connected"))

===============================================================================
