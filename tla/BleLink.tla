------------------------------- MODULE BleLink --------------------------------
(* crs_ble.c: who starts advertising, and whether a device that lost its peer   *)
(* is found again. Four places start it independently of one another: bt_ready, *)
(* a failed connection and a recycled connection object through one work item,  *)
(* and ble_thread, which looks at STATE_DISCONNECTED every millisecond. None of *)
(* them tries again when bt_le_adv_start refuses.                               *)
(*                                                                              *)
(* The Bluetooth stack is modelled from its use: advertising holds a connection *)
(* object, which becomes the connection; after it is closed the object is in    *)
(* use until the stack has recycled it. STATE_CONNECTED is never read and left  *)
(* out, and so are the radio parameters and the subscription.                   *)

CONSTANT Objects        \* the connection objects, CONFIG_BT_MAX_CONN of them

ASSUME ObjectsAssumption == Objects # {}

VARIABLES
  object,           \* what each object is used for
  ready,            \* bt_enable is done: bt_ready has run
  queued,           \* advertise_work is in the system work queue
  running,          \* advertise_work has been taken, and has yet to advertise
  disconnected,     \* STATE_DISCONNECTED
  starting          \* ble_thread has cleared it and is about to advertise

work == <<queued, running>>
vars == <<object, ready, work, disconnected, starting>>

TypeOK ==
  /\ object \in [Objects -> {"free", "advertising", "connected", "closing"}]
  /\ ready \in BOOLEAN
  /\ queued \in BOOLEAN /\ running \in BOOLEAN
  /\ disconnected \in BOOLEAN /\ starting \in BOOLEAN

Init ==
  /\ object = [o \in Objects |-> "free"]
  /\ ready = FALSE
  /\ queued = FALSE /\ running = FALSE
  /\ disconnected = FALSE /\ starting = FALSE

Is(use) == \E o \in Objects : object[o] = use

(* bt_le_adv_start: refused while advertising (-EALREADY) and when every object *)
(* is in use (-ENOMEM).                                                         *)
AdvStart ==
  \/ /\ ~Is("advertising")
     /\ \E o \in Objects : object[o] = "free" /\ object' = [object EXCEPT ![o] = "advertising"]
  \/ /\ Is("advertising") \/ ~Is("free")
     /\ UNCHANGED object

(* k_work_submit: queued once, again if it runs.                                *)
SubmitAdvertise == queued' = TRUE /\ UNCHANGED running

-------------------------------------------------------------------------------
\* Fault: bt_ready leaves the first advertising to ble_thread.
ReadyQuietly ==
  /\ ~ready
  /\ ready' = TRUE
  /\ UNCHANGED <<object, work, disconnected, starting>>

(* bt_ready, without an error.                                                  *)
BtReady ==
  /\ ~ready
  /\ ready' = TRUE
  /\ SubmitAdvertise
  /\ UNCHANGED <<object, disconnected, starting>>

(* The system work queue takes the work ...                                     *)
TakeWork ==
  /\ queued /\ ~running
  /\ queued' = FALSE /\ running' = TRUE
  /\ UNCHANGED <<object, ready, disconnected, starting>>

(* ... and runs advertise.                                                      *)
Advertise ==
  /\ running
  /\ AdvStart
  /\ running' = FALSE
  /\ UNCHANGED <<ready, queued, disconnected, starting>>

(* connected(), without an error: nothing that matters here.                    *)
Connected(o) ==
  /\ object[o] = "advertising"
  /\ object' = [object EXCEPT ![o] = "connected"]
  /\ UNCHANGED <<ready, work, disconnected, starting>>

(* connected() with an error: the object is not recycled yet.                   *)
ConnectFailed(o) ==
  /\ object[o] = "advertising"
  /\ object' = [object EXCEPT ![o] = "closing"]
  /\ SubmitAdvertise
  /\ UNCHANGED <<ready, disconnected, starting>>

(* disconnected().                                                              *)
Disconnected(o) ==
  /\ object[o] = "connected"
  /\ object' = [object EXCEPT ![o] = "closing"]
  /\ disconnected' = TRUE
  /\ UNCHANGED <<ready, work, starting>>

\* Fault: the callback of a recycled object is missing.
RecycledUnnoticed(o) ==
  /\ object[o] = "closing"
  /\ object' = [object EXCEPT ![o] = "free"]
  /\ UNCHANGED <<ready, work, disconnected, starting>>

(* on_conn_recycled, once the object can be used again.                         *)
Recycled(o) ==
  /\ object[o] = "closing"
  /\ object' = [object EXCEPT ![o] = "free"]
  /\ SubmitAdvertise
  /\ UNCHANGED <<ready, disconnected, starting>>

(* disconnect_option in ble_thread: test and clear the bit ...                  *)
TestAndClear ==
  /\ ~starting /\ disconnected
  /\ disconnected' = FALSE /\ starting' = TRUE
  /\ UNCHANGED <<object, ready, work>>

(* ... and advertise, once.                                                     *)
StartAgain ==
  /\ starting
  /\ AdvStart
  /\ starting' = FALSE
  /\ UNCHANGED <<ready, work, disconnected>>

Next ==
  \/ BtReady \/ TakeWork \/ Advertise \/ TestAndClear \/ StartAgain
  \/ \E o \in Objects : Connected(o) \/ ConnectFailed(o) \/ Disconnected(o) \/ Recycled(o)

(* The stack recycles what it closed; queue and thread run. Nobody need ever    *)
(* connect, and a connection may last.                                          *)
Fairness ==
  /\ WF_vars(BtReady) /\ WF_vars(TakeWork) /\ WF_vars(Advertise)
  /\ WF_vars(TestAndClear) /\ WF_vars(StartAgain)
  /\ \A o \in Objects : WF_vars(Recycled(o))

Spec == Init /\ [][Next]_vars /\ Fairness

-------------------------------------------------------------------------------
(* A device that is neither connected nor advertising has something under way   *)
(* that will start advertising: whatever attempt failed for want of an object   *)
(* is followed by another when the object is free.                              *)
NeverSilent ==
  \/ ~ready \/ Is("connected") \/ Is("advertising") \/ Is("closing")
  \/ queued \/ running \/ disconnected \/ starting

(* Such a device is advertising, or connected, in the end.                      *)
FoundAgain == []<>(Is("advertising") \/ Is("connected"))

===============================================================================
