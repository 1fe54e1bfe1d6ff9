------------------------------- MODULE CrsLink --------------------------------
(* The CRS service (crs/crs.c) on the link of BleLink: who listens to the       *)
(* service, what the peers have subscribed to, whether crs_ble.c knows it, and  *)
(* how a write to the control point is answered.                                *)
(*                                                                              *)
(* ble_thread registers crs_cb only after bt_enable has been called, so a peer  *)
(* can be there first. The stack is modelled from its use: it keeps a CCC value *)
(* for each peer, reports their maximum when it changes, and clears a peer's    *)
(* value before it reports the disconnection.                                   *)
EXTENDS BleLink, Integers, Sequences, SequencesExt

CONSTANTS
  Handlers,       \* listeners with a ctrl_point_write; crs_cb has none
  Ccc             \* the values a peer writes to its CCC descriptor

BT_GATT_CCC_NOTIFY == 1         \* 2 asks for indications, 3 for both

ASSUME CrsAssumption == "crs_cb" \notin Handlers /\ {0} \subseteq Ccc /\ Ccc \subseteq 0 .. 3

VARIABLES
  crs_cbs,          \* the registered listeners, in order
  ccc,              \* the CCC value of each peer, by its connection object
  crf_ntf_enabled,  \* of crs_ble.c
  missed,           \* history: the last report of the CCC values met no crs_cb
  answer            \* history: the results of the listeners asked by the last
                    \* write to the control point, and its answer

crsVars == <<crs_cbs, ccc, crf_ntf_enabled, missed, answer>>
allVars == <<vars, crsVars>>

Listener == Handlers \cup {"crs_cb"}
Result == {"served", "ENOTSUP", "error"}
Reply == {"len", "NOT_SUPPORTED", "UNLIKELY"}
NoWrite == [asked |-> <<>>, reply |-> "NOT_SUPPORTED"]

CrsTypeOK ==
  /\ TypeOK
  /\ crs_cbs \in Seq(Listener) /\ IsInjective(crs_cbs)
  /\ ccc \in [Objects -> Ccc]
  /\ crf_ntf_enabled \in BOOLEAN /\ missed \in BOOLEAN
  /\ answer.asked \in Seq(Result) /\ answer.reply \in Reply

CrsInit ==
  /\ Init
  /\ crs_cbs = <<>>
  /\ ccc = [o \in Objects |-> 0]
  /\ crf_ntf_enabled = FALSE /\ missed = FALSE
  /\ answer = NoWrite

registered == "crs_cb" \in ToSet(crs_cbs)

-------------------------------------------------------------------------------
(* bt_crs_cb_register: every caller registers once. ble_thread's call follows   *)
(* bt_enable, which does not wait for bt_ready.                                 *)
Register(l) ==
  /\ l \notin ToSet(crs_cbs)
  /\ crs_cbs' = Append(crs_cbs, l)
  /\ UNCHANGED <<vars, ccc, crf_ntf_enabled, missed, answer>>

(* bt_crs_cb_unregister; crs_ble.c never takes crs_cb out.                      *)
Unregister(l) ==
  /\ l \in Handlers
  /\ \E i \in DOMAIN crs_cbs : crs_cbs[i] = l /\ crs_cbs' = RemoveAt(crs_cbs, i)
  /\ UNCHANGED <<vars, ccc, crf_ntf_enabled, missed, answer>>

\* Fault: whatever the peers write counts as a subscription.
NtfChangedToAny(value) ==
  crf_ntf_enabled' = IF registered THEN value # 0 ELSE crf_ntf_enabled

(* crmc_ccc_cfg_changed tells the listeners; crs_ntf_changed is crs_cb's.       *)
NtfChanged(value) ==
  crf_ntf_enabled' = IF registered THEN value = BT_GATT_CCC_NOTIFY ELSE crf_ntf_enabled

(* The summary of the peers' CCC values, as the stack reports it.               *)
Highest(values) == Max({values[o] : o \in Objects})

(* The stack has a new CCC value of the peer on object o.                       *)
CccChanged(o, value) ==
  /\ ccc' = [ccc EXCEPT ![o] = value]
  /\ IF Highest(ccc') = Highest(ccc) THEN UNCHANGED <<crf_ntf_enabled, missed>>
     ELSE NtfChanged(Highest(ccc')) /\ missed' = ~registered

(* A connected peer writes the CCC descriptor.                                  *)
Subscribe(o, value) ==
  /\ object[o] = "connected"
  /\ value # ccc[o]
  /\ CccChanged(o, value)
  /\ UNCHANGED <<vars, crs_cbs, answer>>

(* The peer goes: its subscription is cleared, then disconnected() runs.        *)
PeerGone(o) ==
  /\ Disconnected(o)
  /\ CccChanged(o, 0)
  /\ UNCHANGED <<crs_cbs, answer>>

(* crs_notify and bt_crs_notify: whom a frame of the pipeline reaches for sure   *)
(* (the stack decides about those that asked for indications as well).          *)
Notified ==
  {o \in Objects : crf_ntf_enabled /\ object[o] = "connected" /\ ccc[o] = BT_GATT_CCC_NOTIFY}

-------------------------------------------------------------------------------
(* What ctrl_point_write can collect from n listeners with a handler: it asks   *)
(* them in order, and none after an error other than ENOTSUP.                   *)
Collect(n) ==
  {asked \in UNION {[1 .. k -> Result] : k \in 0 .. n} :
     /\ \A i \in 1 .. Len(asked) - 1 : asked[i] # "error"
     /\ Len(asked) < n => asked # <<>> /\ Last(asked) = "error"}

(* Its answer: err is what the last asked listener returned.                    *)
Answer(asked) ==
  CASE asked = <<>>                -> "NOT_SUPPORTED"
    [] asked # <<>> /\ Last(asked) = "error"   -> "UNLIKELY"
    [] asked # <<>> /\ Last(asked) = "ENOTSUP" -> "NOT_SUPPORTED"
    [] OTHER                       -> "len"

(* The peer writes the control point.                                           *)
ControlPointWrite ==
  /\ Is("connected")
  /\ LET handlers == {i \in DOMAIN crs_cbs : crs_cbs[i] \in Handlers}
     IN  \E asked \in Collect(Cardinality(handlers)) :
           answer' = [asked |-> asked, reply |-> Answer(asked)]
  /\ UNCHANGED <<vars, crs_cbs, ccc, crf_ntf_enabled, missed>>

-------------------------------------------------------------------------------
(* ble_thread enters its loop when crs_cb is registered.                        *)
LoopTestAndClear == registered /\ TestAndClear

LinkStep ==
  \/ BtReady \/ TakeWork \/ Advertise \/ LoopTestAndClear \/ StartAgain
  \/ \E o \in Objects : Connected(o) \/ ConnectFailed(o) \/ Recycled(o)

CrsNext ==
  \/ LinkStep /\ UNCHANGED crsVars
  \/ \E o \in Objects : PeerGone(o)
  \/ \E l \in Listener : Register(l) \/ Unregister(l)
  \/ \E o \in Objects, value \in Ccc : Subscribe(o, value)
  \/ ControlPointWrite

(* As in BleLink; ble_thread gets to the end of crs_ble_init.                   *)
CrsFairness ==
  /\ WF_allVars(BtReady /\ UNCHANGED crsVars) /\ WF_allVars(TakeWork /\ UNCHANGED crsVars)
  /\ WF_allVars(Advertise /\ UNCHANGED crsVars)
  /\ WF_allVars(LoopTestAndClear /\ UNCHANGED crsVars)
  /\ WF_allVars(StartAgain /\ UNCHANGED crsVars)
  /\ WF_allVars(Register("crs_cb"))
  /\ \A o \in Objects : WF_allVars(Recycled(o) /\ UNCHANGED crsVars)

CrsSpec == CrsInit /\ [][CrsNext]_allVars /\ CrsFairness

-------------------------------------------------------------------------------
(* crs_ble.c hands frames to the stack only while a peer subscribes, and a      *)
(* subscriber gets none only if the subscriptions changed last before crs_cb    *)
(* was registered, or if some peer has asked for indications, too.              *)
FlagFollowsPeers ==
  /\ crf_ntf_enabled => Notified # {}
  /\ \A o \in Objects : ccc[o] = BT_GATT_CCC_NOTIFY /\ o \notin Notified
       => missed \/ \E k \in Objects : ccc[k] > BT_GATT_CCC_NOTIFY

(* crs.h: a listener that returns 0 has handled the request, and ENOTSUP only   *)
(* passes it on to the others; so a request that one listener served and none   *)
(* failed is answered as served. In the code the answer is that of the last     *)
(* listener, and one that passes it on after another has served it refuses it.  *)
ServedIsAnswered ==
  LET asked == ToSet(answer.asked)
  IN  "served" \in asked /\ "error" \notin asked => answer.reply = "len"

===============================================================================
