------------------------------ MODULE CoapClient ------------------------------
(* The CoAP client of a Thread end device, iot_coap_client_utils.c with the     *)
(* copies of it in coap_ed_temp and coap_end_device: the work items of its      *)
(* queue, the connection it believes in, its two LEDs, and the poll period it   *)
(* shortens while it waits for a provisioning reply.                            *)
(*                                                                              *)
(* Actors: the OpenThread thread, cooperative, which announces role changes and *)
(* whose callback is therefore one step; the callers of the API (Bluetooth      *)
(* commands, button 3); the work queue, which any more urgent thread may        *)
(* interrupt; and the thread that delivers CoAP replies, which belongs to a     *)
(* library and whose place above or below the work queue is a parameter.        *)
(* What a light request carries and the address a reply holds are left out.     *)
EXTENDS Naturals, Sequences, Functions

CONSTANTS
  Commands,        \* the API calls made: a subset of the works below
  Slots,           \* replies the CoAP library can wait for
  MaxPending,      \* bound: works pending at once when a caller adds one
  ReplyPreempts    \* the reply thread is more urgent than the work queue

Links == {"connect", "disconnect"}
Requests == {"unicast", "multicast", "provisioning"}
Works == Links \cup Requests \cup {"toggle"}

ASSUME CommandsAssumption == Commands \subseteq Requests \cup {"toggle"}
ASSUME SlotsAssumption == Slots \in Nat \ {0}
ASSUME MaxPendingAssumption == MaxPending \in Nat \ {0}
ASSUME ReplyPreemptsAssumption == ReplyPreempts \in BOOLEAN

Default == "default"      \* CONFIG_OPENTHREAD_POLL_PERIOD, 3000 ms
Response == "response"    \* RESPONSE_POLL_PERIOD, 100 ms
Zero == "zero"            \* poll_period holds no saved period

VARIABLES
  attached,       \* the OpenThread role: child, router or leader
  announced,      \* OT_CHANGED_THREAD_ROLE is waiting for its callback
  is_connected,
  pending,        \* coap_client_workq, oldest first
  running,        \* the work being run, or "none"
  at,             \* where in it: "start", and the later steps of a work
  ot_led, mtd_led,
  med,            \* mRxOnWhenIdle: minimal, not sleepy, end device
  poll_period,    \* the saved period
  link_poll,      \* the period the link layer uses
  awaited,        \* requests whose reply may still come
  reply,          \* what the reply thread does: "idle", "restore", "clear"
  merged,         \* history: the last change of link found its work pending
  overtaken       \* history: a restore ran between saving and shortening

device == <<ot_led, mtd_led, med>>
poll == <<poll_period, link_poll>>
link == <<attached, announced, is_connected, merged>>
vars == <<link, pending, running, at, device, poll, awaited, reply, overtaken>>

TypeOK ==
  /\ attached \in BOOLEAN /\ announced \in BOOLEAN /\ is_connected \in BOOLEAN
  /\ pending \in Seq(Works) /\ IsInjective(pending)
  /\ running \in Works \cup {"none"}
  /\ at \in {"start", "shorten", "send", "show"}
  /\ ot_led \in BOOLEAN /\ mtd_led \in BOOLEAN /\ med \in BOOLEAN
  /\ poll_period \in {Zero, Default, Response} /\ link_poll \in {Default, Response}
  /\ awaited \in 0 .. Slots
  /\ reply \in {"idle", "restore", "clear"}
  /\ merged \in BOOLEAN /\ overtaken \in BOOLEAN

(* After coap_client_utils_init: sleepy, its LEDs off, not attached.            *)
Init ==
  /\ attached = FALSE /\ announced = FALSE /\ is_connected = FALSE
  /\ pending = <<>> /\ running = "none" /\ at = "start"
  /\ ot_led = FALSE /\ mtd_led = FALSE /\ med = FALSE
  /\ poll_period = Zero /\ link_poll = Default
  /\ awaited = 0 /\ reply = "idle"
  /\ merged = FALSE /\ overtaken = FALSE

IsPending(w) == \E i \in DOMAIN pending : pending[i] = w

(* k_work_submit_to_queue: a work that is pending keeps its place.              *)
Queued(w) == IF IsPending(w) THEN pending ELSE Append(pending, w)

(* Which of the two interruptible threads has the processor.                    *)
QueueRuns == ReplyPreempts => reply = "idle"
ReplyRuns == ReplyPreempts \/ running = "none" \/ at = "send"

-------------------------------------------------------------------------------
(* OpenThread changes role; between roles of the same kind too.                 *)
ChangeRole ==
  /\ attached' \in BOOLEAN
  /\ announced' = TRUE
  /\ UNCHANGED <<is_connected, merged, pending, running, at, device, poll, awaited, reply, overtaken>>

\* Fault: the roles without a connection submit no work.
OnlyConnectSubmitted ==
  /\ announced
  /\ announced' = FALSE
  /\ IF attached THEN pending' = Queued("connect") /\ merged' = IsPending("connect")
                 ELSE UNCHANGED pending /\ merged' = FALSE
  /\ is_connected' = attached
  /\ UNCHANGED <<attached, running, at, device, poll, awaited, reply, overtaken>>

(* on_thread_state_changed: it looks at the role OpenThread has by now.         *)
StateChanged ==
  /\ announced
  /\ announced' = FALSE
  /\ LET w == IF attached THEN "connect" ELSE "disconnect"
     IN  pending' = Queued(w) /\ merged' = IsPending(w)
  /\ is_connected' = attached
  /\ UNCHANGED <<attached, running, at, device, poll, awaited, reply, overtaken>>

(* submit_work_if_connected looks at the connection now, not when the work runs.*)
Accepts(w) == w = "toggle" \/ is_connected

(* The four calls of the API; the toggle is not gated.                          *)
Call(w) ==
  /\ Len(pending) < MaxPending
  /\ Accepts(w)
  /\ pending' = Queued(w)
  /\ UNCHANGED <<link, running, at, device, poll, awaited, reply, overtaken>>

-------------------------------------------------------------------------------
(* The work queue takes the oldest work, which may be submitted again at once.  *)
Take ==
  /\ QueueRuns
  /\ running = "none" /\ pending # <<>>
  /\ running' = Head(pending) /\ pending' = Tail(pending)
  /\ at' = "start"
  /\ UNCHANGED <<link, device, poll, awaited, reply, overtaken>>

Working(w, step) == QueueRuns /\ running = w /\ at = step

Done == running' = "none" /\ at' = "start"

(* on_ot_connect and on_ot_disconnect.                                          *)
ShowLink(w) ==
  /\ Working(w, "start")
  /\ ot_led' = (w = "connect")
  /\ Done
  /\ UNCHANGED <<link, pending, mtd_led, med, poll, awaited, reply, overtaken>>

\* Fault: the mode is shown whether OpenThread takes it or not.
ShowThenToggle ==
  /\ Working("toggle", "start")
  /\ mtd_led' = ~med
  /\ med' \in BOOLEAN
  /\ Done
  /\ UNCHANGED <<link, pending, ot_led, poll, awaited, reply, overtaken>>

(* toggle_minimal_sleepy_end_device, under the OpenThread mutex; OpenThread may *)
(* refuse the mode, and then nothing is shown.                                  *)
ToggleMode ==
  /\ Working("toggle", "start")
  /\ \/ med' = ~med /\ at' = "show" /\ UNCHANGED running
     \/ Done /\ UNCHANGED med
  /\ UNCHANGED <<link, pending, ot_led, mtd_led, poll, awaited, reply, overtaken>>

(* on_mtd_mode_toggle, after the mutex is given back, on a board whose console  *)
(* came up (else the handler returns before it sets the LED).                   *)
ShowMode ==
  /\ Working("toggle", "show")
  /\ mtd_led' = med
  /\ Done
  /\ UNCHANGED <<link, pending, ot_led, med, poll, awaited, reply, overtaken>>

(* toggle_one_light and toggle_mesh_lights: a request without a reply, or none  *)
(* when no address is known; the send may block.                                *)
SendLight(w) ==
  /\ w \in {"unicast", "multicast"}
  /\ Working(w, "start")
  /\ Done
  /\ UNCHANGED <<link, pending, device, poll, awaited, reply, overtaken>>

\* Fault: the period is saved although one is saved already.
SaveAlways ==
  /\ Working("provisioning", "start")
  /\ \/ ~med /\ poll_period' = link_poll /\ at' = "shorten"
     \/ med /\ at' = "send" /\ UNCHANGED poll_period
  /\ UNCHANGED <<link, pending, running, device, link_poll, awaited, reply, overtaken>>

(* poll_period_response_set, up to the saved period.                            *)
SavePeriod ==
  /\ Working("provisioning", "start")
  /\ \/ ~med /\ poll_period = Zero /\ poll_period' = link_poll /\ at' = "shorten"
     \/ (med \/ poll_period # Zero) /\ at' = "send" /\ UNCHANGED poll_period
  /\ UNCHANGED <<link, pending, running, device, link_poll, awaited, reply, overtaken>>

(* ... and from the saved period on.                                            *)
ShortenPeriod ==
  /\ Working("provisioning", "shorten")
  /\ link_poll' = Response /\ at' = "send"
  /\ UNCHANGED <<link, pending, running, device, poll_period, awaited, reply, overtaken>>

(* send_provisioning_request: the result of coap_send_request is ignored, so a  *)
(* request that cannot be sent or has no reply slot ends like one that is sent. *)
SendProvisioning ==
  /\ Working("provisioning", "send")
  /\ Done
  /\ \/ awaited < Slots /\ awaited' = awaited + 1
     \/ UNCHANGED awaited
  /\ UNCHANGED <<link, pending, device, poll, reply, overtaken>>

-------------------------------------------------------------------------------
(* on_provisioning_reply: any awaited reply, late or not, valid or not; a       *)
(* multicast request may be answered more than once. A lost reply never comes.  *)
ReplyArrives ==
  /\ ReplyRuns
  /\ reply = "idle" /\ awaited > 0
  /\ awaited' \in {awaited - 1, awaited}
  /\ reply' = "restore"
  /\ UNCHANGED <<link, pending, running, at, device, poll, overtaken>>

(* poll_period_restore up to otLinkSetPollPeriod.                               *)
RestorePeriod ==
  /\ ReplyRuns
  /\ reply = "restore"
  /\ \/ ~med /\ poll_period # Zero /\ link_poll' = poll_period /\ reply' = "clear"
     \/ (med \/ poll_period = Zero) /\ reply' = "idle" /\ UNCHANGED link_poll
  /\ UNCHANGED <<link, pending, running, at, device, poll_period, awaited, overtaken>>

(* ... and its last assignment.                                                 *)
ClearPeriod ==
  /\ ReplyRuns
  /\ reply = "clear"
  /\ poll_period' = Zero /\ reply' = "idle"
  /\ overtaken' = (overtaken \/ at = "shorten")
  /\ UNCHANGED <<link, pending, running, at, device, link_poll, awaited>>

Next ==
  \/ ChangeRole \/ StateChanged
  \/ \E w \in Commands : Call(w)
  \/ Take
  \/ \E w \in Links : ShowLink(w)
  \/ ToggleMode \/ ShowMode
  \/ \E w \in Requests : SendLight(w)
  \/ SavePeriod \/ ShortenPeriod \/ SendProvisioning
  \/ ReplyArrives \/ RestorePeriod \/ ClearPeriod

Spec == Init /\ [][Next]_vars

-------------------------------------------------------------------------------
NoLinkWork ==
  running \notin Links /\ \A w \in Links : ~IsPending(w)

(* README of coap_ed_temp, line 69: the connection LED is "On when the          *)
(* OpenThread connection is established". Once the works of the last role       *)
(* change have run, the LED and is_connected agree. The code does not keep      *)
(* this: of connect, disconnect, connect behind a busy queue the third is       *)
(* merged with the first, and the disconnect is run last.                       *)
LedShowsConnection == NoLinkWork => ot_led = is_connected

(* What the code does keep: the LED is wrong only if the last role change       *)
(* submitted a work that was still pending, and merged with it.                 *)
LedWrongOnlyIfMerged == NoLinkWork /\ ~merged => ot_led = is_connected

(* README of coap_ed_temp, lines 106-107: the third LED is on in MED mode and   *)
(* off in SED mode, whatever else the queue runs and if OpenThread refuses a    *)
(* mode.                                                                        *)
LedShowsMode == at # "show" => mtd_led = med

(* The device does not forget its own poll period: what is saved is the         *)
(* configured period, and with nothing saved the link uses the configured one.  *)
PeriodKept ==
  /\ poll_period # Response
  /\ poll_period = Zero => link_poll = Default
  /\ link_poll = Response => poll_period = Default

(* It forgets it in one way only, when replies preempt the work queue: a late   *)
(* reply restores the period after poll_period_response_set saved it and        *)
(* before it shortened it. From then on 100 ms is what is saved and restored.   *)
PeriodLostOnlyIfOvertaken == overtaken \/ PeriodKept

===============================================================================
