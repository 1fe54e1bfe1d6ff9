--------------------------- MODULE CoapClientProofs ---------------------------
(* What holds of CoapClient for every set of commands, every number of reply    *)
(* slots and every bound on the queue.                                          *)
EXTENDS CoapClient, TLAPS

USE CommandsAssumption, SlotsAssumption, MaxPendingAssumption, ReplyPreemptsAssumption

(* k_work_submit_to_queue keeps the queue a sequence of works without repeats.  *)
LEMMA QueuedType ==
  ASSUME NEW w \in Works, pending \in Seq(Works), IsInjective(pending)
  PROVE  Queued(w) \in Seq(Works) /\ IsInjective(Queued(w))
<1>1. CASE IsPending(w)
  BY <1>1 DEF Queued
<1>2. CASE ~IsPending(w)
  <2> DEFINE q == Append(pending, w)
  <2>1. q \in Seq(Works) /\ DOMAIN q = 1 .. Len(pending) + 1 /\ q[Len(pending) + 1] = w
    OBVIOUS
  <2>2. DOMAIN pending = 1 .. Len(pending) /\ \A i \in 1 .. Len(pending) : q[i] = pending[i]
    OBVIOUS
  <2>3. \A i \in 1 .. Len(pending) : pending[i] # w
    BY <1>2, <2>2 DEF IsPending
  <2>4. IsInjective(q)
    BY <2>1, <2>2, <2>3 DEF IsInjective
  <2> QED
    BY <1>2, <2>1, <2>4 DEF Queued
<1> QED
  BY <1>1, <1>2

(* Taking the oldest work keeps it so, too.                                     *)
LEMMA TakenType ==
  ASSUME pending \in Seq(Works), IsInjective(pending), pending # <<>>
  PROVE  /\ Head(pending) \in Works
         /\ Tail(pending) \in Seq(Works)
         /\ IsInjective(Tail(pending))
<1>1. DOMAIN pending = 1 .. Len(pending) /\ Len(pending) \in Nat /\ Len(pending) > 0
  OBVIOUS
<1>2. /\ Tail(pending) \in Seq(Works)
      /\ DOMAIN Tail(pending) = 1 .. Len(pending) - 1
      /\ \A i \in 1 .. Len(pending) - 1 : Tail(pending)[i] = pending[i + 1]
  BY <1>1
<1>3. IsInjective(Tail(pending))
  BY <1>1, <1>2 DEF IsInjective
<1> QED
  BY <1>2, <1>3

(* Types are kept by every step of the client.                                  *)
LEMMA TypeStep == TypeOK /\ [Next]_vars => TypeOK'
<1> SUFFICES ASSUME TypeOK, [Next]_vars PROVE TypeOK'
  OBVIOUS
<1> USE DEF TypeOK, Done, Working
<1>1. CASE ChangeRole
  BY <1>1 DEF ChangeRole, device, poll
<1>2. CASE StateChanged
  <2> DEFINE w == IF attached THEN "connect" ELSE "disconnect"
  <2>1. w \in Works
    BY DEF Works, Links
  <2>2. pending' = Queued(w) /\ merged' = IsPending(w)
    BY <1>2 DEF StateChanged
  <2>3. pending' \in Seq(Works) /\ IsInjective(pending')
    BY <2>1, <2>2, QueuedType
  <2>4. merged' \in BOOLEAN
    BY <2>2 DEF IsPending
  <2>5. announced' \in BOOLEAN /\ is_connected' \in BOOLEAN
    BY <1>2 DEF StateChanged
  <2>6. UNCHANGED <<attached, running, at, device, poll, awaited, reply, overtaken>>
    BY <1>2 DEF StateChanged
  <2> HIDE DEF w
  <2> QED
    BY <2>3, <2>4, <2>5, <2>6 DEF device, poll
<1>3. CASE \E w \in Commands : Call(w)
  <2>1. pending' \in Seq(Works) /\ IsInjective(pending')
    BY <1>3, QueuedType DEF Call, Works
  <2> QED
    BY <1>3, <2>1 DEF Call, link, device, poll
<1>4. CASE Take
  BY <1>4, TakenType DEF Take, link, device, poll
<1>5. CASE \E w \in Links : ShowLink(w)
  <2>1. ot_led' \in BOOLEAN
    BY <1>5 DEF ShowLink
  <2> QED
    BY <1>5, <2>1 DEF ShowLink, link, poll
<1>6. CASE ToggleMode
  <2>1. med' \in BOOLEAN
    BY <1>6 DEF ToggleMode
  <2> QED
    BY <1>6, <2>1 DEF ToggleMode, link, poll
<1>7. CASE ShowMode
  BY <1>7 DEF ShowMode, link, poll
<1>8. CASE \E w \in Requests : SendLight(w)
  BY <1>8 DEF SendLight, link, device, poll
<1>9. CASE SavePeriod
  BY <1>9 DEF SavePeriod, link, device
<1>10. CASE ShortenPeriod
  BY <1>10 DEF ShortenPeriod, link, device
<1>11. CASE SendProvisioning
  BY <1>11 DEF SendProvisioning, link, device, poll
<1>12. CASE ReplyArrives
  BY <1>12 DEF ReplyArrives, link, device, poll
<1>13. CASE RestorePeriod
  BY <1>13 DEF RestorePeriod, link, device
<1>14. CASE ClearPeriod
  <2>1. overtaken' \in BOOLEAN
    BY <1>14 DEF ClearPeriod
  <2> QED
    BY <1>14, <2>1 DEF ClearPeriod, link, device
<1>15. CASE UNCHANGED vars
  BY <1>15 DEF vars, link, device, poll
<1> QED
  BY <1>1, <1>2, <1>3, <1>4, <1>5, <1>6, <1>7, <1>8, <1>9, <1>10, <1>11, <1>12,
     <1>13, <1>14, <1>15 DEF Next

(* Every variable of the client keeps its type.                                 *)
THEOREM TypeCorrect == Spec => []TypeOK
<1>1. Init => TypeOK
  <2> SUFFICES ASSUME Init PROVE TypeOK
    OBVIOUS
  <2>1. pending \in Seq(Works) /\ IsInjective(pending)
    BY DEF Init, IsInjective
  <2>2. awaited \in 0 .. Slots
    BY DEF Init
  <2> QED
    BY <2>1, <2>2 DEF Init, TypeOK
<1> QED
  BY <1>1, TypeStep, PTL DEF Spec

-------------------------------------------------------------------------------
(* The later steps of a work belong to that work.                               *)
StepsFit ==
  /\ at = "show" => running = "toggle"
  /\ at \in {"shorten", "send"} => running = "provisioning"

LEMMA StepsFitStep == TypeOK /\ StepsFit /\ [Next]_vars => StepsFit'
<1> SUFFICES ASSUME TypeOK, StepsFit, [Next]_vars PROVE StepsFit'
  OBVIOUS
<1> USE DEF StepsFit, Done, Working
<1>1. CASE Next
  BY <1>1 DEF Next, ChangeRole, StateChanged, Call, Take, ShowLink, ToggleMode, ShowMode,
     SendLight, SavePeriod, ShortenPeriod, SendProvisioning, ReplyArrives, RestorePeriod,
     ClearPeriod
<1>2. CASE UNCHANGED vars
  BY <1>2 DEF vars
<1> QED
  BY <1>1, <1>2

(* With it, the mode LED is right whenever the queue is not about to set it.    *)
LEMMA LedShowsModeStep == StepsFit /\ LedShowsMode /\ [Next]_vars => LedShowsMode'
<1> SUFFICES ASSUME StepsFit, LedShowsMode, [Next]_vars PROVE LedShowsMode'
  OBVIOUS
<1> USE DEF LedShowsMode, Done, Working
<1>1. CASE \/ ChangeRole \/ StateChanged \/ \E w \in Commands : Call(w)
           \/ ReplyArrives \/ RestorePeriod \/ ClearPeriod
  BY <1>1 DEF ChangeRole, StateChanged, Call, ReplyArrives, RestorePeriod, ClearPeriod, device
<1>2. CASE Take
  BY <1>2 DEF Take, StepsFit, device
<1>3. CASE \E w \in Links : ShowLink(w)
  BY <1>3 DEF ShowLink
<1>4. CASE ToggleMode
  BY <1>4 DEF ToggleMode
<1>5. CASE ShowMode
  BY <1>5 DEF ShowMode
<1>6. CASE \E w \in Requests : SendLight(w)
  BY <1>6 DEF SendLight, device
<1>7. CASE SavePeriod \/ ShortenPeriod \/ SendProvisioning
  BY <1>7 DEF SavePeriod, ShortenPeriod, SendProvisioning, device
<1>8. CASE UNCHANGED vars
  BY <1>8 DEF vars, device
<1> QED
  BY <1>1, <1>2, <1>3, <1>4, <1>5, <1>6, <1>7, <1>8 DEF Next

(* The third LED shows the mode of the device, for every mix of works.          *)
THEOREM ModeIsShown == Spec => []LedShowsMode
<1>1. Init => StepsFit /\ LedShowsMode
  BY DEF Init, StepsFit, LedShowsMode
<1> QED
  BY <1>1, StepsFitStep, LedShowsModeStep, TypeCorrect, PTL DEF Spec

-------------------------------------------------------------------------------
(* While no restore has run between saving and shortening, the saved period is  *)
(* the configured one, and so is the link's when nothing is saved, in every     *)
(* state between the steps of the two functions.                                *)
PeriodSound ==
  /\ PeriodKept
  /\ reply = "clear" => poll_period = Default /\ link_poll = Default
  /\ at = "shorten" => poll_period = Default
  /\ ReplyPreempts \/ ~(at = "shorten" /\ reply = "clear")

PeriodInv == overtaken \/ PeriodSound

LEMMA PeriodStep ==
  TypeOK /\ StepsFit /\ PeriodInv /\ [Next]_vars => PeriodInv'
<1> SUFFICES ASSUME TypeOK, StepsFit, PeriodInv, [Next]_vars, ~overtaken'
             PROVE  PeriodSound'
  BY DEF PeriodInv
<1>1. ~overtaken
  BY DEF Next, ChangeRole, StateChanged, Call, Take, ShowLink, ToggleMode, ShowMode,
     SendLight, SavePeriod, ShortenPeriod, SendProvisioning, ReplyArrives, RestorePeriod,
     ClearPeriod, vars
<1>2. PeriodSound
  BY <1>1 DEF PeriodInv
<1> USE <1>2 DEF PeriodSound, PeriodKept, Done, Working, Default, Response, Zero
<1>3. CASE \/ ChangeRole \/ StateChanged \/ \E w \in Commands : Call(w)
  BY <1>3 DEF ChangeRole, StateChanged, Call, poll
<1>4. CASE \/ Take \/ ToggleMode \/ ShowMode
           \/ \E w \in Links : ShowLink(w)
           \/ \E w \in Requests : SendLight(w)
  BY <1>4 DEF Take, ShowLink, ToggleMode, ShowMode, SendLight, poll
<1>5. CASE SavePeriod
  BY <1>5 DEF SavePeriod, TypeOK
<1>6. CASE ShortenPeriod
  BY <1>6 DEF ShortenPeriod, QueueRuns
<1>7. CASE SendProvisioning
  BY <1>7 DEF SendProvisioning, poll
<1>8. CASE ReplyArrives
  BY <1>8 DEF ReplyArrives, poll
<1>9. CASE RestorePeriod
  BY <1>9 DEF RestorePeriod, ReplyRuns, StepsFit, TypeOK
<1>10. CASE ClearPeriod
  <2>1. at # "shorten"
    BY <1>10 DEF ClearPeriod
  <2> QED
    BY <1>10, <2>1 DEF ClearPeriod
<1>11. CASE UNCHANGED vars
  BY <1>11 DEF vars, poll
<1> QED
  BY <1>3, <1>4, <1>5, <1>6, <1>7, <1>8, <1>9, <1>10, <1>11 DEF Next

(* However requests, replies and mode changes interleave, the device loses its  *)
(* own poll period only when a late reply overtakes poll_period_response_set.   *)
THEOREM PeriodLostOnce == Spec => []PeriodLostOnlyIfOvertaken
<1>1. Init => StepsFit /\ PeriodInv
  BY DEF Init, StepsFit, PeriodInv, PeriodSound, PeriodKept, Default, Response, Zero
<1>2. PeriodInv => PeriodLostOnlyIfOvertaken
  BY DEF PeriodInv, PeriodSound, PeriodLostOnlyIfOvertaken
<1> QED
  BY <1>1, <1>2, StepsFitStep, PeriodStep, TypeCorrect, PTL DEF Spec

(* When replies do not preempt the work queue, it never does.                   *)
THEOREM PeriodNeverLost == ASSUME ~ReplyPreempts PROVE Spec => []PeriodKept
<1>1. Init => StepsFit /\ PeriodSound /\ ~overtaken
  BY DEF Init, StepsFit, PeriodSound, PeriodKept, Default, Response, Zero
<1>2. TypeOK /\ StepsFit /\ PeriodSound /\ ~overtaken /\ [Next]_vars => ~overtaken'
  <2> SUFFICES ASSUME TypeOK, StepsFit, PeriodSound, ~overtaken, [Next]_vars, overtaken'
               PROVE  FALSE
    OBVIOUS
  <2>1. ClearPeriod
    BY DEF Next, ChangeRole, StateChanged, Call, Take, ShowLink, ToggleMode, ShowMode,
       SendLight, SavePeriod, ShortenPeriod, SendProvisioning, ReplyArrives, RestorePeriod, vars
  <2>2. at = "shorten" /\ reply = "clear"
    BY <2>1 DEF ClearPeriod
  <2> QED
    BY <2>2 DEF PeriodSound
<1>3. TypeOK /\ StepsFit /\ PeriodSound /\ ~overtaken /\ [Next]_vars => PeriodSound'
  BY <1>2, PeriodStep DEF PeriodInv
<1>4. PeriodSound => PeriodKept
  BY DEF PeriodSound
<1> QED
  BY <1>1, <1>2, <1>3, <1>4, StepsFitStep, TypeCorrect, PTL DEF Spec

-------------------------------------------------------------------------------
(* If the last role change was not merged, what it asks of the LED is the last  *)
(* link work in the queue, or is being run with none behind it, or is done.     *)
Wanted == IF is_connected THEN "connect" ELSE "disconnect"

NoLinkPending == \A i \in DOMAIN pending : pending[i] \notin Links

WantedIsLast ==
  \E i \in DOMAIN pending :
    /\ pending[i] = Wanted
    /\ \A j \in DOMAIN pending : j > i => pending[j] \notin Links

LedSound ==
  \/ WantedIsLast
  \/ NoLinkPending /\ running = Wanted
  \/ NoLinkPending /\ running \notin Links /\ ot_led = is_connected

LedInv == merged \/ LedSound

(* Taking the oldest work: it is the wanted one, or that stays in the queue.    *)
LEMMA TakeKeepsLed ==
  ASSUME TypeOK, LedSound, Take
  PROVE  LedSound'
<1>1. DOMAIN pending = 1 .. Len(pending) /\ Len(pending) \in Nat /\ Len(pending) > 0
  BY DEF TypeOK, Take
<1>2. /\ DOMAIN pending' = 1 .. Len(pending) - 1
      /\ \A k \in 1 .. Len(pending) - 1 : pending'[k] = pending[k + 1]
      /\ running' = pending[1]
  BY <1>1 DEF TypeOK, Take
<1>3. Wanted' = Wanted /\ ot_led' = ot_led /\ is_connected' = is_connected
  BY DEF Take, link, device, Wanted
<1>4. Wanted \in Links /\ "none" \notin Links
  BY DEF Wanted, Links
<1>5. CASE WantedIsLast
  <2>1. PICK i \in DOMAIN pending :
          /\ pending[i] = Wanted
          /\ \A j \in DOMAIN pending : j > i => pending[j] \notin Links
    BY <1>5 DEF WantedIsLast
  <2>2. CASE i = 1
    <3>1. NoLinkPending'
      BY <1>1, <1>2, <2>1, <2>2 DEF NoLinkPending
    <3> QED
      BY <3>1, <1>2, <1>3, <2>1, <2>2 DEF LedSound
  <2>3. CASE i # 1
    <3>1. i - 1 \in DOMAIN pending' /\ pending'[i - 1] = Wanted
      BY <1>1, <1>2, <2>1, <2>3
    <3>2. \A j \in DOMAIN pending' : j > i - 1 => pending'[j] \notin Links
      BY <1>1, <1>2, <2>1
    <3> QED
      BY <3>1, <3>2, <1>3 DEF LedSound, WantedIsLast
  <2> QED
    BY <2>2, <2>3
<1>6. CASE NoLinkPending /\ running \notin Links /\ ot_led = is_connected
  <2>1. NoLinkPending' /\ running' \notin Links
    BY <1>1, <1>2, <1>6 DEF NoLinkPending
  <2> QED
    BY <2>1, <1>3, <1>6 DEF LedSound
<1>7. running # Wanted
  BY <1>4 DEF Take
<1> QED
  BY <1>5, <1>6, <1>7 DEF LedSound

(* A call puts a work behind the queue that is none of the two.                 *)
LEMMA CallKeepsLed ==
  ASSUME TypeOK, LedSound, NEW w \in Commands, Call(w)
  PROVE  LedSound'
<1>1. DOMAIN pending = 1 .. Len(pending) /\ Len(pending) \in Nat /\ w \notin Links
  BY DEF TypeOK, Requests, Links
<1>2. Wanted' = Wanted /\ ot_led' = ot_led /\ is_connected' = is_connected /\ running' = running
  BY DEF Call, link, device, Wanted
<1>3. \/ pending' = pending
      \/ /\ DOMAIN pending' = 1 .. Len(pending) + 1
         /\ \A k \in 1 .. Len(pending) : pending'[k] = pending[k]
         /\ pending'[Len(pending) + 1] = w
  BY DEF Call, Queued, TypeOK
<1>4. NoLinkPending => NoLinkPending'
  BY <1>1, <1>3 DEF NoLinkPending
<1>5. WantedIsLast => WantedIsLast'
  BY <1>1, <1>2, <1>3 DEF WantedIsLast
<1> QED
  BY <1>2, <1>4, <1>5 DEF LedSound

LEMMA LedInvStep == TypeOK /\ LedInv /\ [Next]_vars => LedInv'
<1> SUFFICES ASSUME TypeOK, LedInv, [Next]_vars, ~merged' PROVE LedSound'
  BY DEF LedInv
<1>1. CASE StateChanged
  <2> DEFINE w == IF attached THEN "connect" ELSE "disconnect"
  <2>1. ~IsPending(w) /\ pending' = Append(pending, w) /\ Wanted' = w
    BY <1>1 DEF StateChanged, Queued, Wanted
  <2>2. /\ DOMAIN pending' = 1 .. Len(pending) + 1
        /\ Len(pending) \in Nat
        /\ pending'[Len(pending) + 1] = w
    BY <2>1 DEF TypeOK
  <2> QED
    BY <2>1, <2>2 DEF LedSound, WantedIsLast
<1>2. CASE UNCHANGED <<pending, running, ot_led, is_connected, merged>>
  BY <1>2 DEF LedInv, LedSound, WantedIsLast, NoLinkPending, Wanted
<1>3. ~StateChanged => ~merged
  BY DEF Next, ChangeRole, Call, Take, ShowLink, ToggleMode, ShowMode, SendLight, SavePeriod,
     ShortenPeriod, SendProvisioning, ReplyArrives, RestorePeriod, ClearPeriod, vars, link
<1>4. ~StateChanged => LedSound
  BY <1>3 DEF LedInv
<1>5. ASSUME NEW w \in Commands, Call(w), ~StateChanged PROVE LedSound'
  BY <1>4, <1>5, CallKeepsLed
<1>6. CASE Take /\ ~StateChanged
  BY <1>4, <1>6, TakeKeepsLed
<1>7. ASSUME NEW w \in Links, ShowLink(w), ~StateChanged PROVE LedSound'
  <2>1. pending' = pending /\ is_connected' = is_connected /\ running = w /\ running' = "none"
    BY <1>7 DEF ShowLink, Working, Done, link
  <2>2. ot_led' = (w = "connect") /\ "none" \notin Links
    BY <1>7 DEF ShowLink, Links
  <2>3. w = Wanted => ot_led' = is_connected
    BY <2>2 DEF Wanted, TypeOK
  <2>4. WantedIsLast \/ (NoLinkPending /\ w = Wanted)
    BY <1>4, <1>7, <2>1 DEF LedSound
  <2>5. (WantedIsLast => WantedIsLast') /\ (NoLinkPending => NoLinkPending')
    BY <2>1 DEF WantedIsLast, NoLinkPending, Wanted
  <2> QED
    BY <2>1, <2>2, <2>3, <2>4, <2>5 DEF LedSound
<1>8. CASE \/ ToggleMode \/ ShowMode
           \/ SavePeriod \/ ShortenPeriod \/ SendProvisioning
           \/ \E w \in Requests : SendLight(w)
  <2>1. /\ pending' = pending /\ is_connected' = is_connected /\ ot_led' = ot_led
        /\ merged' = merged /\ running \notin Links
        /\ running' \in {running, "none"} /\ "none" \notin Links
    BY <1>8 DEF ToggleMode, ShowMode, SavePeriod, ShortenPeriod, SendProvisioning, SendLight,
       Working, Done, link, device, Links
  <2>2. Wanted \in Links /\ Wanted' = Wanted
    BY <2>1 DEF Wanted, Links
  <2>3. WantedIsLast \/ (NoLinkPending /\ ot_led = is_connected)
    BY <2>1, <2>2 DEF LedInv, LedSound
  <2>4. (WantedIsLast => WantedIsLast') /\ (NoLinkPending => NoLinkPending')
    BY <2>1, <2>2 DEF WantedIsLast, NoLinkPending
  <2>5. running' \notin Links
    BY <2>1
  <2> QED
    BY <2>1, <2>3, <2>4, <2>5 DEF LedSound
<1>9. CASE ChangeRole \/ ReplyArrives \/ RestorePeriod \/ ClearPeriod
  BY <1>2, <1>9 DEF ChangeRole, ReplyArrives, RestorePeriod, ClearPeriod, link, device
<1>10. CASE UNCHANGED vars
  BY <1>2, <1>10 DEF vars, link, device
<1> QED
  BY <1>1, <1>5, <1>6, <1>7, <1>8, <1>9, <1>10 DEF Next

(* For every mix of works, the connection LED ends up wrong only by a merge.    *)
THEOREM LinkIsShown == Spec => []LedWrongOnlyIfMerged
<1>1. Init => LedInv
  <2> SUFFICES ASSUME Init PROVE LedSound
    BY DEF LedInv
  <2>1. NoLinkPending
    BY DEF Init, NoLinkPending
  <2>2. running \notin Links /\ ot_led = is_connected
    BY DEF Init, Links
  <2> QED
    BY <2>1, <2>2 DEF LedSound
<1>2. TypeOK /\ LedInv => LedWrongOnlyIfMerged
  <2> SUFFICES ASSUME TypeOK, LedInv, NoLinkWork, ~merged PROVE ot_led = is_connected
    BY DEF LedWrongOnlyIfMerged
  <2>1. Wanted \in Links
    BY DEF Wanted, Links
  <2>2. ~WantedIsLast /\ running # Wanted
    BY <2>1 DEF NoLinkWork, WantedIsLast, IsPending
  <2> QED
    BY <2>2 DEF LedInv, LedSound
<1> QED
  BY <1>1, <1>2, LedInvStep, TypeCorrect, PTL DEF Spec

===============================================================================
