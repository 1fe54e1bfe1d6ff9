----------------------------- MODULE NusLinkProofs -----------------------------
(* What holds of the four programs of NusLink, and of the router's LEDs on top  *)
(* of them, for every number of connection objects.                             *)
EXTENDS RouterLeds, SequenceTheorems, TLAPS

(* The queue stays one of works without repeats when a work is submitted ...    *)
LEMMA SubmitType ==
  ASSUME NEW q \in Seq(Work), IsInjective(q), NEW w \in Work
  PROVE  Submit(q, w) \in Seq(Work) /\ IsInjective(Submit(q, w))
<1>1. CASE w \in ToSet(q)
  BY <1>1 DEF Submit
<1>2. CASE w \notin ToSet(q)
  <2> DEFINE r == Append(q, w)
  <2>1. r \in Seq(Work) /\ DOMAIN r = 1 .. Len(q) + 1 /\ r[Len(q) + 1] = w
    OBVIOUS
  <2>2. DOMAIN q = 1 .. Len(q) /\ \A i \in 1 .. Len(q) : r[i] = q[i]
    OBVIOUS
  <2>3. \A i \in 1 .. Len(q) : q[i] # w
    BY <1>2, <2>2 DEF ToSet
  <2>4. IsInjective(r)
    BY <2>1, <2>2, <2>3 DEF IsInjective
  <2> QED
    BY <1>2, <2>1, <2>4 DEF Submit
<1> QED
  BY <1>1, <1>2

(* ... and when the oldest is taken.                                            *)
LEMMA TakenType ==
  ASSUME NEW q \in Seq(Work), IsInjective(q), q # <<>>
  PROVE  /\ Tail(q) \in Seq(Work) /\ IsInjective(Tail(q))
         /\ DOMAIN q = 1 .. Len(q) /\ Len(q) \in Nat /\ Len(q) > 0 /\ Head(q) = q[1]
         /\ DOMAIN Tail(q) = 1 .. Len(q) - 1
         /\ \A i \in 1 .. Len(q) - 1 : Tail(q)[i] = q[i + 1]
<1>1. DOMAIN q = 1 .. Len(q) /\ Len(q) \in Nat /\ Len(q) > 0 /\ Head(q) = q[1]
  OBVIOUS
<1>2. /\ Tail(q) \in Seq(Work)
      /\ DOMAIN Tail(q) = 1 .. Len(q) - 1
      /\ \A i \in 1 .. Len(q) - 1 : Tail(q)[i] = q[i + 1]
  BY <1>1
<1>3. IsInjective(Tail(q))
  BY <1>1, <1>2 DEF IsInjective
<1> QED
  BY <1>1, <1>2, <1>3

(* bt_le_adv_start gives at most one object to the advertising.                 *)
LEMMA AdvStartType ==
  ASSUME object \in [Objects -> Use], AdvStart
  PROVE  object' \in [Objects -> Use]
  BY DEF AdvStart, Use

LEMMA TypeStep == TypeOK /\ [Next]_vars => TypeOK'
<1> SUFFICES ASSUME TypeOK, [Next]_vars PROVE TypeOK'
  OBVIOUS
<1> USE DEF TypeOK, history
<1>0. /\ "advertise" \in Work /\ "on_connect" \in Work /\ "on_disconnect" \in Work
      /\ {"none", "connected", "failed", "disconnected"} \subseteq Event
  BY DEF Work, Event
<1>1. ASSUME NEW q \in Seq(Work), IsInjective(q), NEW w \in Work, NEW e \in Event,
             AskForLed(q, w, e)
      PROVE  workq' \in Seq(Work) /\ IsInjective(workq') /\ last' \in Event /\ merged' \in BOOLEAN
  BY <1>1, SubmitType DEF AskForLed
<1>2. Submit(workq, "advertise") \in Seq(Work) /\ IsInjective(Submit(workq, "advertise"))
  BY <1>0, SubmitType
<1>3. ASSUME NEW o \in Objects,
             \/ Opens(o) \/ Closes(o, "advertising") \/ Closes(o, "connected")
             \/ object' = [object EXCEPT ![o] = "free"]
      PROVE  object' \in [Objects -> Use]
  BY <1>3 DEF Opens, Closes, Use
<1>4. CASE Enable
  <2>1. object' \in [Objects -> Use]
    BY <1>4, AdvStartType DEF Enable, TempEnable, RouterEnable, ClientEnable, SmpEnable
  <2>2. workq' \in Seq(Work) /\ IsInjective(workq')
    BY <1>2, <1>4 DEF Enable, TempEnable, RouterEnable, ClientEnable, SmpEnable
  <2> QED
    BY <1>4, <2>1, <2>2 DEF Enable, TempEnable, RouterEnable, ClientEnable, SmpEnable
<1>5. CASE SwitchLed
  <2>1. workq' \in Seq(Work) /\ IsInjective(workq')
    BY <1>5, TakenType DEF SwitchLed, Taken
  <2>2. led' \in BOOLEAN
    BY <1>5 DEF SwitchLed
  <2> QED
    BY <1>5, <2>1, <2>2 DEF SwitchLed
<1>6. CASE TakeAdvertise
  BY <1>6, TakenType DEF TakeAdvertise, Taken
<1>7. CASE Advertise
  BY <1>7, AdvStartType DEF Advertise
<1>8. ASSUME NEW o \in Objects, TempConnected(o) PROVE TypeOK'
  <2>1. /\ workq' \in Seq(Work) /\ IsInjective(workq')
        /\ last' \in Event /\ merged' \in BOOLEAN /\ current_conn' \subseteq Objects
    BY <1>0, <1>1, <1>8 DEF TempConnected
  <2>2. object' \in [Objects -> Use]
    BY <1>3, <1>8 DEF TempConnected
  <2> QED
    BY <1>8, <2>1, <2>2 DEF TempConnected
<1>9. ASSUME NEW o \in Objects, TempDisconnected(o) PROVE TypeOK'
  <2>1. workq' \in Seq(Work) /\ IsInjective(workq') /\ last' \in Event /\ merged' \in BOOLEAN
    BY <1>0, <1>1, <1>9 DEF TempDisconnected
  <2>2. object' \in [Objects -> Use]
    BY <1>3, <1>9 DEF TempDisconnected
  <2> QED
    BY <1>9, <2>1, <2>2 DEF TempDisconnected
<1>10. ASSUME NEW o \in Objects, RouterLink(o) PROVE TypeOK'
  BY <1>3, <1>10 DEF RouterLink
<1>11. ASSUME NEW o \in Objects, ClientConnected(o) PROVE TypeOK'
  <2>1. workq' \in Seq(Work) /\ IsInjective(workq') /\ last' \in Event /\ merged' \in BOOLEAN
    BY <1>0, <1>1, <1>2, <1>11 DEF ClientConnected
  <2>2. object' \in [Objects -> Use]
    BY <1>3, <1>11 DEF ClientConnected
  <2> QED
    BY <1>11, <2>1, <2>2 DEF ClientConnected
<1>12. ASSUME NEW o \in Objects, ClientDisconnected(o) PROVE TypeOK'
  <2>1. workq' \in Seq(Work) /\ IsInjective(workq') /\ last' \in Event /\ merged' \in BOOLEAN
    BY <1>0, <1>1, <1>2, <1>12 DEF ClientDisconnected
  <2>2. object' \in [Objects -> Use]
    BY <1>3, <1>12 DEF ClientDisconnected
  <2> QED
    BY <1>12, <2>1, <2>2 DEF ClientDisconnected
<1>13. ASSUME NEW o \in Objects, SmpLink(o) PROVE TypeOK'
  <2>1. workq' \in Seq(Work) /\ IsInjective(workq')
    BY <1>2, <1>13 DEF SmpLink
  <2>2. object' \in [Objects -> Use]
    BY <1>3, <1>13 DEF SmpLink
  <2> QED
    BY <1>13, <2>1, <2>2 DEF SmpLink
<1>14. ASSUME NEW o \in Objects, Recycled(o) PROVE TypeOK'
  <2>1. workq' \in Seq(Work) /\ IsInjective(workq')
    BY <1>2, <1>14 DEF Recycled
  <2>2. object' \in [Objects -> Use]
    BY <1>3, <1>14 DEF Recycled
  <2> QED
    BY <1>14, <2>1, <2>2 DEF Recycled
<1>15. CASE UNCHANGED vars
  BY <1>15 DEF vars
<1> QED
  BY <1>4, <1>5, <1>6, <1>7, <1>8, <1>9, <1>10, <1>11, <1>12, <1>13, <1>14, <1>15 DEF Next

-------------------------------------------------------------------------------
(* A program that advertises once has at most one object in use, ever.          *)
Life ==
  app \in Once =>
    /\ ~advertising /\ "advertise" \notin ToSet(workq)
    /\ ~up => \A o \in Objects : object[o] = "free"
    /\ \A o, k \in Objects : object[o] # "free" /\ object[k] # "free" => o = k

LEMMA LifeStep == TypeOK /\ Life /\ [Next]_vars => Life'
<1> SUFFICES ASSUME TypeOK, Life, [Next]_vars, app' \in Once PROVE Life'
  BY DEF Life
<1> USE DEF TypeOK, Once, history
<1>1. app' = app
  BY DEF Next, Enable, TempEnable, RouterEnable, ClientEnable, SmpEnable, SwitchLed, TakeAdvertise,
     Advertise, TempConnected, TempDisconnected, RouterLink, ClientConnected, ClientDisconnected,
     SmpLink, Recycled, vars
<1>2. /\ app \in Once /\ ~advertising /\ "advertise" \notin ToSet(workq)
      /\ ~up => \A o \in Objects : object[o] = "free"
      /\ \A o, k \in Objects : object[o] # "free" /\ object[k] # "free" => o = k
  BY <1>1 DEF Life
<1>3. ASSUME NEW w \in Work \ {"advertise"} PROVE "advertise" \notin ToSet(Submit(workq, w))
  <2>1. DOMAIN workq = 1 .. Len(workq) /\ Len(workq) \in Nat
    OBVIOUS
  <2>2. /\ DOMAIN Append(workq, w) = 1 .. Len(workq) + 1
        /\ \A i \in 1 .. Len(workq) : Append(workq, w)[i] = workq[i]
        /\ Append(workq, w)[Len(workq) + 1] = w
    OBVIOUS
  <2>3. \A i \in 1 .. Len(workq) : workq[i] # "advertise"
    BY <1>2, <2>1 DEF ToSet
  <2>4. "advertise" \notin ToSet(Append(workq, w))
    BY <2>1, <2>2, <2>3 DEF ToSet
  <2> QED
    BY <1>2, <2>4 DEF Submit
<1>4. {"on_connect", "on_disconnect"} \subseteq Work \ {"advertise"}
  BY DEF Work
<1>5. ASSUME NEW o \in Objects,
             \/ Opens(o) \/ Closes(o, "advertising") \/ Closes(o, "connected")
             \/ object[o] = "closing" /\ object' = [object EXCEPT ![o] = "free"]
      PROVE  /\ up
             /\ \A k, m \in Objects : object'[k] # "free" /\ object'[m] # "free" => k = m
  BY <1>2, <1>5 DEF Opens, Closes
<1>6. CASE Enable
  <2>1. ~up /\ AdvStart /\ up' /\ UNCHANGED <<workq, advertising>>
    BY <1>2, <1>6 DEF Enable, TempEnable, RouterEnable, ClientEnable, SmpEnable
  <2>2. \A k, m \in Objects : object'[k] # "free" /\ object'[m] # "free" => k = m
    BY <1>2, <2>1 DEF AdvStart
  <2> QED
    BY <1>2, <2>1, <2>2 DEF Life
<1>7. CASE SwitchLed
  <2>1. workq # <<>> /\ workq' = Tail(workq) /\ UNCHANGED <<object, up, advertising>>
    BY <1>7 DEF SwitchLed, Taken
  <2>2. ToSet(workq') \subseteq ToSet(workq)
    BY <2>1, TakenType DEF ToSet
  <2> QED
    BY <1>2, <2>1, <2>2 DEF Life
<1>8. CASE TakeAdvertise
  <2>1. DOMAIN workq = 1 .. Len(workq) /\ Len(workq) > 0 /\ Len(workq) \in Nat /\ workq[1] = "advertise"
    BY <1>8, TakenType DEF TakeAdvertise, Taken
  <2> QED
    BY <1>2, <2>1 DEF ToSet
<1>9. CASE Advertise
  BY <1>2, <1>9 DEF Advertise
<1>10. ASSUME NEW o \in Objects,
              TempConnected(o) \/ TempDisconnected(o) \/ RouterLink(o) \/ Recycled(o)
       PROVE  Life'
  <2>1. /\ up /\ up' = up /\ advertising' = advertising
        /\ \A k, m \in Objects : object'[k] # "free" /\ object'[m] # "free" => k = m
    BY <1>5, <1>10 DEF TempConnected, TempDisconnected, RouterLink, Recycled
  <2>2. workq' \in {workq, Submit(workq, "on_connect"), Submit(workq, "on_disconnect")}
    BY <1>2, <1>10 DEF TempConnected, TempDisconnected, RouterLink, Recycled, AskForLed, Again
  <2>3. "advertise" \notin ToSet(workq')
    BY <1>2, <1>3, <1>4, <2>2
  <2> QED
    BY <1>2, <2>1, <2>3 DEF Life
<1>11. CASE \E o \in Objects : ClientConnected(o) \/ ClientDisconnected(o) \/ SmpLink(o)
  BY <1>2, <1>11 DEF ClientConnected, ClientDisconnected, SmpLink
<1>12. CASE UNCHANGED vars
  BY <1>2, <1>12 DEF vars, Life
<1> QED
  BY <1>6, <1>7, <1>8, <1>9, <1>10, <1>11, <1>12 DEF Next

(* coap_ed_temp: the one connection, the reference to it and the works that     *)
(* report it.                                                                   *)
Kept ==
  app = "coap_ed_temp" =>
    /\ current_conn = {o \in Objects : object[o] = "connected"}
    /\ ~merged
    /\ ~up => last = "none"
    /\ \/ last = "none" /\ ~Is("connected") /\ workq = <<>> /\ ~led
       \/ /\ last = "connected" /\ Is("connected")
          /\ \/ workq = <<"on_connect">> /\ ~led
             \/ workq = <<>> /\ led
       \/ /\ last = "disconnected" /\ ~Is("connected") /\ ~Is("advertising")
          /\ \/ workq = <<"on_connect", "on_disconnect">> /\ ~led
             \/ workq = <<"on_disconnect">> /\ led
             \/ workq = <<>> /\ ~led

(* The queues it goes through.                                                  *)
LEMMA ShortQueues ==
  /\ "on_connect" \notin ToSet(<<>>)
  /\ "on_disconnect" \notin ToSet(<<>>) /\ "on_disconnect" \notin ToSet(<<"on_connect">>)
  /\ Submit(<<>>, "on_connect") = <<"on_connect">>
  /\ Submit(<<>>, "on_disconnect") = <<"on_disconnect">>
  /\ Submit(<<"on_connect">>, "on_disconnect") = <<"on_connect", "on_disconnect">>
  /\ \A a, b \in Work : /\ Head(<<a>>) = a /\ Tail(<<a>>) = <<>> /\ <<a>> # <<>>
                         /\ Head(<<a, b>>) = a /\ Tail(<<a, b>>) = <<b>> /\ <<a, b>> # <<>>
<1>1. ToSet(<<>>) = {} /\ ToSet(<<"on_connect">>) = {"on_connect"}
  BY DEF ToSet
<1>2. Append(<<>>, "on_connect") = <<"on_connect">> /\ Append(<<>>, "on_disconnect") = <<"on_disconnect">>
  OBVIOUS
<1>3. Append(<<"on_connect">>, "on_disconnect") = <<"on_connect", "on_disconnect">>
  <2>1. ASSUME NEW a \in Seq(Work), NEW w \in Work, NEW t \in Seq(Work),
               Len(a) = 1, Len(t) = 2, t[1] = a[1], t[2] = w
        PROVE  Append(a, w) = t
    <3>1. Append(a, w) \in Seq(Work) /\ Len(Append(a, w)) = Len(a) + 1
      OBVIOUS
    <3>2. /\ \A i \in 1 .. Len(a) : Append(a, w)[i] = a[i]
          /\ Append(a, w)[Len(a) + 1] = w
      OBVIOUS
    <3>3. \A i \in 1 .. Len(Append(a, w)) : Append(a, w)[i] = t[i]
      BY <2>1, <3>1, <3>2
    <3> QED
      BY <2>1, <3>1, <3>3, SeqEqual
  <2>2. /\ <<"on_connect">> \in Seq(Work) /\ <<"on_connect", "on_disconnect">> \in Seq(Work)
        /\ Len(<<"on_connect">>) = 1 /\ Len(<<"on_connect", "on_disconnect">>) = 2
        /\ "on_disconnect" \in Work
    BY DEF Work
  <2> QED
    BY <2>1, <2>2
<1>4. \A a, b \in Work : /\ Head(<<a>>) = a /\ Tail(<<a>>) = <<>> /\ <<a>> # <<>>
                         /\ Head(<<a, b>>) = a /\ Tail(<<a, b>>) = <<b>> /\ <<a, b>> # <<>>
  OBVIOUS
<1> QED
  BY <1>1, <1>2, <1>3, <1>4 DEF Submit

LEMMA KeptStep == TypeOK /\ Life /\ Kept /\ [Next]_vars => Kept'
<1> SUFFICES ASSUME TypeOK, Life, Kept, [Next]_vars, app' = "coap_ed_temp" PROVE Kept'
  BY DEF Kept
<1> USE DEF TypeOK, history
<1>1. app = "coap_ed_temp"
  BY DEF Next, Enable, TempEnable, RouterEnable, ClientEnable, SmpEnable, SwitchLed, TakeAdvertise,
     Advertise, TempConnected, TempDisconnected, RouterLink, ClientConnected, ClientDisconnected,
     SmpLink, Recycled, vars
<1>2. /\ ~advertising /\ "advertise" \notin ToSet(workq)
      /\ ~up => \A o \in Objects : object[o] = "free"
      /\ \A o, k \in Objects : object[o] # "free" /\ object[k] # "free" => o = k
  BY <1>1 DEF Life, Once
<1>3. current_conn = {o \in Objects : object[o] = "connected"} /\ ~merged
  BY <1>1 DEF Kept
<1>4. "on_connect" \in Work /\ "on_disconnect" \in Work /\ "advertise" \in Work
  BY DEF Work
<1>5. CASE Enable
  <2>1. ~up /\ AdvStart /\ UNCHANGED <<workq, current_conn, led, last, merged>>
    BY <1>1, <1>5 DEF Enable, TempEnable, RouterEnable, ClientEnable, SmpEnable
  <2>2. {o \in Objects : object'[o] = "connected"} = {o \in Objects : object[o] = "connected"}
    BY <2>1 DEF AdvStart
  <2>3. Is("connected")' = Is("connected") /\ ~Is("connected")
    BY <1>2, <2>1, <2>2 DEF Is
  <2>4. last = "none" /\ workq = <<>> /\ ~led
    BY <1>1, <2>1 DEF Kept
  <2> QED
    BY <1>1, <1>3, <2>1, <2>2, <2>3, <2>4 DEF Kept
<1>6. CASE SwitchLed
  <2>1. /\ UNCHANGED <<app, object, up, advertising, current_conn, last, merged>>
        /\ workq # <<>> /\ workq' = Tail(workq) /\ workq # <<>>
        /\ \/ Head(workq) = "on_connect" /\ led' = TRUE
           \/ Head(workq) = "on_disconnect" /\ led' = FALSE
    BY <1>6 DEF SwitchLed, Taken
  <2>2. Is("connected")' = Is("connected") /\ Is("advertising")' = Is("advertising")
    BY <2>1 DEF Is
  <2>3. CASE workq = <<"on_connect", "on_disconnect">>
    BY <1>1, <1>3, <1>4, <2>1, <2>2, <2>3, ShortQueues DEF Kept
  <2>4. CASE workq = <<"on_connect">>
    BY <1>1, <1>3, <1>4, <2>1, <2>2, <2>4, ShortQueues DEF Kept
  <2>5. CASE workq = <<"on_disconnect">>
    BY <1>1, <1>3, <1>4, <2>1, <2>2, <2>5, ShortQueues DEF Kept
  <2> QED
    BY <1>1, <2>1, <2>3, <2>4, <2>5 DEF Kept
<1>7. CASE TakeAdvertise
  BY <1>1, <1>4, <1>7, ShortQueues DEF TakeAdvertise, Taken, Kept
<1>8. CASE Advertise
  BY <1>2, <1>8 DEF Advertise
<1>9. ASSUME NEW o \in Objects, TempConnected(o) PROVE Kept'
  <2>1. /\ object[o] = "advertising" /\ up /\ up' = up /\ led' = led
        /\ \A k \in Objects : k # o => object[k] = "free"
    BY <1>2, <1>9 DEF TempConnected, Opens, Closes
  <2>2. ~Is("connected") /\ Is("advertising") /\ last = "none" /\ workq = <<>> /\ ~led
    BY <1>1, <2>1 DEF Kept, Is
  <2>3. CASE Opens(o) /\ current_conn' = current_conn \cup {o}
             /\ AskForLed(workq, "on_connect", "connected")
    <3>1. {k \in Objects : object'[k] = "connected"} = {o} /\ Is("connected")'
      BY <2>1, <2>3 DEF Opens, Is
    <3>2. current_conn' = {o}
      BY <1>3, <2>2, <2>3 DEF Is
    <3>3. workq' = <<"on_connect">> /\ last' = "connected" /\ ~merged'
      BY <2>2, <2>3, ShortQueues DEF AskForLed
    <3> QED
      BY <2>1, <2>2, <3>1, <3>2, <3>3 DEF Kept
  <2>4. CASE Closes(o, "advertising") /\ UNCHANGED <<current_conn, workq, last, merged>>
    <3>1. /\ {k \in Objects : object'[k] = "connected"} = {k \in Objects : object[k] = "connected"}
          /\ ~Is("connected")'
      BY <2>1, <2>2, <2>4 DEF Closes, Is
    <3>2. current_conn' = {k \in Objects : object'[k] = "connected"} /\ ~merged'
      BY <1>3, <2>4, <3>1
    <3>3. last' = "none" /\ workq' = <<>> /\ ~led'
      BY <2>1, <2>2, <2>4
    <3> QED
      BY <2>1, <3>1, <3>2, <3>3 DEF Kept
  <2> QED
    BY <1>9, <2>3, <2>4 DEF TempConnected
<1>10. ASSUME NEW o \in Objects, TempDisconnected(o) PROVE Kept'
  <2>1. /\ object[o] = "connected" /\ object' = [object EXCEPT ![o] = "closing"]
        /\ up /\ up' = up /\ led' = led /\ current_conn' = {}
        /\ \A k \in Objects : k # o => object[k] = "free"
    BY <1>2, <1>10 DEF TempDisconnected, Closes
  <2>2. Is("connected") /\ current_conn # {}
    BY <1>3, <2>1 DEF Is
  <2>3. AskForLed(workq, "on_disconnect", "disconnected")
    BY <1>10, <2>2 DEF TempDisconnected
  <2>4. (workq = <<"on_connect">> /\ ~led) \/ (workq = <<>> /\ led)
    BY <1>1, <2>2 DEF Kept
  <2>5. /\ last' = "disconnected" /\ ~merged'
        /\ \/ workq' = <<"on_connect", "on_disconnect">> /\ ~led
           \/ workq' = <<"on_disconnect">> /\ led
    BY <2>3, <2>4, ShortQueues DEF AskForLed
  <2>6. {k \in Objects : object'[k] = "connected"} = {} /\ ~Is("connected")' /\ ~Is("advertising")'
    BY <2>1 DEF Is
  <2>7. current_conn' = {k \in Objects : object'[k] = "connected"} /\ (~up' => last' = "none")
    BY <2>1, <2>6
  <2>8. \/ workq' = <<"on_connect", "on_disconnect">> /\ ~led'
        \/ workq' = <<"on_disconnect">> /\ led'
    BY <2>1, <2>5
  <2> QED
    BY <2>5, <2>6, <2>7, <2>8 DEF Kept
<1>11. ASSUME NEW o \in Objects, Recycled(o) PROVE Kept'
  <2>1. /\ object[o] = "closing" /\ object' = [object EXCEPT ![o] = "free"]
        /\ UNCHANGED <<up, workq, current_conn, led, last, merged>>
    BY <1>1, <1>11 DEF Recycled, Again
  <2>2. /\ {k \in Objects : object'[k] = "connected"} = {k \in Objects : object[k] = "connected"}
        /\ {k \in Objects : object'[k] = "advertising"} = {k \in Objects : object[k] = "advertising"}
    BY <2>1
  <2>3. Is("connected")' = Is("connected") /\ Is("advertising")' = Is("advertising")
    BY <2>2 DEF Is
  <2> QED
    BY <1>1, <1>3, <2>1, <2>2, <2>3 DEF Kept
<1>12. ASSUME NEW o \in Objects,
              RouterLink(o) \/ ClientConnected(o) \/ ClientDisconnected(o) \/ SmpLink(o)
       PROVE  Kept'
  BY <1>1, <1>12 DEF RouterLink, ClientConnected, ClientDisconnected, SmpLink
<1>13. CASE UNCHANGED vars
  BY <1>1, <1>3, <1>13 DEF vars, Kept, Is
<1> QED
  BY <1>5, <1>6, <1>7, <1>8, <1>9, <1>10, <1>11, <1>12, <1>13 DEF Next

-------------------------------------------------------------------------------
(* Carrying out the works of q leaves the LED as it should be: the work that    *)
(* puts it so is queued and no opposite one is behind it, or neither is queued  *)
(* and the LED is so.                                                           *)
WorkFor(want) == IF want THEN "on_connect" ELSE "on_disconnect"
LedWork == {"on_connect", "on_disconnect"}

IsLast(q, w) == \E i \in DOMAIN q : q[i] = w /\ \A j \in DOMAIN q : j > i => q[j] \notin LedWork
NoLedWork(q) == \A i \in DOMAIN q : q[i] \notin LedWork

Sound(q, lit, want) == IsLast(q, WorkFor(want)) \/ (NoLedWork(q) /\ (lit <=> want))

Asked == last \in {"connected", "failed"}

LedInv == ~merged => Sound(workq, led, Asked)

(* A work that is none of the two goes behind ...                               *)
LEMMA OtherSubmitted ==
  ASSUME NEW q \in Seq(Work), NEW lit \in BOOLEAN, NEW want \in BOOLEAN, Sound(q, lit, want)
  PROVE  Sound(Submit(q, "advertise"), lit, want)
<1> DEFINE r == Append(q, "advertise")
<1>1. "advertise" \in Work /\ "advertise" \notin LedWork
  BY DEF Work, LedWork
<1>2. /\ DOMAIN q = 1 .. Len(q) /\ Len(q) \in Nat /\ DOMAIN r = 1 .. Len(q) + 1
      /\ \A i \in 1 .. Len(q) : r[i] = q[i]
      /\ r[Len(q) + 1] = "advertise"
  BY <1>1
<1> HIDE DEF r
<1>3. ASSUME NEW w, IsLast(q, w) PROVE IsLast(r, w)
  BY <1>1, <1>2, <1>3 DEF IsLast
<1>4. NoLedWork(q) => NoLedWork(r)
  BY <1>1, <1>2 DEF NoLedWork
<1>5. Sound(r, lit, want)
  BY <1>3, <1>4 DEF Sound
<1> QED
  BY <1>5 DEF Submit, r

(* ... and one of the two decides, if it is not queued already.                 *)
LEMMA LastSubmitted ==
  ASSUME NEW q \in Seq(Work), NEW w \in LedWork, w \notin ToSet(q)
  PROVE  IsLast(Submit(q, w), w)
<1>1. w \in Work
  BY DEF Work, LedWork
<1>2. /\ DOMAIN Append(q, w) = 1 .. Len(q) + 1 /\ Len(q) \in Nat
      /\ Append(q, w)[Len(q) + 1] = w
  BY <1>1
<1>3. IsLast(Append(q, w), w)
  BY <1>2 DEF IsLast
<1> QED
  BY <1>3 DEF Submit

(* The oldest work is carried out.                                              *)
LEMMA OldestTaken ==
  ASSUME NEW q \in Seq(Work), IsInjective(q), q # <<>>,
         NEW lit \in BOOLEAN, NEW lit1 \in BOOLEAN, NEW want \in BOOLEAN,
         Sound(q, lit, want),
         \/ Head(q) = "advertise" /\ lit1 = lit
         \/ Head(q) = "on_connect" /\ lit1 = TRUE
         \/ Head(q) = "on_disconnect" /\ lit1 = FALSE
  PROVE  Sound(Tail(q), lit1, want)
<1>1. /\ DOMAIN q = 1 .. Len(q) /\ Len(q) \in Nat /\ Len(q) > 0 /\ Head(q) = q[1]
      /\ DOMAIN Tail(q) = 1 .. Len(q) - 1
      /\ \A i \in 1 .. Len(q) - 1 : Tail(q)[i] = q[i + 1]
  BY TakenType
<1>2. CASE NoLedWork(q) /\ (lit <=> want)
  <2>1. Head(q) = "advertise" /\ lit1 = lit
    BY <1>1, <1>2 DEF NoLedWork, LedWork
  <2>2. NoLedWork(Tail(q))
    BY <1>1, <1>2 DEF NoLedWork
  <2> QED
    BY <1>2, <2>1, <2>2 DEF Sound
<1>3. CASE IsLast(q, WorkFor(want))
  <2>1. PICK i \in 1 .. Len(q) : /\ q[i] = WorkFor(want)
                                 /\ \A j \in 1 .. Len(q) : j > i => q[j] \notin LedWork
    BY <1>1, <1>3 DEF IsLast
  <2>2. CASE i = 1
    <3>1. lit1 = want
      BY <1>1, <2>1, <2>2 DEF WorkFor
    <3>2. NoLedWork(Tail(q))
      BY <1>1, <2>1, <2>2 DEF NoLedWork
    <3> QED
      BY <3>1, <3>2 DEF Sound
  <2>3. CASE i # 1
    <3>1. i - 1 \in DOMAIN Tail(q) /\ Tail(q)[i - 1] = WorkFor(want)
      BY <1>1, <2>1, <2>3
    <3>2. \A j \in DOMAIN Tail(q) : j > i - 1 => Tail(q)[j] \notin LedWork
      BY <1>1, <2>1
    <3> QED
      BY <3>1, <3>2 DEF Sound, IsLast
  <2> QED
    BY <2>2, <2>3
<1> QED
  BY <1>2, <1>3 DEF Sound

LEMMA LedInvStep == TypeOK /\ Kept /\ LedInv /\ [Next]_vars => LedInv'
<1> SUFFICES ASSUME TypeOK, Kept, LedInv, [Next]_vars, ~merged' PROVE Sound(workq', led', Asked')
  BY DEF LedInv
<1> USE DEF TypeOK, history
<1>1. Asked \in BOOLEAN /\ LedWork \subseteq Work /\ "advertise" \in Work
  BY DEF Asked, LedWork, Work
<1>2. ASSUME NEW q \in Seq(Work), NEW w \in LedWork, NEW e \in {"connected", "failed", "disconnected"},
             AskForLed(q, w, e), w = WorkFor(e \in {"connected", "failed"})
      PROVE  Sound(workq', led', Asked')
  <2>1. w \notin ToSet(q) /\ workq' = Submit(q, w) /\ last' = e
    BY <1>2 DEF AskForLed
  <2>2. WorkFor(Asked') = w
    BY <1>2, <2>1 DEF Asked
  <2> QED
    BY <2>1, <2>2, LastSubmitted DEF Sound
<1>3. /\ WorkFor("connected" \in {"connected", "failed"}) = "on_connect"
      /\ WorkFor("failed" \in {"connected", "failed"}) = "on_connect"
      /\ WorkFor("disconnected" \in {"connected", "failed"}) = "on_disconnect"
      /\ "on_connect" \in LedWork /\ "on_disconnect" \in LedWork
  BY DEF WorkFor, LedWork
<1>4. Submit(workq, "advertise") \in Seq(Work)
  BY <1>1, SubmitType
<1>5. CASE /\ UNCHANGED <<led, last, merged>>
           /\ workq' \in {workq, Submit(workq, "advertise")}
  <2>1. Sound(workq, led, Asked) /\ Asked' = Asked /\ led' = led
    BY <1>5 DEF LedInv, Asked
  <2>2. Sound(Submit(workq, "advertise"), led, Asked)
    BY <1>1, <2>1, OtherSubmitted
  <2> QED
    BY <1>5, <2>1, <2>2
<1>6. CASE SwitchLed \/ TakeAdvertise
  <2>1. /\ workq # <<>> /\ workq' = Tail(workq) /\ UNCHANGED <<last, merged>> /\ led' \in BOOLEAN
        /\ \/ Head(workq) = "advertise" /\ led' = led
           \/ Head(workq) = "on_connect" /\ led' = TRUE
           \/ Head(workq) = "on_disconnect" /\ led' = FALSE
    BY <1>6 DEF SwitchLed, TakeAdvertise, Taken
  <2>2. Sound(workq, led, Asked) /\ Asked' = Asked
    BY <2>1 DEF LedInv, Asked
  <2> QED
    BY <1>1, <2>1, <2>2, OldestTaken
<1>7. CASE Enable \/ Advertise
  BY <1>5, <1>7 DEF Enable, TempEnable, RouterEnable, ClientEnable, SmpEnable, Advertise
<1>8. ASSUME NEW o \in Objects, TempConnected(o) PROVE Sound(workq', led', Asked')
  BY <1>2, <1>3, <1>5, <1>8 DEF TempConnected
<1>9. ASSUME NEW o \in Objects, TempDisconnected(o) PROVE Sound(workq', led', Asked')
  <2>1. current_conn # {}
    BY <1>9 DEF TempDisconnected, Closes, Kept
  <2> QED
    BY <1>2, <1>3, <1>9, <2>1 DEF TempDisconnected
<1>10. ASSUME NEW o \in Objects, ClientConnected(o) PROVE Sound(workq', led', Asked')
  BY <1>2, <1>3, <1>4, <1>10 DEF ClientConnected
<1>11. ASSUME NEW o \in Objects, ClientDisconnected(o) PROVE Sound(workq', led', Asked')
  BY <1>2, <1>3, <1>4, <1>11 DEF ClientDisconnected
<1>12. CASE \E o \in Objects : RouterLink(o) \/ SmpLink(o) \/ Recycled(o)
  BY <1>5, <1>12 DEF RouterLink, SmpLink, Recycled
<1>13. CASE UNCHANGED vars
  BY <1>5, <1>13 DEF vars
<1> QED
  BY <1>6, <1>7, <1>8, <1>9, <1>10, <1>11, <1>12, <1>13 DEF Next

-------------------------------------------------------------------------------
NusInv == TypeOK /\ Life /\ Kept /\ LedInv

LEMMA NusInvInit == Init => NusInv
<1> SUFFICES ASSUME Init PROVE NusInv
  OBVIOUS
<1>1. TypeOK /\ ~Is("connected") /\ Asked = FALSE /\ NoLedWork(workq) /\ ToSet(workq) = {}
  <2>1. workq = <<>> /\ workq \in Seq(Work) /\ DOMAIN workq = {}
    BY DEF Init
  <2>2. IsInjective(workq) /\ NoLedWork(workq) /\ ToSet(workq) = {}
    BY <2>1 DEF NoLedWork, ToSet, IsInjective
  <2>3. ~Is("connected") /\ Asked = FALSE
    BY DEF Init, Is, Asked
  <2> QED
    BY <2>1, <2>2, <2>3 DEF Init, TypeOK, Use, Event
<1>2. Life
  BY <1>1 DEF Init, Life
<1>3. Kept
  BY <1>1 DEF Init, Kept, Is
<1>4. LedInv
  BY <1>1 DEF Init, LedInv, Sound
<1> QED
  BY <1>1, <1>2, <1>3, <1>4 DEF NusInv

LEMMA NusInvStep == NusInv /\ [RouterNext]_allVars => NusInv'
<1> SUFFICES ASSUME NusInv, [RouterNext]_allVars PROVE NusInv'
  OBVIOUS
<1>1. [Next]_vars
  BY DEF RouterNext, ChangeRole, StateChanged, allVars
<1> QED
  BY <1>1, TypeStep, LifeStep, KeptStep, LedInvStep DEF NusInv

LEMMA Invariant == RouterSpec => []NusInv
<1>1. RouterInit => NusInv
  BY NusInvInit DEF RouterInit
<1> QED
  BY <1>1, NusInvStep, PTL DEF RouterSpec

(* Every variable keeps its type; no work is queued twice.                      *)
THEOREM RouterTypeCorrect == RouterSpec => []RouterTypeOK
<1>1. NusInv => TypeOK
  BY DEF NusInv
<1> DEFINE Types == role \in Role /\ announced \in BOOLEAN /\ LEADER_LED \in BOOLEAN /\ ROUTER_LED \in BOOLEAN
<1>2. RouterInit => Types
  BY DEF RouterInit, Role
<1>3. Types /\ [RouterNext]_allVars => Types'
  BY DEF RouterNext, ChangeRole, StateChanged, allVars, routerVars
<1>4. TypeOK /\ Types => RouterTypeOK
  BY DEF RouterTypeOK
<1> QED
  BY <1>1, <1>2, <1>3, <1>4, Invariant, PTL DEF RouterSpec

(* No mix of failed and ended connections, of recycled objects and advertising  *)
(* that waits makes the LED wrong in the end; only a merged report does.        *)
THEOREM ConnectionIsShown == RouterSpec => []LedWrongOnlyIfMerged
<1>1. NusInv => LedWrongOnlyIfMerged
  <2> SUFFICES ASSUME NusInv, LedSettled, ~merged PROVE led <=> last \in {"connected", "failed"}
    BY DEF LedWrongOnlyIfMerged
  <2>1. NoLedWork(workq)
    BY DEF LedSettled, ToSet, NoLedWork, LedWork
  <2>2. Sound(workq, led, Asked) /\ WorkFor(Asked) \in LedWork
    BY DEF NusInv, LedInv, WorkFor, LedWork
  <2>3. ~IsLast(workq, WorkFor(Asked))
    BY <2>1, <2>2 DEF IsLast, NoLedWork
  <2> QED
    BY <2>2, <2>3 DEF Sound, Asked
<1> QED
  BY <1>1, Invariant, PTL

(* However many connection objects there are, a program that advertises once    *)
(* does not advertise again, neither after its connection nor after a failure,  *)
(* and so is never connected a second time.                                     *)
THEOREM OneConnection == RouterSpec => OneConnectionOnly
<1> DEFINE Step == up /\ app \in Once /\ ~Is("advertising") =>
                     /\ ~Is("advertising")'
                     /\ Is("connected")' => Is("connected")
<1>1. NusInv /\ [RouterNext]_allVars => [Step]_vars
  <2> SUFFICES ASSUME NusInv, [RouterNext]_allVars, app \in Once, up, ~Is("advertising")
               PROVE  /\ ~Is("advertising")'
                      /\ Is("connected")' => Is("connected")
    OBVIOUS
  <2>1. ~advertising /\ object \in [Objects -> Use]
    BY DEF NusInv, Life, TypeOK
  <2>2. app \notin {"IoT/client", "smp_svr_demo"} /\ \A o \in Objects : ~Opens(o)
    BY DEF Once, Is, Opens
  <2>3. CASE object' = object
    BY <2>3 DEF Is
  <2>4. ASSUME NEW o \in Objects, NEW use \in {"closing", "free"},
               object' = [object EXCEPT ![o] = use]
        PROVE  /\ ~Is("advertising")'
               /\ Is("connected")' => Is("connected")
    BY <2>1, <2>4 DEF Is
  <2>5. CASE \E o \in Objects : TempConnected(o) \/ TempDisconnected(o) \/ RouterLink(o)
    BY <2>2, <2>4, <2>5 DEF TempConnected, TempDisconnected, RouterLink, Closes
  <2>6. CASE \E o \in Objects : Recycled(o)
    BY <2>4, <2>6 DEF Recycled
  <2>7. ~Enable /\ ~Advertise /\ \A o \in Objects : ~ClientConnected(o) /\ ~ClientDisconnected(o) /\ ~SmpLink(o)
    BY <2>1, <2>2 DEF Enable, TempEnable, RouterEnable, ClientEnable, SmpEnable, Advertise,
       ClientConnected, ClientDisconnected, SmpLink
  <2>8. SwitchLed \/ TakeAdvertise \/ UNCHANGED vars \/ UNCHANGED allVars => object' = object
    BY DEF SwitchLed, TakeAdvertise, vars, allVars
  <2> QED
    BY <2>3, <2>5, <2>6, <2>7, <2>8 DEF RouterNext, Next, ChangeRole, StateChanged
<1> QED
  BY <1>1, Invariant, PTL DEF RouterSpec, OneConnectionOnly

(* The reference of coap_ed_temp, its works and its LED follow its connection,  *)
(* however many objects there are.                                              *)
THEOREM TempIsShown == RouterSpec => []TempConnectionShown
<1>1. NusInv => TempConnectionShown
  <2> SUFFICES ASSUME NusInv PROVE TempConnectionShown
    OBVIOUS
  <2>2. app = "coap_ed_temp" => current_conn = {o \in Objects : object[o] = "connected"}
    BY DEF NusInv, Kept
  <2>3. ASSUME app = "coap_ed_temp", LedSettled PROVE led <=> Is("connected")
    <3>1. /\ "on_connect" \in ToSet(<<"on_connect">>) /\ "on_disconnect" \in ToSet(<<"on_disconnect">>)
          /\ "on_connect" \in ToSet(<<"on_connect", "on_disconnect">>)
      BY DEF ToSet
    <3>2. \/ last = "none" /\ ~Is("connected") /\ ~led
          \/ last = "connected" /\ Is("connected") /\ led
          \/ last = "disconnected" /\ ~Is("connected") /\ ~led
      BY <2>3, <3>1 DEF NusInv, Kept, LedSettled
    <3> QED
      BY <3>2
  <2> QED
    BY <2>2, <2>3 DEF TempConnectionShown
<1> QED
  BY <1>1, Invariant, PTL

(* Whichever roles the callback misses, one of the two LEDs is lit exactly if   *)
(* the node is attached.                                                        *)
THEOREM AttachmentIsShown == RouterSpec => []LedsShowAttachment
<1>1. RouterInit => LedsShowAttachment
  BY DEF RouterInit, LedsShowAttachment, Attached
<1>2. ASSUME LedsShowAttachment, [RouterNext]_allVars PROVE LedsShowAttachment'
  <2>1. CASE StateChanged
    BY <2>1 DEF StateChanged, LedsShowAttachment, Attached
  <2>2. CASE ChangeRole
    BY <2>2 DEF ChangeRole, LedsShowAttachment
  <2>3. CASE UNCHANGED routerVars
    BY <1>2, <2>3 DEF routerVars, LedsShowAttachment
  <2> QED
    BY <1>2, <2>1, <2>2, <2>3 DEF RouterNext, allVars
<1> QED
  BY <1>1, <1>2, PTL DEF RouterSpec

-------------------------------------------------------------------------------
(* The other two programs: once Bluetooth is up, a device that is not connected *)
(* advertises, has an object that is yet to be recycled, or has the work to     *)
(* advertise queued or running.                                                 *)
WayBack ==
  app \in Again /\ up =>
    \/ Is("connected") \/ Is("advertising") \/ Is("closing")
    \/ advertising \/ "advertise" \in ToSet(workq)

\* An attempt to advertise fails only for a reason that shows in an object.
LEMMA AttemptShows ==
  ASSUME TypeOK, AdvStart
  PROVE  Is("connected")' \/ Is("advertising")' \/ Is("closing")'
<1>1. CASE \E o \in Objects : object[o] = "free" /\ object' = [object EXCEPT ![o] = "advertising"]
  BY <1>1 DEF TypeOK, Is
<1>2. CASE (Is("advertising") \/ ~Is("free")) /\ UNCHANGED object
  BY <1>2, ObjectsAssumption DEF TypeOK, Is, Use
<1> QED
  BY <1>1, <1>2 DEF AdvStart

\* A work that is submitted is queued, and those queued before stay.
LEMMA SubmitKeeps ==
  ASSUME NEW q \in Seq(Work), NEW w \in Work
  PROVE  w \in ToSet(Submit(q, w)) /\ ToSet(q) \subseteq ToSet(Submit(q, w))
<1>1. CASE w \in ToSet(q)
  BY <1>1 DEF Submit
<1>2. CASE w \notin ToSet(q)
  <2>1. /\ DOMAIN q = 1 .. Len(q) /\ DOMAIN Append(q, w) = 1 .. Len(q) + 1 /\ Len(q) \in Nat
        /\ \A i \in 1 .. Len(q) : Append(q, w)[i] = q[i]
        /\ Append(q, w)[Len(q) + 1] = w
    OBVIOUS
  <2>2. w \in ToSet(Append(q, w))
    BY <2>1 DEF ToSet
  <2>3. \A v \in ToSet(q) : v \in ToSet(Append(q, w))
    BY <2>1 DEF ToSet
  <2> QED
    BY <1>2, <2>2, <2>3 DEF Submit
<1> QED
  BY <1>1, <1>2

\* The works behind the oldest stay.
LEMMA TakenKeeps ==
  ASSUME TypeOK, NEW w, Taken(w), NEW v \in ToSet(workq), v # w
  PROVE  v \in ToSet(workq')
<1>1. workq # <<>> /\ workq' = Tail(workq) /\ Head(workq) = w
  BY DEF Taken
<1>2. /\ DOMAIN workq = 1 .. Len(workq) /\ Len(workq) \in Nat /\ workq[1] = w
      /\ DOMAIN Tail(workq) = 1 .. Len(workq) - 1
      /\ \A i \in 1 .. Len(workq) - 1 : Tail(workq)[i] = workq[i + 1]
  BY <1>1, TakenType DEF TypeOK
<1>3. PICK i \in 1 .. Len(workq) : workq[i] = v
  BY <1>2 DEF ToSet
<1>4. i - 1 \in 1 .. Len(workq) - 1 /\ Tail(workq)[i - 1] = v
  BY <1>2, <1>3
<1> QED
  BY <1>1, <1>2, <1>4 DEF ToSet

LEMMA WayBackStep == TypeOK /\ WayBack /\ [Next]_vars => WayBack'
<1> SUFFICES ASSUME TypeOK, WayBack, [Next]_vars, app' \in Again, up' PROVE WayBack'
  BY DEF WayBack
<1> USE DEF history
<1>1. app' = app
  BY DEF Next, Enable, TempEnable, RouterEnable, ClientEnable, SmpEnable, SwitchLed, TakeAdvertise,
     Advertise, TempConnected, TempDisconnected, RouterLink, ClientConnected, ClientDisconnected,
     SmpLink, Recycled, vars
<1>2. app \notin {"coap_ed_temp", "coap_router"}
  BY <1>1 DEF Again
<1>3. "advertise" \in Work /\ "advertise" \in ToSet(Submit(workq, "advertise"))
  BY SubmitKeeps DEF Work, TypeOK
<1>4. ASSUME NEW o \in Objects, Opens(o) \/ Closes(o, "advertising") \/ Closes(o, "connected")
      PROVE  Is("connected")' \/ Is("closing")'
  BY <1>4 DEF Opens, Closes, Is, TypeOK
<1>5. CASE Enable
  BY <1>2, <1>3, <1>5 DEF Enable, TempEnable, RouterEnable, ClientEnable, SmpEnable, WayBack
<1>6. CASE SwitchLed
  <2>1. UNCHANGED <<app, object, up, advertising>>
    BY <1>6 DEF SwitchLed
  <2>2. "advertise" \in ToSet(workq) => "advertise" \in ToSet(workq')
    BY <1>6, TakenKeeps DEF SwitchLed
  <2> QED
    BY <2>1, <2>2 DEF WayBack, Is
<1>7. CASE TakeAdvertise
  BY <1>7 DEF TakeAdvertise, WayBack
<1>8. CASE Advertise
  BY <1>8, AttemptShows DEF Advertise, WayBack
<1>9. CASE \E o \in Objects : ClientConnected(o) \/ ClientDisconnected(o) \/ SmpLink(o)
  BY <1>4, <1>9 DEF ClientConnected, ClientDisconnected, SmpLink, WayBack
<1>10. CASE \E o \in Objects : Recycled(o)
  BY <1>1, <1>3, <1>10 DEF Recycled, WayBack
<1>11. CASE \E o \in Objects : TempConnected(o) \/ TempDisconnected(o) \/ RouterLink(o)
  BY <1>2, <1>11 DEF TempConnected, TempDisconnected, RouterLink
<1>12. CASE UNCHANGED vars
  BY <1>12 DEF vars, WayBack, Is
<1> QED
  BY <1>5, <1>6, <1>7, <1>8, <1>9, <1>10, <1>11, <1>12 DEF Next

(* However many objects there are and whoever tried to advertise in vain, a     *)
(* program with advertise_work never ends up silent: what FoundAgain needs      *)
(* besides fairness.                                                            *)
THEOREM AlwaysAWayBack == RouterSpec => []WayBack
<1>1. RouterInit => WayBack
  BY DEF RouterInit, Init, WayBack
<1>2. NusInv /\ WayBack /\ [RouterNext]_allVars => WayBack'
  <2>1. [RouterNext]_allVars => [Next]_vars
    BY DEF RouterNext, ChangeRole, StateChanged, allVars
  <2> QED
    BY <2>1, WayBackStep DEF NusInv
<1> QED
  BY <1>1, <1>2, Invariant, PTL DEF RouterSpec

===============================================================================
