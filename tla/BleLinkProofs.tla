---------------------------- MODULE BleLinkProofs -----------------------------
(* The link keeps a way back to advertising and the flag of crs_ble.c follows   *)
(* the peers' subscriptions, for every number of connection objects, all sets   *)
(* of listeners and of CCC values.                                              *)
EXTENDS CrsLink, FiniteSetTheorems, SequenceTheorems, TLAPS

(* An attempt to advertise fails only for a reason that shows in an object.     *)
LEMMA AttemptShows ==
  ASSUME TypeOK, AdvStart
  PROVE  /\ object' \in [Objects -> {"free", "advertising", "connected", "closing"}]
         /\ Is("connected")' \/ Is("advertising")' \/ Is("closing")'
<1>1. CASE \E o \in Objects : object[o] = "free" /\ object' = [object EXCEPT ![o] = "advertising"]
  BY <1>1 DEF TypeOK, Is
<1>2. CASE (Is("advertising") \/ ~Is("free")) /\ UNCHANGED object
  BY <1>2, ObjectsAssumption DEF TypeOK, Is
<1> QED
  BY <1>1, <1>2 DEF AdvStart

(* Types are kept by every step.                                                *)
LEMMA TypeStep == TypeOK /\ [Next]_vars => TypeOK'
<1> SUFFICES ASSUME TypeOK, [Next]_vars PROVE TypeOK'
  OBVIOUS
<1> USE DEF TypeOK, work
<1>1. CASE BtReady
  BY <1>1 DEF BtReady, SubmitAdvertise
<1>2. CASE TakeWork
  BY <1>2 DEF TakeWork
<1>3. CASE Advertise
  BY <1>3, AttemptShows DEF Advertise
<1>4. CASE \E o \in Objects : Connected(o)
  BY <1>4 DEF Connected
<1>5. CASE \E o \in Objects : ConnectFailed(o)
  BY <1>5 DEF ConnectFailed, SubmitAdvertise
<1>6. CASE \E o \in Objects : Disconnected(o)
  BY <1>6 DEF Disconnected
<1>7. CASE \E o \in Objects : Recycled(o)
  BY <1>7 DEF Recycled, SubmitAdvertise
<1>8. CASE TestAndClear
  BY <1>8 DEF TestAndClear
<1>9. CASE StartAgain
  BY <1>9, AttemptShows DEF StartAgain
<1>10. CASE UNCHANGED vars
  BY <1>10 DEF vars
<1> QED
  BY <1>1, <1>2, <1>3, <1>4, <1>5, <1>6, <1>7, <1>8, <1>9, <1>10 DEF Next

LEMMA NeverSilentStep == TypeOK /\ NeverSilent /\ [Next]_vars => NeverSilent'
<1> SUFFICES ASSUME TypeOK, NeverSilent, [Next]_vars PROVE NeverSilent'
  OBVIOUS
<1> USE DEF NeverSilent, work
<1>1. CASE BtReady
  BY <1>1 DEF BtReady, SubmitAdvertise
<1>2. CASE TakeWork
  BY <1>2 DEF TakeWork
<1>3. CASE Advertise
  BY <1>3, AttemptShows DEF Advertise
<1>4. CASE \E o \in Objects : Connected(o)
  BY <1>4 DEF Connected, TypeOK, Is
<1>5. CASE \E o \in Objects : ConnectFailed(o)
  BY <1>5 DEF ConnectFailed, TypeOK, Is
<1>6. CASE \E o \in Objects : Disconnected(o)
  BY <1>6 DEF Disconnected
<1>7. CASE \E o \in Objects : Recycled(o)
  BY <1>7 DEF Recycled, SubmitAdvertise
<1>8. CASE TestAndClear
  BY <1>8 DEF TestAndClear
<1>9. CASE StartAgain
  BY <1>9, AttemptShows DEF StartAgain
<1>10. CASE UNCHANGED vars
  BY <1>10 DEF vars, Is
<1> QED
  BY <1>1, <1>2, <1>3, <1>4, <1>5, <1>6, <1>7, <1>8, <1>9, <1>10 DEF Next

(* The service only watches the link.                                           *)
LEMMA LinkSteps == [CrsNext]_allVars => [Next]_vars
  BY DEF CrsNext, LinkStep, LoopTestAndClear, PeerGone, Register, Unregister, Subscribe,
     ControlPointWrite, allVars, Next

(* A device that is ready, and neither connected nor advertising, always has    *)
(* something under way that makes it advertise, whoever tried before in vain.   *)
THEOREM AlwaysAWayBack == CrsSpec => []NeverSilent
<1>1. CrsInit => TypeOK /\ NeverSilent
  BY DEF CrsInit, Init, TypeOK, NeverSilent
<1>2. TypeOK /\ NeverSilent /\ [CrsNext]_allVars => TypeOK' /\ NeverSilent'
  BY LinkSteps, TypeStep, NeverSilentStep
<1> QED
  BY <1>1, <1>2, PTL DEF CrsSpec

-------------------------------------------------------------------------------
(* The stack's summary of the CCC values is one of them, and the greatest.      *)
LEMMA HighestIs ==
  ASSUME NEW v \in [Objects -> Ccc]
  PROVE  /\ Highest(v) \in 0 .. 3
         /\ \E o \in Objects : v[o] = Highest(v)
         /\ \A o \in Objects : v[o] <= Highest(v)
<1> DEFINE S == {v[o] : o \in Objects}
<1>1. S # {} /\ S \subseteq 0 .. 3
  BY ObjectsAssumption, CrsAssumption
<1> HIDE DEF S
<1>2. \E x \in S : \A y \in S : x >= y
  <2>0. \A y \in S : y = 0 \/ y = 1 \/ y = 2 \/ y = 3
    BY <1>1
  <2>1. CASE 3 \in S
    BY <2>0, <2>1
  <2>2. CASE 3 \notin S /\ 2 \in S
    <3>1. ASSUME NEW y \in S PROVE 2 >= y
      <4>1. y # 3
        BY <2>2
      <4> QED
        BY <2>0, <4>1
    <3> QED
      BY <2>2, <3>1
  <2>3. CASE 3 \notin S /\ 2 \notin S /\ 1 \in S
    <3>1. \A y \in S : 1 >= y
      BY <2>0, <2>3
    <3> QED
      BY <2>3, <3>1
  <2>4. CASE 3 \notin S /\ 2 \notin S /\ 1 \notin S
    <3>1. \A y \in S : y = 0
      BY <2>0, <2>4
    <3>2. 0 \in S
      BY <1>1, <3>1
    <3>3. \A y \in S : 0 >= y
      BY <3>1
    <3> QED
      BY <3>2, <3>3
  <2> QED
    BY <2>1, <2>2, <2>3, <2>4
<1>3. Max(S) \in S /\ \A y \in S : Max(S) >= y
  BY <1>2 DEF Max
<1>4. Highest(v) = Max(S)
  BY DEF Highest, S
<1>5. \A o \in Objects : v[o] \in S
  BY DEF S
<1>6. \A x \in S : x \in 0 .. 3 /\ \E o \in Objects : v[o] = x
  BY <1>1 DEF S
<1> QED
  BY <1>3, <1>4, <1>5, <1>6

(* Only connected peers have a subscription, and crs_ble.c knows the summary    *)
(* unless the last report of it came too early.                                 *)
Subscribed ==
  /\ crs_cbs \in Seq(Listener)
  /\ ccc \in [Objects -> Ccc]
  /\ \A o \in Objects : ccc[o] # 0 => object[o] = "connected"
  /\ crf_ntf_enabled => registered /\ Highest(ccc) = BT_GATT_CCC_NOTIFY
  /\ ~missed => (crf_ntf_enabled <=> Highest(ccc) = BT_GATT_CCC_NOTIFY)

LEMMA SubscribedInit == CrsInit => Subscribed
<1> SUFFICES ASSUME CrsInit PROVE Subscribed
  OBVIOUS
<1>1. ccc \in [Objects -> Ccc] /\ \A o \in Objects : ccc[o] = 0
  BY CrsAssumption DEF CrsInit
<1>2. Highest(ccc) = 0
  BY <1>1, HighestIs
<1> QED
  BY <1>1, <1>2 DEF CrsInit, Subscribed, BT_GATT_CCC_NOTIFY

(* What a change of one CCC value does to the rest.                             *)
LEMMA ChangeKeeps ==
  ASSUME Subscribed, NEW o \in Objects, NEW value \in Ccc, CccChanged(o, value), UNCHANGED crs_cbs
  PROVE  /\ ccc' \in [Objects -> Ccc]
         /\ crf_ntf_enabled' => registered' /\ Highest(ccc') = BT_GATT_CCC_NOTIFY
         /\ ~missed' => (crf_ntf_enabled' <=> Highest(ccc') = BT_GATT_CCC_NOTIFY)
<1>1. ccc' \in [Objects -> Ccc] /\ registered' = registered
  BY DEF Subscribed, CccChanged, registered
<1>2. CASE Highest(ccc') = Highest(ccc) /\ UNCHANGED <<crf_ntf_enabled, missed>>
  BY <1>1, <1>2 DEF Subscribed
<1>3. CASE NtfChanged(Highest(ccc')) /\ missed' = ~registered /\ ~registered
  BY <1>1, <1>3 DEF Subscribed, NtfChanged
<1>4. CASE NtfChanged(Highest(ccc')) /\ missed' = ~registered /\ registered
  BY <1>1, <1>4 DEF Subscribed, NtfChanged
<1> QED
  BY <1>1, <1>2, <1>3, <1>4 DEF CccChanged

(* Taking one element out leaves the others, in order.                          *)
LEMMA RemoveAtIs ==
  ASSUME NEW S, NEW s \in Seq(S), NEW i \in DOMAIN s
  PROVE  /\ RemoveAt(s, i) \in Seq(S)
         /\ DOMAIN RemoveAt(s, i) = 1 .. Len(s) - 1
         /\ \A j \in 1 .. Len(s) - 1 : RemoveAt(s, i)[j] = IF j < i THEN s[j] ELSE s[j + 1]
<1> DEFINE a == SubSeq(s, 1, i - 1)
           b == SubSeq(s, i + 1, Len(s))
<1>1. DOMAIN s = 1 .. Len(s) /\ Len(s) \in Nat /\ i \in 1 .. Len(s)
  OBVIOUS
<1>2. a \in Seq(S) /\ Len(a) = i - 1 /\ \A j \in 1 .. i - 1 : a[j] = s[j]
  BY <1>1, SubSeqProperties
<1>3. b \in Seq(S) /\ Len(b) = Len(s) - i /\ \A j \in 1 .. Len(s) - i : b[j] = s[i + j]
  BY <1>1, SubSeqProperties
<1> DEFINE c == a \o b
<1> HIDE DEF a, b
<1>4. /\ c \in Seq(S) /\ Len(c) = Len(a) + Len(b)
      /\ \A j \in 1 .. Len(a) + Len(b) : c[j] = IF j <= Len(a) THEN a[j] ELSE b[j - Len(a)]
  BY <1>2, <1>3, ConcatProperties
<1> HIDE DEF c
<1>5. DOMAIN c = 1 .. Len(s) - 1 /\ Len(a) + Len(b) = Len(s) - 1
  BY <1>1, <1>2, <1>3, <1>4
<1>6. ASSUME NEW j \in 1 .. Len(s) - 1 PROVE c[j] = IF j < i THEN s[j] ELSE s[j + 1]
  <2>1. CASE j < i
    <3>1. j \in 1 .. i - 1 /\ j <= Len(a)
      BY <1>1, <1>2, <2>1
    <3> QED
      BY <1>2, <1>4, <1>5, <2>1, <3>1
  <2>2. CASE ~(j < i)
    <3>1. j - Len(a) \in 1 .. Len(s) - i /\ ~(j <= Len(a)) /\ i + (j - Len(a)) = j + 1
      BY <1>1, <1>2, <2>2
    <3>2. b[j - Len(a)] = s[j + 1]
      BY <1>3, <3>1
    <3> QED
      BY <1>4, <1>5, <2>2, <3>1, <3>2
  <2> QED
    BY <2>1, <2>2
<1> QED
  BY <1>4, <1>5, <1>6 DEF RemoveAt, a, b, c

LEMMA Removed ==
  ASSUME NEW S, NEW s \in Seq(S), NEW i \in DOMAIN s
  PROVE  /\ RemoveAt(s, i) \in Seq(S)
         /\ \A j \in DOMAIN s \ {i} : \E k \in DOMAIN RemoveAt(s, i) : RemoveAt(s, i)[k] = s[j]
<1> DEFINE c == RemoveAt(s, i)
<1>1. DOMAIN s = 1 .. Len(s) /\ Len(s) \in Nat /\ i \in 1 .. Len(s)
  OBVIOUS
<1>2. /\ c \in Seq(S) /\ DOMAIN c = 1 .. Len(s) - 1
      /\ \A j \in 1 .. Len(s) - 1 : c[j] = IF j < i THEN s[j] ELSE s[j + 1]
  BY RemoveAtIs
<1> HIDE DEF c
<1>3. ASSUME NEW j \in DOMAIN s \ {i} PROVE \E k \in DOMAIN c : c[k] = s[j]
  <2>1. CASE j < i
    BY <1>1, <1>2, <2>1
  <2>2. CASE j > i
    <3>1. j - 1 \in 1 .. Len(s) - 1 /\ ~(j - 1 < i) /\ (j - 1) + 1 = j
      BY <1>1, <2>2
    <3> QED
      BY <1>2, <3>1
  <2> QED
    BY <1>1, <2>1, <2>2
<1> QED
  BY <1>2, <1>3 DEF c

LEMMA SubscribedStep == TypeOK /\ Subscribed /\ [CrsNext]_allVars => Subscribed'
<1> SUFFICES ASSUME TypeOK, Subscribed, [CrsNext]_allVars PROVE Subscribed'
  OBVIOUS
<1>1. ASSUME UNCHANGED <<ccc, crf_ntf_enabled, missed>>, registered => registered',
             crs_cbs' \in Seq(Listener),
             \A o \in Objects : object[o] = "connected" => object'[o] = "connected"
      PROVE  Subscribed'
  <2>1. ccc' = ccc /\ Highest(ccc') = Highest(ccc)
    BY <1>1
  <2> QED
    BY <1>1, <2>1 DEF Subscribed
<1>2. CASE LinkStep /\ UNCHANGED crsVars
  <2>1. \A o \in Objects : object[o] = "connected" => object'[o] = "connected"
    BY <1>2 DEF LinkStep, BtReady, TakeWork, Advertise, LoopTestAndClear, TestAndClear, StartAgain,
       Connected, ConnectFailed, Recycled, AdvStart, TypeOK
  <2>2. UNCHANGED <<ccc, crf_ntf_enabled, missed, crs_cbs>>
    BY <1>2 DEF crsVars
  <2> QED
    BY <1>1, <2>1, <2>2 DEF registered, Subscribed
<1>3. ASSUME NEW o \in Objects, PeerGone(o) PROVE Subscribed'
  <2>1. CccChanged(o, 0) /\ 0 \in Ccc /\ UNCHANGED crs_cbs
    BY <1>3, CrsAssumption DEF PeerGone
  <2>2. ccc' = [ccc EXCEPT ![o] = 0] /\ object' = [object EXCEPT ![o] = "closing"]
    BY <1>3 DEF PeerGone, CccChanged, Disconnected
  <2>3. \A k \in Objects : ccc'[k] # 0 => object'[k] = "connected"
    BY <2>2 DEF Subscribed, TypeOK
  <2> QED
    BY <2>1, <2>3, ChangeKeeps DEF Subscribed
<1>4. ASSUME NEW o \in Objects, NEW value \in Ccc, Subscribe(o, value) PROVE Subscribed'
  <2>1. CccChanged(o, value) /\ UNCHANGED crs_cbs
    BY <1>4 DEF Subscribe
  <2>2. ccc' = [ccc EXCEPT ![o] = value] /\ object' = object /\ object[o] = "connected"
    BY <1>4 DEF Subscribe, CccChanged, vars
  <2>3. \A k \in Objects : ccc'[k] # 0 => object'[k] = "connected"
    BY <2>2 DEF Subscribed
  <2> QED
    BY <2>1, <2>3, ChangeKeeps DEF Subscribed
<1>5. ASSUME NEW l \in Listener, Register(l) PROVE Subscribed'
  <2>1. /\ crs_cbs \in Seq(Listener) /\ crs_cbs' = Append(crs_cbs, l)
        /\ UNCHANGED <<object, ccc, crf_ntf_enabled, missed>>
    BY <1>5 DEF Register, vars, Subscribed
  <2>2. /\ crs_cbs' \in Seq(Listener) /\ DOMAIN crs_cbs \subseteq DOMAIN crs_cbs'
        /\ \A i \in DOMAIN crs_cbs : crs_cbs'[i] = crs_cbs[i]
    BY <2>1
  <2>3. registered => registered'
    BY <2>2 DEF registered, ToSet
  <2> QED
    BY <1>1, <2>1, <2>2, <2>3
<1>6. ASSUME NEW l \in Listener, Unregister(l) PROVE Subscribed'
  <2>1. /\ crs_cbs \in Seq(Listener) /\ l # "crs_cb"
        /\ UNCHANGED <<object, ccc, crf_ntf_enabled, missed>>
    BY <1>6, CrsAssumption DEF Unregister, vars, Subscribed
  <2>2. PICK i \in DOMAIN crs_cbs : crs_cbs[i] = l /\ crs_cbs' = RemoveAt(crs_cbs, i)
    BY <1>6 DEF Unregister
  <2>3. /\ crs_cbs' \in Seq(Listener)
        /\ \A j \in DOMAIN crs_cbs \ {i} : \E k \in DOMAIN crs_cbs' : crs_cbs'[k] = crs_cbs[j]
    BY <2>1, <2>2, Removed
  <2>4. registered => registered'
    BY <2>1, <2>2, <2>3 DEF registered, ToSet
  <2> QED
    BY <1>1, <2>1, <2>3, <2>4
<1>7. CASE ControlPointWrite
  BY <1>1, <1>7 DEF ControlPointWrite, vars, registered, Subscribed
<1>8. CASE UNCHANGED allVars
  BY <1>1, <1>8 DEF allVars, vars, crsVars, registered, Subscribed
<1> QED
  BY <1>2, <1>3, <1>4, <1>5, <1>6, <1>7, <1>8 DEF CrsNext

(* crs_ble.c hands frames to the stack only while a peer subscribes, for any    *)
(* number of peers that come, subscribe and go in any order; a subscriber gets  *)
(* none only after a subscription before crs_cb, or beside one for indications. *)
THEOREM FlagFollows == CrsSpec => []FlagFollowsPeers
<1>1. Subscribed => FlagFollowsPeers
  <2> SUFFICES ASSUME Subscribed PROVE FlagFollowsPeers
    OBVIOUS
  <2>1. /\ Highest(ccc) \in 0 .. 3
        /\ \E o \in Objects : ccc[o] = Highest(ccc)
        /\ \A o \in Objects : ccc[o] <= Highest(ccc)
    BY HighestIs DEF Subscribed
  <2>2. crf_ntf_enabled => Notified # {}
    BY <2>1 DEF Subscribed, Notified, BT_GATT_CCC_NOTIFY
  <2>3. ASSUME NEW o \in Objects, ccc[o] = BT_GATT_CCC_NOTIFY, o \notin Notified, ~missed
        PROVE  \E k \in Objects : ccc[k] > BT_GATT_CCC_NOTIFY
    <3>1. object[o] = "connected"
      BY <2>3 DEF Subscribed, BT_GATT_CCC_NOTIFY
    <3>2. ~crf_ntf_enabled
      BY <2>3, <3>1 DEF Notified
    <3>3. Highest(ccc) # BT_GATT_CCC_NOTIFY /\ ccc[o] <= Highest(ccc)
      BY <2>1, <2>3, <3>2 DEF Subscribed
    <3>4. Highest(ccc) > BT_GATT_CCC_NOTIFY
      BY <2>1, <2>3, <3>3 DEF BT_GATT_CCC_NOTIFY
    <3> QED
      BY <2>1, <3>4
  <2> QED
    BY <2>2, <2>3 DEF FlagFollowsPeers
<1>2. CrsInit => TypeOK
  BY DEF CrsInit, Init, TypeOK
<1>3. TypeOK /\ [CrsNext]_allVars => TypeOK'
  BY LinkSteps, TypeStep
<1> QED
  BY <1>1, <1>2, <1>3, SubscribedInit, SubscribedStep, PTL DEF CrsSpec

-------------------------------------------------------------------------------
(* Adding a listener that is not there, or taking one out, repeats none.        *)
LEMMA AppendDistinct ==
  ASSUME NEW S, NEW s \in Seq(S), IsInjective(s), NEW x \in S, x \notin ToSet(s)
  PROVE  Append(s, x) \in Seq(S) /\ IsInjective(Append(s, x))
<1> DEFINE r == Append(s, x)
<1>1. r \in Seq(S) /\ DOMAIN r = 1 .. Len(s) + 1 /\ r[Len(s) + 1] = x
  OBVIOUS
<1>2. Len(s) \in Nat /\ DOMAIN s = 1 .. Len(s) /\ \A i \in 1 .. Len(s) : r[i] = s[i]
  OBVIOUS
<1>3. \A i \in 1 .. Len(s) : s[i] # x
  BY <1>2 DEF ToSet
<1> HIDE DEF r
<1>4. IsInjective(r)
  BY <1>1, <1>2, <1>3 DEF IsInjective
<1> QED
  BY <1>1, <1>4 DEF r

LEMMA RemoveDistinct ==
  ASSUME NEW S, NEW s \in Seq(S), IsInjective(s), NEW i \in DOMAIN s
  PROVE  IsInjective(RemoveAt(s, i))
<1> DEFINE c == RemoveAt(s, i)
<1>1. DOMAIN s = 1 .. Len(s) /\ Len(s) \in Nat /\ i \in 1 .. Len(s)
  OBVIOUS
<1>2. /\ DOMAIN c = 1 .. Len(s) - 1
      /\ \A j \in 1 .. Len(s) - 1 : c[j] = IF j < i THEN s[j] ELSE s[j + 1]
  BY RemoveAtIs
<1> HIDE DEF c
<1>3. ASSUME NEW p \in 1 .. Len(s) - 1, NEW q \in 1 .. Len(s) - 1, c[p] = c[q] PROVE p = q
  <2> DEFINE At(j) == IF j < i THEN j ELSE j + 1
  <2>1. At(p) \in DOMAIN s /\ At(q) \in DOMAIN s
    BY <1>1
  <2>2. c[p] = s[At(p)] /\ c[q] = s[At(q)]
    BY <1>2
  <2>3. At(p) = At(q)
    <3> HIDE DEF At
    <3> QED
      BY <1>3, <2>1, <2>2 DEF IsInjective
  <2> QED
    BY <1>1, <2>3
<1>4. IsInjective(c)
  BY <1>2, <1>3 DEF IsInjective
<1> QED
  BY <1>4 DEF c

(* What ctrl_point_write collects, and the answer it gives.                     *)
LEMMA CollectIs ==
  ASSUME NEW n \in Nat, NEW asked \in Collect(n)
  PROVE  /\ asked \in Seq(Result) /\ Answer(asked) \in Reply
         /\ Answer(asked) = "UNLIKELY" <=> "error" \in ToSet(asked)
         /\ Answer(asked) = "len" => "served" \in ToSet(asked)
<1>1. asked \in Seq(Result) /\ \A i \in 1 .. Len(asked) - 1 : asked[i] # "error"
  BY DEF Collect
<1>2. Len(asked) \in Nat /\ DOMAIN asked = 1 .. Len(asked)
  BY <1>1
<1>3. CASE asked = <<>>
  <2>1. Answer(asked) = "NOT_SUPPORTED" /\ ToSet(asked) = {}
    BY <1>3 DEF Answer, ToSet
  <2> QED
    BY <1>1, <2>1 DEF Reply
<1>4. CASE asked # <<>>
  <2>1. Len(asked) \in 1 .. Len(asked) /\ Last(asked) = asked[Len(asked)]
    BY <1>1, <1>2, <1>4 DEF Last
  <2>2. Last(asked) \in Result /\ Last(asked) \in ToSet(asked)
    BY <1>1, <1>2, <2>1 DEF ToSet
  <2>3. "error" \in ToSet(asked) => Last(asked) = "error"
    <3>1. \A i \in DOMAIN asked : asked[i] = "error" => i = Len(asked)
      BY <1>1, <1>2
    <3> QED
      BY <2>1, <3>1 DEF ToSet
  <2>4. CASE Last(asked) = "error"
    <3>1. Answer(asked) = "UNLIKELY"
      BY <1>4, <2>4 DEF Answer
    <3> QED
      BY <1>1, <2>2, <2>4, <3>1 DEF Reply
  <2>5. CASE Last(asked) = "ENOTSUP"
    <3>1. Answer(asked) = "NOT_SUPPORTED"
      BY <1>4, <2>5 DEF Answer
    <3> QED
      BY <1>1, <2>3, <2>5, <3>1 DEF Reply
  <2>6. CASE Last(asked) = "served"
    <3>1. Answer(asked) = "len"
      BY <1>4, <2>6 DEF Answer
    <3> QED
      BY <1>1, <2>2, <2>3, <2>6, <3>1 DEF Reply
  <2> QED
    BY <2>2, <2>4, <2>5, <2>6 DEF Result
<1> QED
  BY <1>3, <1>4

(* Every write to the control point collects from a number of listeners.        *)
LEMMA WriteCollects ==
  ASSUME crs_cbs \in Seq(Listener), ControlPointWrite
  PROVE  \E n \in Nat : \E asked \in Collect(n) : answer' = [asked |-> asked, reply |-> Answer(asked)]
<1> DEFINE handlers == {i \in DOMAIN crs_cbs : crs_cbs[i] \in Handlers}
<1>1. Len(crs_cbs) \in Nat /\ DOMAIN crs_cbs = 1 .. Len(crs_cbs)
  OBVIOUS
<1>2. IsFiniteSet(1 .. Len(crs_cbs)) /\ handlers \subseteq 1 .. Len(crs_cbs)
  BY <1>1, FS_Interval
<1>3. Cardinality(handlers) \in Nat
  BY <1>2, FS_Subset, FS_CardinalityType
<1> QED
  BY <1>3 DEF ControlPointWrite

(* What the code keeps of crs.h's words: an error of a listener, and nothing    *)
(* else, ends the request in an error, and only a request that was served is    *)
(* confirmed.                                                                   *)
ErrorsEndRequests ==
  LET asked == ToSet(answer.asked)
  IN  /\ answer.reply = "UNLIKELY" <=> "error" \in asked
      /\ answer.reply = "len" => "served" \in asked

CrsInv == CrsTypeOK /\ ErrorsEndRequests

LEMMA CrsInvStep == CrsInv /\ [CrsNext]_allVars => CrsInv'
<1> SUFFICES ASSUME CrsInv, [CrsNext]_allVars PROVE CrsInv'
  OBVIOUS
<1>1. TypeOK'
  BY LinkSteps, TypeStep DEF CrsInv, CrsTypeOK
<1>2. ASSUME UNCHANGED answer,
             crs_cbs' \in Seq(Listener) /\ IsInjective(crs_cbs'),
             ccc' \in [Objects -> Ccc],
             crf_ntf_enabled' \in BOOLEAN, missed' \in BOOLEAN
      PROVE  CrsInv'
  BY <1>1, <1>2 DEF CrsInv, CrsTypeOK, ErrorsEndRequests
<1>3. ASSUME NEW o \in Objects, NEW value \in Ccc, CccChanged(o, value), UNCHANGED <<crs_cbs, answer>>
      PROVE  CrsInv'
  <2>1. crf_ntf_enabled' \in BOOLEAN /\ missed' \in BOOLEAN
    BY <1>3 DEF CccChanged, NtfChanged, CrsInv, CrsTypeOK, registered
  <2> QED
    BY <1>2, <1>3, <2>1 DEF CccChanged, CrsInv, CrsTypeOK
<1>4. CASE LinkStep /\ UNCHANGED crsVars
  BY <1>2, <1>4 DEF crsVars, CrsInv, CrsTypeOK
<1>5. ASSUME NEW o \in Objects, PeerGone(o) PROVE CrsInv'
  BY <1>3, <1>5, CrsAssumption DEF PeerGone
<1>6. ASSUME NEW o \in Objects, NEW value \in Ccc, Subscribe(o, value) PROVE CrsInv'
  BY <1>3, <1>6 DEF Subscribe
<1>7. ASSUME NEW l \in Listener, Register(l) PROVE CrsInv'
  BY <1>2, <1>7, AppendDistinct DEF Register, CrsInv, CrsTypeOK
<1>8. ASSUME NEW l \in Listener, Unregister(l) PROVE CrsInv'
  BY <1>2, <1>8, Removed, RemoveDistinct DEF Unregister, CrsInv, CrsTypeOK
<1>9. CASE ControlPointWrite
  <2>0. PICK n \in Nat : \E asked \in Collect(n) : answer' = [asked |-> asked, reply |-> Answer(asked)]
    BY <1>9, WriteCollects DEF CrsInv, CrsTypeOK
  <2>1. PICK asked \in Collect(n) : answer' = [asked |-> asked, reply |-> Answer(asked)]
    BY <2>0
  <2>2. answer'.asked = asked /\ answer'.reply = Answer(asked)
    BY <2>1
  <2>3. ErrorsEndRequests' /\ answer'.asked \in Seq(Result) /\ answer'.reply \in Reply
    BY <2>2, CollectIs DEF ErrorsEndRequests
  <2> QED
    BY <1>1, <1>9, <2>3 DEF ControlPointWrite, CrsInv, CrsTypeOK
<1>10. CASE UNCHANGED allVars
  BY <1>2, <1>10 DEF allVars, crsVars, CrsInv, CrsTypeOK
<1> QED
  BY <1>4, <1>5, <1>6, <1>7, <1>8, <1>9, <1>10 DEF CrsNext

LEMMA CrsInvariant == CrsSpec => []CrsInv
<1>1. CrsInit => CrsInv
  <2> SUFFICES ASSUME CrsInit PROVE CrsInv
    OBVIOUS
  <2>1. TypeOK
    BY DEF CrsInit, Init, TypeOK
  <2>2. crs_cbs \in Seq(Listener) /\ IsInjective(crs_cbs) /\ ccc \in [Objects -> Ccc]
    BY CrsAssumption DEF CrsInit, IsInjective
  <2>3. answer.asked = <<>> /\ answer.reply = "NOT_SUPPORTED"
    BY DEF CrsInit, NoWrite
  <2>4. answer.asked \in Seq(Result) /\ answer.reply \in Reply /\ ErrorsEndRequests
    BY <2>3 DEF Reply, ErrorsEndRequests, ToSet
  <2> QED
    BY <2>1, <2>2, <2>4 DEF CrsInit, CrsInv, CrsTypeOK
<1> QED
  BY <1>1, CrsInvStep, PTL DEF CrsSpec

(* The service's variables keep their types, and no listener is there twice.    *)
THEOREM CrsTypeCorrect == CrsSpec => []CrsTypeOK
  BY CrsInvariant, PTL DEF CrsInv

(* For any number of listeners that come and go, a write to the control point   *)
(* ends in an error exactly if a listener failed, and is confirmed only if one  *)
(* served it (crs.h, but for what ServedIsAnswered states).                     *)
THEOREM ErrorsEnd == CrsSpec => []ErrorsEndRequests
  BY CrsInvariant, PTL DEF CrsInv

-------------------------------------------------------------------------------
(* The service and crs_ble.c use the link as BleLink describes it: no step of   *)
(* CrsLink does to the link what BleLink does not, so whatever is true of every *)
(* behaviour of BleLink is true in the composition. The CCC values the stack    *)
(* clears and the late start of ble_thread's loop only add to a step or delay   *)
(* it.                                                                          *)
THEOREM ImplementsBleLink == CrsSpec => Init /\ [][Next]_vars
<1>1. CrsInit => Init
  BY DEF CrsInit
<1> QED
  BY <1>1, LinkSteps, PTL DEF CrsSpec

===============================================================================
