----------------------------- MODULE ImuLinkProofs ----------------------------
(* The polling of the IMU, for every buffer size and every set of frames. The   *)
(* arguments are independent of one another and need only the types: that one   *)
(* request is outstanding at a time (Turns), that a device which waits has      *)
(* something coming that will end the wait (Waits), and what rx_buf holds of    *)
(* the frame that is arriving (Arriving).                                       *)
EXTENDS ImuLink, TLAPS

(* A frame is a sequence of at least two bytes.                                 *)
LEMMA FrameFacts ==
  ASSUME NEW f \in Frames
  PROVE  f \in Seq(Byte) /\ Len(f) \in Nat /\ Len(f) > 1 /\ f[1] # FD /\ f[Len(f)] = FD
<1>1. f \in Seq(Byte) /\ Len(f) > 1 /\ f[1] # FD /\ Last(f) = FD
  BY FramesAssumption
<1> QED
  BY <1>1 DEF Last

LEMMA TypeStep == TypeOK /\ [Next]_vars => TypeOK'
<1> SUFFICES ASSUME TypeOK, [Next]_vars PROVE TypeOK'
  OBVIOUS
<1> USE BufSizeAssumption, MaxUnaskedAssumption, MaxRequestsAssumption
<1>1. CASE StopAutoUpdate
  BY <1>1 DEF StopAutoUpdate, TypeOK, history
<1>2. CASE Test
  BY <1>2 DEF Test, TypeOK, imu, history
<1>3. CASE Send
  <2>1. requests' \in 0 .. MaxRequests
    BY <1>3 DEF Send, TypeOK
  <2>2. lost' \in BOOLEAN
    BY <1>3 DEF Send, TypeOK
  <2> QED
    BY <1>3, <2>1, <2>2 DEF Send, TypeOK
<1>4. CASE Clear
  BY <1>4 DEF Clear, TypeOK, imu, history
<1>5. CASE AnswerRequest
  BY <1>5, FrameFacts DEF AnswerRequest, Sending, TypeOK, thread
<1>6. CASE AutoUpdate
  BY <1>6, FrameFacts DEF AutoUpdate, Sending, TypeOK, thread
<1>7. CASE SerialCb
  <2>1. Head(wire) \in Byte /\ Tail(wire) \in Seq(Byte)
    BY <1>7 DEF SerialCb, TypeOK
  <2>2. FD \in Byte
    BY DEF Byte
  <2>3. Append(rx_buf, FD) \in Seq(Byte) /\ Len(Append(rx_buf, FD)) = Len(rx_buf) + 1
    BY <2>2 DEF TypeOK
  <2>4. Append(rx_buf, Head(wire)) \in Seq(Byte) /\ Len(Append(rx_buf, Head(wire))) = Len(rx_buf) + 1
    BY <2>1 DEF TypeOK
  <2>5. Len(rx_buf) \in Nat /\ Len(rx_buf) < BufSize /\ BufSize \in Nat /\ BufSize > 0
    BY DEF TypeOK
  <2>6. <<>> \in Seq(Byte) /\ Len(<<>>) = 0
    OBVIOUS
  <2>7. Collect(Head(wire)) /\ UNCHANGED <<pc, rereads, requests, unasked, split, chatty, lost>>
    BY <1>7 DEF SerialCb, thread
  <2>8. CASE Head(wire) = FD /\ rx_buf # <<>>
    <3>1. delivered' = Append(rx_buf, FD) /\ rx_buf' = <<>> /\ tx_buf_flag' = TRUE
      BY <2>8, <2>7 DEF Collect
    <3>2. raced' \in BOOLEAN
      BY <2>8, <2>7 DEF Collect, TypeOK
    <3>3. Len(delivered') <= BufSize /\ Len(rx_buf') < BufSize
      BY <2>3, <2>5, <2>6, <3>1
    <3> QED
      BY <2>1, <2>3, <2>6, <2>7, <3>1, <3>2, <3>3, <1>7 DEF SerialCb, TypeOK
  <2>9. CASE ~(Head(wire) = FD /\ rx_buf # <<>>)
    <3>1. rx_buf' = IF Len(rx_buf) < BufSize - 1 THEN Append(rx_buf, Head(wire)) ELSE rx_buf
      BY <2>7, <2>9 DEF Collect
    <3>2. rx_buf' \in Seq(Byte) /\ Len(rx_buf') < BufSize
      BY <3>1, <2>4, <2>5 DEF TypeOK
    <3>3. UNCHANGED <<tx_buf_flag, delivered, raced>>
      BY <2>7, <2>9 DEF Collect
    <3> QED
      BY <2>1, <2>7, <3>2, <3>3, <1>7 DEF SerialCb, TypeOK
  <2> QED
    BY <2>8, <2>9
<1>8. CASE UNCHANGED vars
  BY <1>8 DEF vars, thread, imu, history, TypeOK
<1> QED
  BY <1>1, <1>2, <1>3, <1>4, <1>5, <1>6, <1>7, <1>8 DEF Next

LEMMA InitTypes == Init => TypeOK
<1> SUFFICES ASSUME Init PROVE TypeOK
  OBVIOUS
<1>1. <<>> \in Seq(Byte) /\ Len(<<>>) = 0
  OBVIOUS
<1>2. rx_buf \in Seq(Byte) /\ Len(rx_buf) < BufSize /\ delivered \in Seq(Byte) /\ Len(delivered) <= BufSize
  BY <1>1, BufSizeAssumption DEF Init
<1>3. requests \in 0 .. MaxRequests
  BY MaxRequestsAssumption DEF Init
<1> QED
  BY <1>1, <1>2, <1>3 DEF Init, TypeOK

(* Every variable of the link keeps its type; rx_buf never overflows.           *)
THEOREM TypeCorrect == Spec => []TypeOK
  BY InitTypes, TypeStep, PTL DEF Spec

-------------------------------------------------------------------------------
(* No FD among the bytes to come but the last.                                  *)
Plain == \A i \in 1 .. Len(wire) - 1 : wire[i] # FD

(* The device's turn: the flag stands and nothing is outstanding. The IMU's     *)
(* turn: at most one request or its answer is.                                  *)
Turns ==
  ~split /\ ~chatty =>
    /\ Plain
    /\ pc \in {"stop", "send", "clear"} => tx_buf_flag
    /\ pc \in {"stop", "send"} \/ (pc = "test" /\ tx_buf_flag) => requests = 0 /\ wire = <<>>
    /\ requests = 0 \/ (requests = 1 /\ wire = <<>>)

(* What has been seen stays seen.                                               *)
LEMMA HistoryStays ==
  ASSUME TypeOK, [Next]_vars
  PROVE  (split => split') /\ (chatty => chatty') /\ (lost => lost') /\ (raced => raced')
<1>1. CASE StopAutoUpdate \/ Test \/ Clear \/ UNCHANGED vars
  BY <1>1 DEF StopAutoUpdate, Test, Clear, vars, history
<1>2. CASE Send
  BY <1>2 DEF Send
<1>3. CASE AnswerRequest
  BY <1>3 DEF AnswerRequest, Sending
<1>4. CASE AutoUpdate
  BY <1>4 DEF AutoUpdate, Sending
<1>5. CASE SerialCb
  BY <1>5 DEF SerialCb, Collect
<1> QED
  BY <1>1, <1>2, <1>3, <1>4, <1>5 DEF Next

LEMMA TurnsStep == TypeOK /\ Turns /\ [Next]_vars => Turns'
<1> SUFFICES ASSUME TypeOK, Turns, [Next]_vars, ~split', ~chatty' PROVE Turns'
  BY DEF Turns
<1>0. ~split /\ ~chatty
  BY HistoryStays
<1>1. CASE StopAutoUpdate
  BY <1>0, <1>1 DEF StopAutoUpdate, Turns, Plain, history
<1>2. CASE Test
  BY <1>0, <1>2 DEF Test, Turns, Plain, imu, history
<1>3. CASE Send
  BY <1>0, <1>3 DEF Send, Turns, Plain, TypeOK
<1>4. CASE Clear
  BY <1>0, <1>4 DEF Clear, Turns, Plain, imu, history
<1>5. CASE AnswerRequest
  <2>1. PICK f \in Frames : Sending(f)
    BY <1>5 DEF AnswerRequest
  <2>2. Plain'
    BY <2>1 DEF Sending, Plain
  <2> QED
    BY <1>0, <1>5, <2>1, <2>2 DEF AnswerRequest, Sending, Turns, thread, TypeOK
<1>6. CASE AutoUpdate
  BY <1>0, <1>6 DEF AutoUpdate
<1>7. CASE SerialCb
  <2>1. wire \in Seq(Byte) /\ wire # <<>> /\ wire' = Tail(wire)
    BY <1>7 DEF SerialCb, TypeOK
  <2>2. Len(wire) \in Nat /\ Len(wire) > 0 /\ Head(wire) = wire[1]
    BY <2>1
  <2>3. Len(wire') = Len(wire) - 1 /\ \A i \in 1 .. Len(wire') : wire'[i] = wire[i + 1]
    BY <2>1
  <2>4. Plain'
    BY <1>0, <2>2, <2>3 DEF Turns, Plain
  <2>5. requests = 0 /\ requests' = 0 /\ pc' = pc /\ ~(pc \in {"stop", "send"})
        /\ ~(pc = "test" /\ tx_buf_flag)
    BY <1>0, <1>7, <2>1 DEF SerialCb, Turns, thread, TypeOK
  <2>6. CASE Head(wire) = FD
    <3>1. wire' = <<>>
      BY <1>0, <2>1, <2>2, <2>3, <2>6 DEF Turns, Plain
    <3> QED
      BY <1>0, <1>7, <2>4, <2>5, <3>1 DEF Turns, SerialCb, Collect
  <2>7. CASE Head(wire) # FD
    BY <1>0, <1>7, <2>4, <2>5, <2>7 DEF Turns, SerialCb, Collect
  <2> QED
    BY <2>6, <2>7
<1>8. CASE UNCHANGED vars
  BY <1>0, <1>8 DEF vars, thread, imu, history, Turns, Plain
<1> QED
  BY <1>1, <1>2, <1>3, <1>4, <1>5, <1>6, <1>7, <1>8 DEF Next

(* While no data byte is FD and no frame comes unasked, the thread asks only    *)
(* when its last request has been answered, whatever was lost or overtaken.     *)
THEOREM OneAtATime == Spec => []OneRequestAtATime
<1>1. Init => Turns
  BY DEF Init, Turns, Plain
<1>2. Turns => OneRequestAtATime
  BY DEF Turns, OneRequestAtATime
<1> QED
  BY <1>1, <1>2, TypeCorrect, TurnsStep, PTL DEF Spec

-------------------------------------------------------------------------------
(* The frame that is arriving ends with FD.                                     *)
Ends == wire # <<>> => wire[Len(wire)] = FD

(* Something is coming that will end a segment: a request to be answered, or a  *)
(* frame that has begun to fill rx_buf, or is about to.                         *)
Coming ==
  \/ requests > 0
  \/ wire # <<>> /\ (rx_buf # <<>> \/ (Len(wire) > 1 /\ wire[1] # FD))

(* The thread will not ask before the flag is set, by the next segment.         *)
Waiting == pc = "clear" \/ (pc = "test" /\ ~tx_buf_flag)

Waits ==
  /\ Ends
  /\ pc = "stop" => tx_buf_flag
  /\ ~raced /\ ~lost /\ rereads => pc # "stuck" /\ (Waiting => Coming)

(* One byte less is to come.                                                    *)
LEMMA Taking ==
  ASSUME NEW s \in Seq(Byte), s # <<>>
  PROVE  /\ Len(s) \in Nat /\ Len(s) > 0 /\ Head(s) = s[1]
         /\ Tail(s) \in Seq(Byte) /\ Len(Tail(s)) = Len(s) - 1
         /\ \A i \in 1 .. Len(s) - 1 : Tail(s)[i] = s[i + 1]
  OBVIOUS

LEMMA WaitsStep == TypeOK /\ Waits /\ [Next]_vars => Waits'
<1> SUFFICES ASSUME TypeOK, Waits, [Next]_vars PROVE Waits'
  OBVIOUS
<1>0. (lost => lost') /\ (raced => raced')
  BY HistoryStays
<1> USE DEF Waits
<1>1. CASE StopAutoUpdate
  BY <1>1 DEF StopAutoUpdate, Waiting, Coming, Ends, history
<1>2. CASE Test
  BY <1>2 DEF Test, Waiting, Coming, Ends, imu, history
<1>3. CASE Send
  <2>1. ~lost' => requests' > 0
    BY <1>3 DEF Send, TypeOK
  <2> QED
    BY <1>0, <1>3, <2>1 DEF Send, Coming, Ends
<1>4. CASE Clear
  BY <1>4 DEF Clear, Waiting, Coming, Ends, imu, history
<1>5. CASE AnswerRequest \/ AutoUpdate
  <2>1. PICK f \in Frames : Sending(f)
    BY <1>5 DEF AnswerRequest, AutoUpdate
  <2>2. wire' = f /\ f # <<>>
    BY <2>1, FrameFacts DEF Sending
  <2>3. Ends' /\ Coming'
    BY <2>2, FrameFacts DEF Ends, Coming
  <2> QED
    BY <1>0, <1>5, <2>3 DEF AnswerRequest, AutoUpdate, thread
<1>6. CASE SerialCb
  <2>1. wire \in Seq(Byte) /\ wire # <<>> /\ wire' = Tail(wire)
    BY <1>6 DEF SerialCb, TypeOK
  <2>2. UNCHANGED <<pc, rereads, requests, lost>>
    BY <1>6 DEF SerialCb, thread
  <2>3. Ends'
    <3> SUFFICES ASSUME wire' # <<>> PROVE wire'[Len(wire')] = FD
      BY DEF Ends
    <3>1. Len(wire') = Len(wire) - 1 /\ Len(wire) \in Nat /\ Len(wire') > 0
      BY <2>1, Taking
    <3> QED
      BY <2>1, <3>1, Taking DEF Ends
  <2>4. CASE Head(wire) = FD /\ rx_buf # <<>>
    <3>1. tx_buf_flag' = TRUE /\ raced' = (raced \/ pc = "clear")
      BY <1>6, <2>4 DEF SerialCb, Collect
    <3> QED
      BY <2>2, <2>3, <3>1 DEF Waiting
  <2>5. CASE ~(Head(wire) = FD /\ rx_buf # <<>>)
    <3>1. rx_buf' = IF Len(rx_buf) < BufSize - 1 THEN Append(rx_buf, Head(wire)) ELSE rx_buf
      BY <1>6, <2>5 DEF SerialCb, Collect
    <3>2. UNCHANGED <<tx_buf_flag, raced>>
      BY <1>6, <2>5 DEF SerialCb, Collect
    <3>3. ASSUME Coming PROVE Coming'
      <4>1. CASE requests > 0
        BY <2>2, <4>1 DEF Coming
      <4>2. CASE Head(wire) # FD
        <5>1. wire' # <<>>
          BY <2>1, <4>2, Taking DEF Ends
        <5>2. rx_buf' # <<>>
          <6>1. CASE rx_buf = <<>>
            <7>1. Len(rx_buf) < BufSize - 1
              BY <6>1, BufSizeAssumption
            <7> QED
              BY <3>1, <6>1, <7>1
          <6>2. CASE rx_buf # <<>>
            <7>1. rx_buf \in Seq(Byte) /\ Append(rx_buf, Head(wire)) # <<>>
              BY DEF TypeOK
            <7> QED
              BY <3>1, <6>2, <7>1
          <6> QED
            BY <6>1, <6>2
        <5> QED
          BY <5>1, <5>2 DEF Coming
      <4> QED
        BY <2>1, <2>5, <3>3, <4>1, <4>2, Taking DEF Coming
    <3> QED
      BY <2>2, <2>3, <3>2, <3>3 DEF Waiting
  <2> QED
    BY <2>4, <2>5
<1>7. CASE UNCHANGED vars
  BY <1>7 DEF vars, thread, imu, history, Waiting, Coming, Ends
<1> QED
  BY <1>1, <1>2, <1>3, <1>4, <1>5, <1>6, <1>7 DEF Next

(* For polling to end it takes a lost request, an answer that overtakes the     *)
(* clearing of the flag, or a build that does not read the flag again: frames   *)
(* that are too long, or have an FD inside, do not end it.                      *)
THEOREM EndsOnlyIfRaced == Spec => []SilentOnlyIfRaced
<1>1. Init => Waits
  BY DEF Init, Waits, Ends, Waiting
<1>2. TypeOK /\ Waits => SilentOnlyIfRaced
  BY DEF TypeOK, Waits, SilentOnlyIfRaced, Silent, Waiting, Coming
<1> QED
  BY <1>1, <1>2, TypeCorrect, WaitsStep, PTL DEF Spec

-------------------------------------------------------------------------------
(* k bytes of the frame have come: the rest is on the wire, and rx_buf has as   *)
(* many of them as it holds.                                                    *)
Filled(f, k) ==
  /\ k < Len(f)
  /\ Len(wire) = Len(f) - k
  /\ \A i \in 1 .. Len(wire) : wire[i] = f[k + i]
  /\ Len(rx_buf) = IF k < BufSize THEN k ELSE BufSize - 1
  /\ \A i \in 1 .. Len(rx_buf) : rx_buf[i] = f[i]

Arriving ==
  ~split =>
    /\ Plain
    /\ wire = <<>> => rx_buf = <<>>
    /\ wire # <<>> => \E f \in Frames, k \in Nat : Filled(f, k)
    /\ delivered \in {<<>>} \cup {Clip(f) : f \in Frames}

(* What rx_buf and the final FD make of a frame.                                *)
LEMMA SegmentIsClip ==
  ASSUME TypeOK, NEW f \in Frames, Filled(f, Len(f) - 1)
  PROVE  Append(rx_buf, FD) = Clip(f)
<1> DEFINE n == IF Len(f) < BufSize THEN Len(f) - 1 ELSE BufSize - 1
<1>1. n \in Nat /\ n <= Len(f) /\ Len(rx_buf) = n
  BY FrameFacts, BufSizeAssumption DEF Filled
<1>2. SubSeq(f, 1, n) \in Seq(Byte) /\ Len(SubSeq(f, 1, n)) = n
      /\ \A i \in 1 .. n : SubSeq(f, 1, n)[i] = f[i]
  BY <1>1, FrameFacts
<1>3. rx_buf = SubSeq(f, 1, n)
  <2>1. rx_buf \in Seq(Byte) /\ \A i \in 1 .. n : rx_buf[i] = SubSeq(f, 1, n)[i]
    BY <1>1, <1>2 DEF TypeOK, Filled
  <2> HIDE DEF n
  <2> QED
    BY <1>1, <1>2, <2>1
<1> QED
  BY <1>3 DEF Clip

(* One more byte of the frame comes, and it is not the last.                    *)
LEMMA OneMore ==
  ASSUME TypeOK, NEW f \in Frames, NEW k \in Nat, Filled(f, k), Len(wire) > 1,
         wire' = Tail(wire),
         rx_buf' = IF Len(rx_buf) < BufSize - 1 THEN Append(rx_buf, Head(wire)) ELSE rx_buf
  PROVE  Filled(f, k + 1)'
<1>1. wire \in Seq(Byte) /\ wire # <<>> /\ rx_buf \in Seq(Byte) /\ Len(rx_buf) \in Nat
      /\ Len(f) \in Nat /\ BufSize \in Nat /\ BufSize > 1
  BY FrameFacts, BufSizeAssumption DEF TypeOK
<1>2. k + 1 < Len(f) /\ Len(wire') = Len(f) - (k + 1)
  BY <1>1, Taking DEF Filled
<1>3. \A i \in 1 .. Len(wire') : wire'[i] = f[(k + 1) + i]
  <2> SUFFICES ASSUME NEW i \in 1 .. Len(wire') PROVE wire'[i] = f[(k + 1) + i]
    OBVIOUS
  <2>1. i + 1 \in 1 .. Len(wire) /\ wire'[i] = wire[i + 1]
    BY <1>1, <1>2, Taking
  <2>2. k + (i + 1) = (k + 1) + i
    BY <1>1
  <2> QED
    BY <2>1, <2>2 DEF Filled
<1>4. Head(wire) = f[k + 1] /\ Head(wire) \in Byte
  BY <1>1, Taking DEF Filled
<1>5. CASE k < BufSize - 1
  <2>1. Len(rx_buf) = k /\ rx_buf' = Append(rx_buf, Head(wire))
    BY <1>1, <1>5 DEF Filled
  <2>2. Len(rx_buf') = k + 1 /\ rx_buf'[k + 1] = f[k + 1]
        /\ \A i \in 1 .. k : rx_buf'[i] = rx_buf[i]
    BY <1>1, <1>4, <2>1
  <2> QED
    BY <1>1, <1>2, <1>3, <1>5, <2>1, <2>2 DEF Filled
<1>6. CASE ~(k < BufSize - 1)
  <2>1. Len(rx_buf) = BufSize - 1 /\ rx_buf' = rx_buf
    BY <1>1, <1>6 DEF Filled
  <2> QED
    BY <1>1, <1>2, <1>3, <1>6, <2>1 DEF Filled
<1> QED
  BY <1>5, <1>6

LEMMA ArrivingStep == TypeOK /\ Arriving /\ [Next]_vars => Arriving'
<1> SUFFICES ASSUME TypeOK, Arriving, [Next]_vars, ~split' PROVE Arriving'
  BY DEF Arriving
<1>0. ~split
  BY HistoryStays
<1>1. CASE StopAutoUpdate \/ Test \/ Send \/ Clear \/ UNCHANGED vars
  <2>1. UNCHANGED <<wire, rx_buf, delivered>>
    BY <1>1 DEF StopAutoUpdate, Test, Send, Clear, vars, imu, history
  <2> QED
    BY <1>0, <2>1 DEF Arriving, Plain, Filled
<1>2. CASE AnswerRequest \/ AutoUpdate
  <2>1. PICK f \in Frames : Sending(f)
    BY <1>2 DEF AnswerRequest, AutoUpdate
  <2>2. UNCHANGED <<rx_buf, delivered>> /\ rx_buf = <<>>
    BY <1>0, <1>2, <2>1 DEF AnswerRequest, AutoUpdate, Arriving, Sending
  <2>3. wire' = f /\ Plain'
    BY <2>1 DEF Sending, Plain
  <2>4. Filled(f, 0)' /\ wire' # <<>>
    BY <2>2, <2>3, FrameFacts, BufSizeAssumption DEF Filled
  <2> QED
    BY <1>0, <2>2, <2>3, <2>4 DEF Arriving
<1>3. CASE SerialCb
  <2>1. wire \in Seq(Byte) /\ wire # <<>> /\ wire' = Tail(wire) /\ Collect(Head(wire))
    BY <1>3 DEF SerialCb, TypeOK
  <2>2. PICK f \in Frames, k \in Nat : Filled(f, k)
    BY <1>0, <2>1 DEF Arriving
  <2>3. Len(f) \in Nat /\ Len(f) > 1 /\ f[Len(f)] = FD /\ BufSize \in Nat /\ BufSize > 1
    BY FrameFacts, BufSizeAssumption
  <2>4. Plain'
    <3>1. Len(wire') = Len(wire) - 1 /\ Len(wire) \in Nat
          /\ \A i \in 1 .. Len(wire') : wire'[i] = wire[i + 1]
      BY <2>1, Taking
    <3> QED
      BY <1>0, <3>1 DEF Arriving, Plain
  <2>5. CASE Len(wire) = 1
    <3>1. k = Len(f) - 1 /\ Head(wire) = wire[1] /\ wire[1] = f[k + 1]
      BY <2>1, <2>2, <2>3, <2>5 DEF Filled
    <3>2. Len(wire') = 0 /\ wire' \in Seq(Byte)
      BY <2>1, <2>5, Taking
    <3>3. k = Len(f) - 1 /\ Head(wire) = FD /\ wire' = <<>>
      BY <2>3, <3>1, <3>2
    <3>4. rx_buf # <<>>
      BY <2>2, <2>3, <3>3 DEF Filled
    <3>5. delivered' = Append(rx_buf, FD) /\ rx_buf' = <<>>
      BY <2>1, <3>3, <3>4 DEF Collect
    <3>6. delivered' = Clip(f)
      BY <2>2, <3>3, <3>5, SegmentIsClip
    <3> QED
      BY <2>4, <3>3, <3>5, <3>6 DEF Arriving
  <2>6. CASE Len(wire) > 1
    <3>1. Head(wire) # FD
      BY <1>0, <2>1, <2>6, Taking DEF Arriving, Plain
    <3>2. rx_buf' = IF Len(rx_buf) < BufSize - 1 THEN Append(rx_buf, Head(wire)) ELSE rx_buf
      BY <2>1, <3>1 DEF Collect
    <3>3. delivered' = delivered
      BY <2>1, <3>1 DEF Collect
    <3>4. Filled(f, k + 1)'
      BY <2>1, <2>2, <2>6, <3>2, OneMore
    <3>5. k + 1 \in Nat /\ wire' # <<>>
      BY <2>1, <2>6, Taking
    <3> QED
      BY <1>0, <2>4, <3>3, <3>4, <3>5 DEF Arriving
  <2>7. Len(wire) \in Nat /\ Len(wire) > 0
    BY <2>1, Taking
  <2> QED
    <3>1. \A n \in Nat : n > 0 => n = 1 \/ n > 1
      OBVIOUS
    <3>2. Len(wire) = 1 \/ Len(wire) > 1
      BY <2>7, <3>1
    <3> QED
      BY <2>5, <2>6, <3>2
<1> QED
  BY <1>1, <1>2, <1>3 DEF Next

(* While no data byte is FD every segment is a whole frame, cut to the buffer,  *)
(* with nothing of another frame in it.                                         *)
THEOREM SegmentsClean == Spec => []SegmentsAreFrames
<1>1. Init => Arriving
  BY DEF Init, Arriving, Plain
<1>2. Arriving => SegmentsAreFrames
  BY DEF Arriving, SegmentsAreFrames
<1> QED
  BY <1>1, <1>2, TypeCorrect, ArrivingStep, PTL DEF Spec

===============================================================================
