------------------------------- MODULE ImuLink --------------------------------
(* crs_as201_imu.c: the thread that asks the IMU for data over a UART, and the  *)
(* interrupt handler that cuts what comes back into segments at 0xFD. The two   *)
(* share tx_buf_flag, which is neither atomic nor volatile. The IMU and the     *)
(* wires are modelled from their use: a request may be lost, the IMU answers    *)
(* with one frame, and it sends frames on its own until it is told to stop.     *)
(* The driver is built with CONFIG_AS201_IMU, which prj.conf leaves off.        *)
EXTENDS Naturals, Sequences, SequencesExt

CONSTANTS
  BufSize,        \* sizeof(rx_buf), 100
  Frames,         \* what the IMU sends: sequences over Byte that end with FD
  MaxUnasked,     \* bound: frames it sends before it is told to stop
  MaxRequests     \* the requests the IMU can hold; more are lost

FD == "FD"
Byte == {FD, "data"}

ASSUME BufSizeAssumption == BufSize \in Nat \ {0, 1}
ASSUME FramesAssumption ==
  \A f \in Frames : f \in Seq(Byte) /\ Len(f) > 1 /\ f[1] # FD /\ Last(f) = FD
ASSUME MaxUnaskedAssumption == MaxUnasked \in Nat
ASSUME MaxRequestsAssumption == MaxRequests \in Nat \ {0}

VARIABLES
  pc,             \* where as201_imu_thread is
  tx_buf_flag,
  rx_buf,         \* the bytes collected; rx_buf_pos is their number
  delivered,      \* the last segment given to create_event_payload
  requests,       \* the requests the IMU has yet to answer
  unasked,        \* the frames it will still send on its own
  wire,           \* the frame that is arriving: the bytes still to come
  rereads,        \* the build reads tx_buf_flag on every turn of the loop
  split,          \* history: a frame came with an FD inside
  chatty,         \* history: a frame came that was not asked for
  raced,          \* history: the flag was set between a request and its clearing
  lost            \* history: a request was lost

thread == <<pc, rereads>>
imu == <<requests, unasked, wire>>
history == <<split, chatty, raced, lost>>
vars == <<thread, tx_buf_flag, rx_buf, delivered, imu, history>>

TypeOK ==
  /\ pc \in {"stop", "test", "send", "clear", "stuck"}
  /\ tx_buf_flag \in BOOLEAN /\ rereads \in BOOLEAN
  /\ rx_buf \in Seq(Byte) /\ Len(rx_buf) < BufSize
  /\ delivered \in Seq(Byte) /\ Len(delivered) <= BufSize
  /\ requests \in 0 .. MaxRequests /\ unasked \in 0 .. MaxUnasked
  /\ wire \in Seq(Byte)
  /\ split \in BOOLEAN /\ chatty \in BOOLEAN /\ raced \in BOOLEAN /\ lost \in BOOLEAN

(* Reception is on; stop_auto_update_cmd is about to be sent.                   *)
Init ==
  /\ pc = "stop"
  /\ tx_buf_flag = TRUE
  /\ rx_buf = <<>> /\ delivered = <<>>
  /\ requests = 0 /\ unasked \in 0 .. MaxUnasked /\ wire = <<>>
  /\ rereads \in BOOLEAN
  /\ split = FALSE /\ chatty = FALSE /\ raced = FALSE /\ lost = FALSE

-------------------------------------------------------------------------------
(* stop_auto_update_cmd is sent, and the IMU obeys.                             *)
StopAutoUpdate ==
  /\ pc = "stop"
  /\ pc' = "test"
  /\ unasked' = 0
  /\ UNCHANGED <<rereads, tx_buf_flag, rx_buf, delivered, requests, wire, history>>

(* The test in the loop ...                                                     *)
Test ==
  /\ pc = "test" /\ tx_buf_flag
  /\ pc' = "send"
  /\ UNCHANGED <<rereads, tx_buf_flag, rx_buf, delivered, imu, history>>

(* ... ask_for_data_cmd ...                                                     *)
Send ==
  /\ pc = "send"
  /\ pc' = "clear"
  /\ \/ requests < MaxRequests /\ requests' = requests + 1 /\ UNCHANGED lost
     \/ UNCHANGED requests /\ lost' = TRUE
  /\ UNCHANGED <<rereads, tx_buf_flag, rx_buf, delivered, unasked, wire, split, chatty, raced>>

\* Fault: the flag is left set.
ClearForgotten ==
  /\ pc = "clear"
  /\ pc' = IF rereads THEN "test" ELSE "stuck"
  /\ UNCHANGED <<rereads, tx_buf_flag, rx_buf, delivered, imu, history>>

(* ... and the assignment. A build that knows the flag it has just cleared      *)
(* turns in the loop for ever.                                                  *)
Clear ==
  /\ pc = "clear"
  /\ tx_buf_flag' = FALSE
  /\ pc' = IF rereads THEN "test" ELSE "stuck"
  /\ UNCHANGED <<rereads, rx_buf, delivered, imu, history>>

-------------------------------------------------------------------------------
Sending(frame) ==
  /\ wire = <<>>
  /\ wire' = frame
  /\ split' = (split \/ \E i \in 1 .. Len(frame) - 1 : frame[i] = FD)

(* The IMU answers a request.                                                   *)
AnswerRequest ==
  /\ requests > 0
  /\ requests' = requests - 1
  /\ \E f \in Frames : Sending(f)
  /\ UNCHANGED <<thread, tx_buf_flag, rx_buf, delivered, unasked, chatty, raced, lost>>

(* The IMU sends a frame on its own.                                            *)
AutoUpdate ==
  /\ unasked > 0
  /\ unasked' = unasked - 1
  /\ \E f \in Frames : Sending(f)
  /\ chatty' = TRUE
  /\ UNCHANGED <<thread, tx_buf_flag, rx_buf, delivered, requests, raced, lost>>

\* Fault: the whole buffer is used for bytes before the FD.
CollectToTheEnd(c) ==
  IF c = FD /\ rx_buf # <<>>
  THEN /\ delivered' = Append(rx_buf, FD) /\ rx_buf' = <<>>
       /\ tx_buf_flag' = TRUE
       /\ raced' = (raced \/ pc = "clear")
  ELSE /\ rx_buf' = IF Len(rx_buf) < BufSize THEN Append(rx_buf, c) ELSE rx_buf
       /\ UNCHANGED <<tx_buf_flag, delivered, raced>>

\* Fault: the buffer is not reset.
CollectWithoutReset(c) ==
  IF c = FD /\ rx_buf # <<>>
  THEN /\ delivered' = Append(rx_buf, FD) /\ UNCHANGED rx_buf
       /\ tx_buf_flag' = TRUE
       /\ raced' = (raced \/ pc = "clear")
  ELSE /\ rx_buf' = IF Len(rx_buf) < BufSize - 1 THEN Append(rx_buf, c) ELSE rx_buf
       /\ UNCHANGED <<tx_buf_flag, delivered, raced>>

\* Fault: a full buffer ends no segment.
CollectUntilFull(c) ==
  IF c = FD /\ rx_buf # <<>> /\ Len(rx_buf) < BufSize - 1
  THEN /\ delivered' = Append(rx_buf, FD) /\ rx_buf' = <<>>
       /\ tx_buf_flag' = TRUE
       /\ raced' = (raced \/ pc = "clear")
  ELSE /\ rx_buf' = IF Len(rx_buf) < BufSize - 1 THEN Append(rx_buf, c) ELSE rx_buf
       /\ UNCHANGED <<tx_buf_flag, delivered, raced>>

(* One byte in serial_cb: an FD ends a segment that has begun; else it is a     *)
(* byte like any other, dropped when the buffer is full.                        *)
Collect(c) ==
  IF c = FD /\ rx_buf # <<>>
  THEN /\ delivered' = Append(rx_buf, FD) /\ rx_buf' = <<>>
       /\ tx_buf_flag' = TRUE
       /\ raced' = (raced \/ pc = "clear")
  ELSE /\ rx_buf' = IF Len(rx_buf) < BufSize - 1 THEN Append(rx_buf, c) ELSE rx_buf
       /\ UNCHANGED <<tx_buf_flag, delivered, raced>>

(* serial_cb, which interrupts the thread anywhere.                             *)
SerialCb ==
  /\ wire # <<>>
  /\ Collect(Head(wire))
  /\ wire' = Tail(wire)
  /\ UNCHANGED <<thread, requests, unasked, split, chatty, lost>>

Next ==
  \/ StopAutoUpdate \/ Test \/ Send \/ Clear
  \/ AnswerRequest \/ AutoUpdate \/ SerialCb

(* The thread spins, the handler runs when bytes come, the IMU answers.         *)
Fairness ==
  /\ WF_vars(StopAutoUpdate) /\ WF_vars(Test) /\ WF_vars(Send) /\ WF_vars(Clear)
  /\ WF_vars(AnswerRequest) /\ WF_vars(SerialCb)

Spec == Init /\ [][Next]_vars /\ Fairness

-------------------------------------------------------------------------------
(* What rx_buf can hold of a frame without an FD inside.                        *)
Clip(frame) == Append(SubSeq(frame, 1, IF Len(frame) < BufSize THEN Len(frame) - 1 ELSE BufSize - 1), FD)

(* While no data byte is FD, every segment is a frame, cut to the buffer from   *)
(* its end: nothing of an earlier frame is in it, whatever was dropped before.  *)
SegmentsAreFrames ==
  ~split => delivered \in {<<>>} \cup {Clip(f) : f \in Frames}

(* While no data byte is FD and every frame was asked for, the device asks for  *)
(* one frame at a time: when it is about to ask, nothing is outstanding.        *)
OneRequestAtATime ==
  ~split /\ ~chatty /\ pc = "send" => requests = 0 /\ wire = <<>>

(* Nothing is outstanding and nothing will be asked for again.                  *)
Silent ==
  /\ requests = 0 /\ wire = <<>>
  /\ pc = "stuck" \/ (pc = "test" /\ ~tx_buf_flag)

(* For polling to end it takes a lost request, or an answer that was complete   *)
(* before the flag of its own request was cleared, or a build that does not     *)
(* read the flag again; no frame, however cut, ends it.                         *)
SilentOnlyIfRaced == Silent => raced \/ lost \/ ~rereads

(* Without these three the device asks for ever.                                *)
AsksForEver ==
  rereads /\ [](~raced /\ ~lost) => []<>(pc = "send")

===============================================================================
