--------------------------- MODULE SensorProducer ---------------------------
(***************************************************************************)
(* The sensor pipeline of crs_demo/src/protocol/src/crs_producer.c.        *)
(*                                                                         *)
(* Sensor threads and the IMU's UART interrupt call create_event_payload,  *)
(* which allocates a message and its data from the kernel heap, puts the   *)
(* message's address into a bounded message queue and then posts the       *)
(* sensor's bit to an event group.  producer_thread clears the event       *)
(* group, sleeps on it, drains the queue when it is woken, merges every    *)
(* reading into one static frame, notifies the frame over Bluetooth for    *)
(* HRBO readings and frees both blocks.                                    *)
(*                                                                         *)
(* The nRF52840 has one core: a thread takes a step only when no more      *)
(* urgent thread or interrupt is ready (Runs, ProducerRuns).               *)
(***************************************************************************)
EXTENDS Integers, Sequences, FiniteSets

CONSTANTS
  Source,     \* the sensors compiled in (CONFIG_HRBO, CONFIG_AHT20_TS, ...)
  Value,      \* payloads (strings)
  HeapSize,   \* CONFIG_HEAP_MEM_POOL_SIZE, in allocation units
  MsgCost,    \* units a p_msg_t takes
  DataCost,   \* units the data block of each sensor takes
  QueueSize,  \* MSG_QUEUE_SIZE
  Fragments   \* may the heap refuse a block although enough units are free?

SensorAssumption ==
  /\ Source \subseteq {"HRBO", "AHT20_TS", "BMP280_PS", "AS201_IMU"}
  /\ HeapSize \in Nat \ {0}
  /\ MsgCost \in Nat \ {0}
  /\ DataCost \in [Source -> Nat \ {0}]
  /\ QueueSize \in Nat \ {0}
  /\ Fragments \in BOOLEAN

ASSUME SensorAssumption

VARIABLES
  pc,        \* where each sensor stands in create_event_payload
  slot,      \* the message each sensor's call is building (0: none)
  msg,       \* the content of each message: the arguments of the call
  msgHeap,   \* messages whose p_msg_t block is allocated
  dataHeap,  \* messages whose data block is allocated
  queue,     \* g_msg_queue: the addresses of the queued messages
  events,    \* g_event_group
  ppc,       \* where producer_thread stands
  cur,       \* rev_msg, the message producer_thread holds (0: none)
  tx,        \* tx_buf, the static frame
  air,       \* the last frame handed to bt_crs_notify
  burst      \* sensors that called while producer_thread was on its way to sleep

callVars == <<pc, slot, msg>>
heapVars == <<msgHeap, dataHeap>>
prodVars == <<ppc, cur, tx>>
vars == <<pc, slot, msg, msgHeap, dataHeap, queue, events, ppc, cur, tx, air, burst>>

\* A message is known by the number of its slot.  Every slot in use holds a
\* block of at least one unit or belongs to a call, so these always suffice.
Slot == 1 .. HeapSize + Cardinality(Source) + 1

Feed == INSTANCE SensorFeed WITH
          Capacity <- QueueSize + 1,
          backlog  <- [i \in 1 .. Len(queue) + (IF ppc = "process" THEN 1 ELSE 0) |->
                         IF ppc = "process"
                         THEN IF i = 1 THEN msg[cur] ELSE msg[queue[i - 1]]
                         ELSE msg[queue[i]]],
          latest   <- tx,
          due      <- ppc = "notify",
          air      <- air

\* The content of a message that is not in use.
Garbage == [event |-> "none", data |-> "zero"]

CallStep == {"idle", "allocData", "put", "post"}
ProducerStep == {"enter", "wait", "check", "process", "notify", "free"}

TypeOK ==
  /\ pc \in [Source -> CallStep]
  /\ slot \in [Source -> Slot \cup {0}]
  /\ msg \in [Slot -> Feed!Reading \cup {Garbage}]
  /\ msgHeap \subseteq Slot
  /\ dataHeap \subseteq Slot
  /\ queue \in Seq(Slot)
  /\ events \subseteq Source
  /\ ppc \in ProducerStep
  /\ cur \in Slot \cup {0}
  /\ tx \in Feed!Frame
  /\ air \in Feed!Frame
  /\ burst \subseteq Source

-----------------------------------------------------------------------------
(* Scheduling.  Smaller numbers are more urgent; an interrupt is below 0.  *)

Priority(s) == CASE s = "HRBO"      -> 3
                 [] s = "AHT20_TS"  -> 5
                 [] s = "BMP280_PS" -> 5
                 [] s = "AS201_IMU" -> -1

PRODUCER_PRIORITY == 4

\* producer_thread is off the processor in k_event_wait and while
\* bt_gatt_notify waits for a transmit buffer.
ProducerReady == ppc \notin {"wait", "notify"}

Runs(s) ==
  /\ \A t \in Source : pc[t] # "idle" => Priority(t) >= Priority(s)
  /\ ProducerReady => PRODUCER_PRIORITY >= Priority(s)

ProducerRuns == \A t \in Source : pc[t] # "idle" => Priority(t) >= PRODUCER_PRIORITY

\* The sensors that can run between two steps of producer_thread.
Preemptor == {s \in Source : Priority(s) < PRODUCER_PRIORITY}

-----------------------------------------------------------------------------
(* The kernel heap, by its total size.                                     *)

\* The units in use: each message's block has the first MsgCost of its message,
\* its data block the following ones.
Units == (msgHeap \X (1 .. MsgCost))
           \cup UNION {{m} \X (MsgCost + 1 .. MsgCost + DataCost[msg[m].event]) : m \in dataHeap}

Used == Cardinality(Units)

Fits(cost) == Used + cost <= HeapSize

Refuses(cost) == ~Fits(cost) \/ (Fragments /\ msgHeap \cup dataHeap # {})

Unused(m) ==
  /\ m \notin msgHeap \cup dataHeap
  /\ \A s \in Source : slot[s] # m

-----------------------------------------------------------------------------
Init ==
  /\ pc = [s \in Source |-> "idle"]
  /\ slot = [s \in Source |-> 0]
  /\ msg = [m \in Slot |-> Garbage]
  /\ msgHeap = {}
  /\ dataHeap = {}
  /\ queue = <<>>
  /\ events = {}
  /\ ppc = "enter"
  /\ cur = 0
  /\ tx = Feed!ZeroFrame
  /\ air = Feed!ZeroFrame
  /\ burst = {}

(* create_event_payload, in the sensor's thread or interrupt.              *)

\* The call and its first k_malloc.  The window in which producer_thread goes
\* to sleep lasts microseconds and every sensor calls at a period of
\* milliseconds: a sensor calls at most once in one window.  Which unused slot
\* the message takes is immaterial, so it is the smallest.
StartCall(s, v) ==
  /\ pc[s] = "idle"
  /\ Runs(s)
  /\ ppc = "enter" => s \notin burst
  /\ burst' = IF ppc = "enter" THEN burst \cup {s} ELSE burst
  /\ \E m \in Slot :
       /\ Unused(m)
       /\ \A k \in 1 .. m - 1 : ~Unused(k)
       /\ slot' = [slot EXCEPT ![s] = m]
       /\ msg' = [msg EXCEPT ![m] = [event |-> s, data |-> v]]
       /\ \/ Fits(MsgCost) /\ msgHeap' = msgHeap \cup {m}
          \/ Refuses(MsgCost) /\ UNCHANGED msgHeap
  /\ pc' = [pc EXCEPT ![s] = "allocData"]
  /\ UNCHANGED <<dataHeap, queue, events, prodVars, air>>

\* The second k_malloc is made whatever the first one returned.
AllocData(s) ==
  /\ pc[s] = "allocData"
  /\ Runs(s)
  /\ \/ Fits(DataCost[s]) /\ dataHeap' = dataHeap \cup {slot[s]}
     \/ Refuses(DataCost[s]) /\ UNCHANGED dataHeap
  /\ pc' = [pc EXCEPT ![s] = "put"]
  /\ UNCHANGED <<slot, msg, msgHeap, queue, events, prodVars, air, burst>>

\* Fault: the data block is forgotten.
GiveUpMessageOnly(s) ==
  /\ msgHeap' = msgHeap \ {slot[s]}
  /\ slot' = [slot EXCEPT ![s] = 0]
  /\ pc' = [pc EXCEPT ![s] = "idle"]
  /\ UNCHANGED <<msg, dataHeap, queue>>

\* The blocks the call got back to the heap; the message is given up.
GiveUp(s) ==
  /\ msgHeap' = msgHeap \ {slot[s]}
  /\ dataHeap' = dataHeap \ {slot[s]}
  /\ msg' = [msg EXCEPT ![slot[s]] = Garbage]
  /\ slot' = [slot EXCEPT ![s] = 0]
  /\ pc' = [pc EXCEPT ![s] = "idle"]
  /\ UNCHANGED queue

Allocated(m) == m \in msgHeap /\ m \in dataHeap

\* One of the two pointers is NULL.
AllocFailed(s) ==
  /\ pc[s] = "put"
  /\ Runs(s)
  /\ ~Allocated(slot[s])
  /\ GiveUp(s)
  /\ UNCHANGED <<events, prodVars, air, burst>>

\* Fault: the call queues its message again instead of posting the event.
PutTwice(s) ==
  /\ pc[s] = "put"
  /\ Runs(s)
  /\ Allocated(slot[s])
  /\ Len(queue) < QueueSize
  /\ queue' = Append(queue, slot[s])
  /\ UNCHANGED <<pc, slot, msg, heapVars, events, prodVars, air, burst>>

\* k_msgq_put: the queue owns the message from here on.
PutMessage(s) ==
  /\ pc[s] = "put"
  /\ Runs(s)
  /\ Allocated(slot[s])
  /\ Len(queue) < QueueSize
  /\ queue' = Append(queue, slot[s])
  /\ slot' = [slot EXCEPT ![s] = 0]
  /\ pc' = [pc EXCEPT ![s] = "post"]
  /\ UNCHANGED <<msg, heapVars, events, prodVars, air, burst>>

QueueFull(s) ==
  /\ pc[s] = "put"
  /\ Runs(s)
  /\ Allocated(slot[s])
  /\ Len(queue) >= QueueSize
  /\ GiveUp(s)
  /\ UNCHANGED <<events, prodVars, air, burst>>

\* Fault: the HRBO bit is missing from the mask (as in the wait of
\* IoT/server/src/protocol/src/iot_producer.c).
MaskWithoutHRBO == Source \ {"HRBO"}

\* The events producer_thread waits for.
Mask == Source

\* k_event_post sets the bit and wakes producer_thread if it waits for it.
PostEvent(s) ==
  /\ pc[s] = "post"
  /\ Runs(s)
  /\ events' = events \cup {s}
  /\ ppc' = IF ppc = "wait" /\ s \in Mask THEN "check" ELSE ppc
  /\ pc' = [pc EXCEPT ![s] = "idle"]
  /\ UNCHANGED <<slot, msg, heapVars, queue, cur, tx, air, burst>>

-----------------------------------------------------------------------------
(* producer_thread.                                                        *)

\* k_event_wait with reset: the bits are cleared first, then the thread
\* sleeps unless a bit of its mask is set.
EnterWait ==
  /\ ppc = "enter"
  /\ ProducerRuns
  /\ events' = {}
  /\ ppc' = IF events' \cap Mask = {} THEN "wait" ELSE "check"
  /\ UNCHANGED <<callVars, heapVars, queue, cur, tx, air, burst>>

\* k_msgq_num_used_get is 0: back to k_event_wait.
Drained ==
  /\ ppc = "check"
  /\ ProducerRuns
  /\ queue = <<>>
  /\ ppc' = "enter"
  /\ burst' = {}
  /\ UNCHANGED <<callVars, heapVars, queue, events, cur, tx, air>>

\* Fault: the newest message is taken.
TakeNewest ==
  /\ ppc = "check"
  /\ ProducerRuns
  /\ queue # <<>>
  /\ cur' = queue[Len(queue)]
  /\ queue' = SubSeq(queue, 1, Len(queue) - 1)
  /\ ppc' = "process"
  /\ UNCHANGED <<callVars, heapVars, events, tx, air, burst>>

TakeMessage ==
  /\ ppc = "check"
  /\ ProducerRuns
  /\ queue # <<>>
  /\ cur' = Head(queue)
  /\ queue' = Tail(queue)
  /\ ppc' = "process"
  /\ UNCHANGED <<callVars, heapVars, events, tx, air, burst>>

\* The switch on the event: HRBO overwrites the whole body and is sent, the
\* IMU overwrites the body's beginning, the others fill their cell.
ProcessMessage ==
  /\ ppc = "process"
  /\ ProducerRuns
  /\ tx' = [tx EXCEPT ![Feed!Cell(msg[cur].event)] = msg[cur].data]
  /\ ppc' = IF msg[cur].event = "HRBO" THEN "notify" ELSE "free"
  /\ UNCHANGED <<callVars, heapVars, queue, events, cur, air, burst>>

\* crs_notify: the frame goes to the Bluetooth stack, or nowhere when nobody
\* subscribed or the link is gone (the result is ignored).
Notify ==
  /\ ppc = "notify"
  /\ ProducerRuns
  /\ air' \in {tx, air}
  /\ ppc' = "free"
  /\ UNCHANGED <<callVars, heapVars, queue, events, cur, tx, burst>>

\* Fault: one message per wake-up.
FreeAndWait ==
  /\ ppc = "free"
  /\ ProducerRuns
  /\ msgHeap' = msgHeap \ {cur}
  /\ dataHeap' = dataHeap \ {cur}
  /\ msg' = [msg EXCEPT ![cur] = Garbage]
  /\ cur' = 0
  /\ ppc' = "enter"
  /\ UNCHANGED <<pc, slot, queue, events, tx, air, burst>>

FreeMessage ==
  /\ ppc = "free"
  /\ ProducerRuns
  /\ msgHeap' = msgHeap \ {cur}
  /\ dataHeap' = dataHeap \ {cur}
  /\ msg' = [msg EXCEPT ![cur] = Garbage]
  /\ cur' = 0
  /\ ppc' = "check"
  /\ UNCHANGED <<pc, slot, queue, events, tx, air, burst>>

-----------------------------------------------------------------------------
Call(s) == AllocData(s) \/ AllocFailed(s) \/ PutMessage(s)
             \/ QueueFull(s) \/ PostEvent(s)

Producer == EnterWait \/ Drained \/ TakeMessage \/ ProcessMessage \/ Notify \/ FreeMessage

Next ==
  \/ \E s \in Source, v \in Value : StartCall(s, v)
  \/ \E s \in Source : Call(s)
  \/ Producer

Spec == Init /\ [][Next]_vars

(* Fairness.  Every thread that has work gets the processor again and      *)
(* again, because the more urgent ones sleep for milliseconds after each   *)
(* call; it is then allowed a step (SF: the guards Runs and ProducerRuns   *)
(* come and go).  HRBO calls every 20 ms for ever; the other sensors need  *)
(* not call.  bt_gatt_notify returns: buffers drain or the link times out. *)
Fairness ==
  /\ SF_vars(Producer)
  /\ \A s \in Source : SF_vars(Call(s))
  /\ \A s \in Source \cap {"HRBO"} : SF_vars(\E v \in Value : StartCall(s, v))

FairSpec == Spec /\ Fairness

-----------------------------------------------------------------------------
(* Properties.                                                             *)

Queued == {queue[i] : i \in 1 .. Len(queue)}
Held == {slot[s] : s \in Source} \ {0}
Current == {cur} \ {0}

(* No leak and no early free: an allocated block belongs to a running      *)
(* create_event_payload, to the queue or to the producer, and every queued *)
(* or held message has both its blocks.                                    *)
HeapAccounted ==
  /\ msgHeap \cup dataHeap \subseteq Held \cup Queued \cup Current
  /\ Queued \cup Current \subseteq msgHeap \cap dataHeap

(* A message has one owner: two calls never build the same message, and a  *)
(* message is queued once and never while a call or the producer has it.   *)
(* With HeapAccounted this excludes double free and use after free.        *)
SingleOwner ==
  /\ \A s, t \in Source : slot[s] = slot[t] /\ slot[s] # 0 => s = t
  /\ \A i, j \in 1 .. Len(queue) : queue[i] = queue[j] => i = j
  /\ Held \cap Queued = {}
  /\ Held \cap Current = {}
  /\ Queued \cap Current = {}

(* The wake-up that is lost because k_event_wait clears the bits first:    *)
(* when producer_thread sleeps on a non-empty queue and nobody is about to *)
(* post, then what is queued came from sensors that preempt it, at most    *)
(* one message from each.                                                  *)
StrandedOnlyByPreemption ==
  ppc = "wait" /\ (\A s \in Source : pc[s] # "post")
    => /\ \A m \in Queued : msg[m].event \in Preemptor
       /\ Len(queue) <= Cardinality(Preemptor)

(* With the configured sizes the heap is exhausted before the queue is     *)
(* full (2048 bytes against 100 messages): k_msgq_put never fails.         *)
QueueNeverFull == Len(queue) < QueueSize

(* Readings are merged in order and once, and frames are whole: the        *)
(* pipeline implements SensorFeed.                                         *)
FeedSpec == Feed!Spec

(* Every queued message is eventually taken, lost wake-ups notwithstanding:*)
(* the next HRBO reading wakes the producer.                               *)
QueuedIsTaken == \A m \in Slot : (m \in Queued) ~> (m \notin Queued)
=============================================================================
