------------------------ MODULE SensorProducerProofs ------------------------
(***************************************************************************)
(* Proofs about SensorProducer, for every set of sensors, heap size, queue *)
(* size and heap behaviour: its types, the heap, what a lost wake-up       *)
(* strands, and that it implements SensorFeed.                             *)
(*                                                                         *)
(* Which blocks are live and who owns a message are not inductive alone: a *)
(* caller or the producer must hold a message exactly at the steps between *)
(* allocation and hand-over (Holding).                                     *)
(***************************************************************************)
EXTENDS SensorProducer, FiniteSetTheorems, SequenceTheorems, WellFoundedInduction, TLAPS

Holding ==
  /\ \A s \in Source : slot[s] # 0 <=> pc[s] \in {"allocData", "put"}
  /\ cur # 0 <=> ppc \in {"process", "notify", "free"}

IInv == TypeOK /\ Holding /\ HeapAccounted /\ SingleOwner

-----------------------------------------------------------------------------
(* The elements of a queue after k_msgq_put and after k_msgq_get.          *)
LEMMA AppendElements ==
  ASSUME NEW S, NEW q \in Seq(S), NEW x \in S
  PROVE  /\ Append(q, x) \in Seq(S)
         /\ {Append(q, x)[i] : i \in 1 .. Len(Append(q, x))} = {q[i] : i \in 1 .. Len(q)} \cup {x}
         /\ (\A i, j \in 1 .. Len(q) : q[i] = q[j] => i = j) /\ x \notin {q[i] : i \in 1 .. Len(q)}
              => \A i, j \in 1 .. Len(Append(q, x)) : Append(q, x)[i] = Append(q, x)[j] => i = j
<1>1. /\ Append(q, x) \in Seq(S)
      /\ Len(q) \in Nat
      /\ Len(Append(q, x)) = Len(q) + 1
      /\ \A i \in 1 .. Len(q) : Append(q, x)[i] = q[i]
      /\ Append(q, x)[Len(q) + 1] = x
  OBVIOUS
<1>2. 1 .. Len(q) + 1 = (1 .. Len(q)) \cup {Len(q) + 1}
  BY <1>1
<1>3. {Append(q, x)[i] : i \in 1 .. Len(Append(q, x))} = {q[i] : i \in 1 .. Len(q)} \cup {x}
  BY <1>1, <1>2
<1>4. ASSUME \A i, j \in 1 .. Len(q) : q[i] = q[j] => i = j, x \notin {q[i] : i \in 1 .. Len(q)}
      PROVE  \A i, j \in 1 .. Len(Append(q, x)) : Append(q, x)[i] = Append(q, x)[j] => i = j
  BY <1>1, <1>2, <1>4
<1>5. QED
  BY <1>1, <1>3, <1>4

LEMMA TailElements ==
  ASSUME NEW S, NEW q \in Seq(S), q # <<>>
  PROVE  /\ Tail(q) \in Seq(S)
         /\ Head(q) \in S
         /\ {q[i] : i \in 1 .. Len(q)} = {Tail(q)[i] : i \in 1 .. Len(Tail(q))} \cup {Head(q)}
         /\ (\A i, j \in 1 .. Len(q) : q[i] = q[j] => i = j)
              => /\ \A i, j \in 1 .. Len(Tail(q)) : Tail(q)[i] = Tail(q)[j] => i = j
                 /\ Head(q) \notin {Tail(q)[i] : i \in 1 .. Len(Tail(q))}
<1>1. /\ Tail(q) \in Seq(S)
      /\ Head(q) \in S
      /\ Head(q) = q[1]
      /\ Len(q) \in Nat \ {0}
      /\ Len(Tail(q)) = Len(q) - 1
      /\ \A i \in 1 .. Len(q) - 1 : Tail(q)[i] = q[i + 1]
  OBVIOUS
<1>2. \A i \in 2 .. Len(q) : i - 1 \in 1 .. Len(Tail(q)) /\ q[i] = Tail(q)[i - 1]
  BY <1>1
<1>3. 1 .. Len(q) = {1} \cup 2 .. Len(q)
  BY <1>1
<1>4. {q[i] : i \in 1 .. Len(q)} = {Tail(q)[i] : i \in 1 .. Len(Tail(q))} \cup {Head(q)}
  <2>1. ASSUME NEW i \in 1 .. Len(q)
        PROVE  q[i] \in {Tail(q)[k] : k \in 1 .. Len(Tail(q))} \cup {Head(q)}
    BY <1>1, <1>2, <1>3
  <2>2. ASSUME NEW i \in 1 .. Len(Tail(q))
        PROVE  Tail(q)[i] \in {q[k] : k \in 1 .. Len(q)}
    BY <1>1
  <2>3. Head(q) \in {q[k] : k \in 1 .. Len(q)}
    BY <1>1
  <2>4. QED
    BY <2>1, <2>2, <2>3
<1>5. ASSUME \A i, j \in 1 .. Len(q) : q[i] = q[j] => i = j
      PROVE  /\ \A i, j \in 1 .. Len(Tail(q)) : Tail(q)[i] = Tail(q)[j] => i = j
             /\ Head(q) \notin {Tail(q)[i] : i \in 1 .. Len(Tail(q))}
  BY <1>1, <1>5
<1>6. QED
  BY <1>1, <1>4, <1>5

-----------------------------------------------------------------------------
(* The initial state satisfies the inductive invariant.                    *)
LEMMA InitIInv == Init => IInv
<1> SUFFICES ASSUME Init PROVE IInv
  OBVIOUS
<1> USE SensorAssumption DEF Init
<1>1. TypeOK
  BY DEF TypeOK, CallStep, ProducerStep, Garbage, Feed!Reading, Feed!ZeroFrame, Feed!Frame
<1>2. Holding
  BY DEF Holding
<1>3. HeapAccounted /\ SingleOwner
  BY DEF HeapAccounted, SingleOwner, Held, Queued, Current
<1>4. QED
  BY <1>1, <1>2, <1>3 DEF IInv

(* A new call: the slot it takes belongs to nobody.                        *)
LEMMA StartCallIInv ==
  ASSUME IInv, NEW s \in Source, NEW v \in Value, StartCall(s, v)
  PROVE  IInv'
<1>1. PICK m \in Slot :
        /\ Unused(m)
        /\ slot' = [slot EXCEPT ![s] = m]
        /\ msg' = [msg EXCEPT ![m] = [event |-> s, data |-> v]]
        /\ msgHeap' \in {msgHeap, msgHeap \cup {m}}
  BY DEF StartCall
<1>2. /\ pc[s] = "idle"
      /\ pc' = [pc EXCEPT ![s] = "allocData"]
      /\ burst' \in {burst, burst \cup {s}}
      /\ UNCHANGED <<dataHeap, queue, events, ppc, cur, tx, air>>
  BY DEF StartCall, prodVars
<1>3. m # 0 /\ slot[s] = 0
  BY <1>2 DEF IInv, Holding, Slot
<1>4. m \notin Held \cup Queued \cup Current
  BY <1>1 DEF Unused, IInv, HeapAccounted, Held
<1>5. Queued' = Queued /\ Current' = Current
  BY <1>2 DEF Queued, Current
<1>6. Held' = Held \cup {m}
  BY <1>1, <1>3 DEF IInv, TypeOK, Held
<1>7. TypeOK'
  BY <1>1, <1>2 DEF IInv, TypeOK, CallStep, Feed!Reading
<1>8. Holding'
  BY <1>1, <1>2, <1>3 DEF IInv, TypeOK, Holding
<1>9. HeapAccounted'
  BY <1>1, <1>2, <1>5, <1>6 DEF IInv, HeapAccounted
<1>10. SingleOwner'
  <2>1. \A t, u \in Source : slot'[t] = slot'[u] /\ slot'[t] # 0 => t = u
    BY <1>1, <1>3, <1>4 DEF IInv, TypeOK, SingleOwner, Held
  <2>2. QED
    BY <2>1, <1>2, <1>4, <1>5, <1>6 DEF IInv, SingleOwner
<1>11. QED
  BY <1>7, <1>8, <1>9, <1>10 DEF IInv

(* The call's own steps.                                                   *)
LEMMA AllocDataIInv ==
  ASSUME IInv, NEW s \in Source, AllocData(s)
  PROVE  IInv'
<1>1. /\ pc[s] = "allocData"
      /\ pc' = [pc EXCEPT ![s] = "put"]
      /\ dataHeap' \in {dataHeap, dataHeap \cup {slot[s]}}
      /\ UNCHANGED <<slot, msg, msgHeap, queue, events, ppc, cur, tx, air, burst>>
  BY DEF AllocData, prodVars
<1>2. slot[s] \in Slot /\ slot[s] \in Held
  BY <1>1 DEF IInv, TypeOK, Holding, Held
<1>3. Held' = Held /\ Queued' = Queued /\ Current' = Current
  BY <1>1 DEF Held, Queued, Current
<1>4. TypeOK'
  BY <1>1, <1>2 DEF IInv, TypeOK, CallStep
<1>5. Holding'
  BY <1>1 DEF IInv, TypeOK, Holding
<1>6. HeapAccounted' /\ SingleOwner'
  BY <1>1, <1>2, <1>3 DEF IInv, HeapAccounted, SingleOwner
<1>7. QED
  BY <1>4, <1>5, <1>6 DEF IInv

(* A call that gives up (no memory, or the queue is full) frees its own    *)
(* blocks and nobody else's.                                               *)
LEMMA GiveUpIInv ==
  ASSUME IInv, NEW s \in Source, pc[s] = "put", GiveUp(s),
         UNCHANGED <<events, ppc, cur, tx, air, burst>>
  PROVE  IInv'
<1>1. slot[s] \in Slot /\ slot[s] # 0 /\ slot[s] \in Held
  BY DEF IInv, TypeOK, Holding, Held
<1>2. Held' = Held \ {slot[s]}
  BY <1>1 DEF IInv, TypeOK, SingleOwner, Held, GiveUp
<1>3. Queued' = Queued /\ Current' = Current
  BY DEF Queued, Current, GiveUp
<1>4. TypeOK'
  BY <1>1 DEF IInv, TypeOK, CallStep, GiveUp, Garbage
<1>5. Holding'
  BY DEF IInv, TypeOK, Holding, GiveUp
<1>6. HeapAccounted'
  BY <1>1, <1>2, <1>3 DEF IInv, HeapAccounted, SingleOwner, GiveUp
<1>7. SingleOwner'
  <2>1. \A t, u \in Source : slot'[t] = slot'[u] /\ slot'[t] # 0 => t = u
    BY DEF IInv, TypeOK, SingleOwner, GiveUp
  <2>2. QED
    BY <2>1, <1>2, <1>3 DEF IInv, SingleOwner, GiveUp
<1>8. QED
  BY <1>4, <1>5, <1>6, <1>7 DEF IInv

LEMMA PutMessageIInv ==
  ASSUME IInv, NEW s \in Source, PutMessage(s)
  PROVE  IInv'
<1>1. /\ pc[s] = "put"
      /\ Allocated(slot[s])
      /\ queue' = Append(queue, slot[s])
      /\ slot' = [slot EXCEPT ![s] = 0]
      /\ pc' = [pc EXCEPT ![s] = "post"]
      /\ UNCHANGED <<msg, msgHeap, dataHeap, events, ppc, cur, tx, air, burst>>
  BY DEF PutMessage, prodVars, heapVars
<1>2. slot[s] \in Slot /\ slot[s] # 0 /\ slot[s] \in Held
  BY <1>1 DEF IInv, TypeOK, Holding, Held
<1>3. Held' = Held \ {slot[s]}
  BY <1>1, <1>2 DEF IInv, TypeOK, SingleOwner, Held
<1>4. slot[s] \notin Queued \cup Current
  BY <1>2 DEF IInv, SingleOwner
<1>5. /\ queue' \in Seq(Slot)
      /\ Queued' = Queued \cup {slot[s]}
      /\ \A i, j \in 1 .. Len(queue') : queue'[i] = queue'[j] => i = j
  BY <1>1, <1>2, <1>4, AppendElements DEF IInv, TypeOK, SingleOwner, Queued
<1>6. Current' = Current
  BY <1>1 DEF Current
<1>7. TypeOK'
  BY <1>1, <1>5 DEF IInv, TypeOK, CallStep
<1>8. Holding'
  BY <1>1 DEF IInv, TypeOK, Holding
<1>9. HeapAccounted'
  BY <1>1, <1>2, <1>3, <1>5, <1>6 DEF IInv, HeapAccounted, Allocated
<1>10. SingleOwner'
  <2>1. \A t, u \in Source : slot'[t] = slot'[u] /\ slot'[t] # 0 => t = u
    BY <1>1 DEF IInv, TypeOK, SingleOwner
  <2>2. QED
    BY <2>1, <1>3, <1>4, <1>5, <1>6 DEF IInv, SingleOwner
<1>11. QED
  BY <1>7, <1>8, <1>9, <1>10 DEF IInv

LEMMA PostEventIInv ==
  ASSUME IInv, NEW s \in Source, PostEvent(s)
  PROVE  IInv'
<1>1. /\ pc[s] = "post"
      /\ pc' = [pc EXCEPT ![s] = "idle"]
      /\ events' = events \cup {s}
      /\ ppc' = ppc \/ (ppc = "wait" /\ ppc' = "check")
      /\ UNCHANGED <<slot, msg, msgHeap, dataHeap, queue, cur, tx, air, burst>>
  BY DEF PostEvent, heapVars
<1>2. Held' = Held /\ Queued' = Queued /\ Current' = Current
  BY <1>1 DEF Held, Queued, Current
<1>3. TypeOK'
  BY <1>1 DEF IInv, TypeOK, CallStep, ProducerStep
<1>4. Holding'
  BY <1>1 DEF IInv, TypeOK, Holding
<1>5. HeapAccounted' /\ SingleOwner'
  BY <1>1, <1>2 DEF IInv, HeapAccounted, SingleOwner
<1>6. QED
  BY <1>3, <1>4, <1>5 DEF IInv

LEMMA CallIInv ==
  ASSUME IInv, NEW s \in Source, Call(s)
  PROVE  IInv'
<1>1. CASE AllocFailed(s)
  BY <1>1, GiveUpIInv DEF AllocFailed, prodVars
<1>2. CASE QueueFull(s)
  BY <1>2, GiveUpIInv DEF QueueFull, prodVars
<1>3. QED
  BY <1>1, <1>2, AllocDataIInv, PutMessageIInv, PostEventIInv DEF Call

-----------------------------------------------------------------------------
(* The steps of producer_thread.                                           *)
LEMMA ProducerIInv ==
  ASSUME IInv, Producer
  PROVE  IInv'
<1> USE DEF IInv
<1>1. CASE EnterWait
  <2>1. Held' = Held /\ Queued' = Queued /\ Current' = Current
    BY <1>1 DEF EnterWait, callVars, Held, Queued, Current
  <2>2. TypeOK' /\ Holding'
    BY <1>1 DEF EnterWait, callVars, heapVars, TypeOK, Holding, ProducerStep
  <2>3. QED
    BY <1>1, <2>1, <2>2 DEF EnterWait, callVars, heapVars, HeapAccounted, SingleOwner
<1>2. CASE Drained
  <2>1. Held' = Held /\ Queued' = Queued /\ Current' = Current
    BY <1>2 DEF Drained, callVars, Held, Queued, Current
  <2>2. TypeOK' /\ Holding'
    BY <1>2 DEF Drained, callVars, heapVars, TypeOK, Holding, ProducerStep
  <2>3. QED
    BY <1>2, <2>1, <2>2 DEF Drained, callVars, heapVars, HeapAccounted, SingleOwner
<1>3. CASE TakeMessage
  <2>1. /\ ppc = "check" /\ ppc' = "process"
        /\ queue # <<>> /\ queue' = Tail(queue) /\ cur' = Head(queue)
        /\ UNCHANGED <<pc, slot, msg, msgHeap, dataHeap, events, tx, air, burst>>
    BY <1>3 DEF TakeMessage, callVars, heapVars
  <2>2. /\ queue' \in Seq(Slot)
        /\ cur' \in Slot
        /\ Queued = Queued' \cup {cur'}
        /\ cur' \notin Queued'
        /\ \A i, j \in 1 .. Len(queue') : queue'[i] = queue'[j] => i = j
    <3>1. queue \in Seq(Slot) /\ \A i, j \in 1 .. Len(queue) : queue[i] = queue[j] => i = j
      BY DEF TypeOK, SingleOwner
    <3>2. Queued = {queue[i] : i \in 1 .. Len(queue)} /\ Queued' = {queue'[i] : i \in 1 .. Len(queue')}
      BY DEF Queued
    <3>3. QED
      BY <2>1, <3>1, <3>2, TailElements
  <2>3. Held' = Held /\ Current = {} /\ Current' = {cur'} /\ cur' # 0
    BY <2>1, <2>2 DEF Held, Current, Holding, Slot
  <2>4. TypeOK' /\ Holding'
    BY <2>1, <2>2, <2>3 DEF TypeOK, Holding, ProducerStep
  <2>5. HeapAccounted' /\ SingleOwner'
    BY <2>1, <2>2, <2>3 DEF HeapAccounted, SingleOwner
  <2>6. QED
    BY <2>4, <2>5
<1>4. CASE ProcessMessage
  <2>1. Held' = Held /\ Queued' = Queued /\ Current' = Current
    BY <1>4 DEF ProcessMessage, callVars, Held, Queued, Current
  <2>2. cur \in Slot /\ msg[cur].data \in Value \cup {"zero"}
    BY <1>4 DEF ProcessMessage, TypeOK, Holding, Garbage, Feed!Reading
  <2>3. tx' \in Feed!Frame
    BY <1>4, <2>2 DEF ProcessMessage, TypeOK, Feed!Frame, Feed!Cell
  <2>4. TypeOK' /\ Holding'
    BY <1>4, <2>3 DEF ProcessMessage, callVars, heapVars, TypeOK, Holding, ProducerStep
  <2>5. QED
    BY <1>4, <2>1, <2>4 DEF ProcessMessage, callVars, heapVars, HeapAccounted, SingleOwner
<1>5. CASE Notify
  <2>1. Held' = Held /\ Queued' = Queued /\ Current' = Current
    BY <1>5 DEF Notify, callVars, Held, Queued, Current
  <2>2. TypeOK' /\ Holding'
    BY <1>5 DEF Notify, callVars, heapVars, TypeOK, Holding, ProducerStep
  <2>3. QED
    BY <1>5, <2>1, <2>2 DEF Notify, callVars, heapVars, HeapAccounted, SingleOwner
<1>6. CASE FreeMessage
  <2>1. /\ ppc = "free" /\ ppc' = "check" /\ cur' = 0
        /\ msgHeap' = msgHeap \ {cur}
        /\ dataHeap' = dataHeap \ {cur}
        /\ msg' = [msg EXCEPT ![cur] = Garbage]
        /\ UNCHANGED <<pc, slot, queue, events, tx, air, burst>>
    BY <1>6 DEF FreeMessage
  <2>2. Held' = Held /\ Queued' = Queued /\ Current = {cur} /\ Current' = {}
    BY <2>1 DEF Held, Queued, Current, Holding
  <2>3. TypeOK' /\ Holding'
    BY <2>1 DEF TypeOK, Holding, ProducerStep, Garbage
  <2>4. HeapAccounted' /\ SingleOwner'
    BY <2>1, <2>2 DEF HeapAccounted, SingleOwner
  <2>5. QED
    BY <2>3, <2>4
<1>7. QED
  BY <1>1, <1>2, <1>3, <1>4, <1>5, <1>6 DEF Producer

LEMMA NextIInv == IInv /\ [Next]_vars => IInv'
<1> SUFFICES ASSUME IInv, [Next]_vars PROVE IInv'
  OBVIOUS
<1>1. CASE \E s \in Source, v \in Value : StartCall(s, v)
  BY <1>1, StartCallIInv
<1>2. CASE \E s \in Source : Call(s)
  BY <1>2, CallIInv
<1>3. CASE Producer
  BY <1>3, ProducerIInv
<1>4. CASE UNCHANGED vars
  <2>1. Held' = Held /\ Queued' = Queued /\ Current' = Current
    BY <1>4 DEF vars, Held, Queued, Current
  <2>2. TypeOK' /\ Holding'
    BY <1>4 DEF vars, IInv, TypeOK, Holding
  <2>3. HeapAccounted' /\ SingleOwner'
    BY <1>4, <2>1 DEF vars, IInv, HeapAccounted, SingleOwner
  <2>4. QED
    BY <2>2, <2>3 DEF IInv
<1>5. QED
  BY <1>1, <1>2, <1>3, <1>4 DEF Next

-----------------------------------------------------------------------------
(* Every variable of the pipeline keeps its type.                          *)
THEOREM TypeCorrect == Spec => []TypeOK
<1>1. IInv => TypeOK
  BY DEF IInv
<1>2. QED
  BY <1>1, InitIInv, NextIInv, PTL DEF Spec

(* create_event_payload and producer_thread neither leak a block nor free  *)
(* one that is still queued, whatever the interleaving, the heap's size    *)
(* and its refusals.                                                       *)
THEOREM NoLeakNoEarlyFree == Spec => []HeapAccounted
<1>1. IInv => HeapAccounted
  BY DEF IInv
<1>2. QED
  BY <1>1, InitIInv, NextIInv, PTL DEF Spec

(* No message is ever owned twice: no double free, no use after free.      *)
THEOREM OneOwner == Spec => []SingleOwner
<1>1. IInv => SingleOwner
  BY DEF IInv
<1>2. QED
  BY <1>1, InitIInv, NextIInv, PTL DEF Spec

-----------------------------------------------------------------------------
(* What a call builds is a reading of its own sensor.                      *)

Labelled ==
  \A s \in Source : slot[s] # 0 => msg[slot[s]] \in Feed!Reading /\ msg[slot[s]].event = s

LEMMA InitLabelled == Init => Labelled
  BY DEF Init, Labelled

\* No step but FreeMessage, StartCall and GiveUp writes a message, and none of
\* them one that is queued or that another call builds.
LEMMA MessagesKept ==
  ASSUME IInv, Next, NEW m \in Slot, m \notin Current, msg'[m] # msg[m]
  PROVE  m \notin Queued /\ \A s \in Source : slot'[s] = m => slot[s] # m
<1>1. ASSUME NEW s \in Source, NEW v \in Value, StartCall(s, v)
      PROVE  m \notin Queued /\ \A t \in Source : slot'[t] = m => slot[t] # m
  <2>1. PICK k \in Slot : Unused(k) /\ msg' = [msg EXCEPT ![k] = [event |-> s, data |-> v]]
    BY <1>1 DEF StartCall
  <2>2. k = m
    BY <2>1 DEF IInv, TypeOK
  <2>3. QED
    BY <2>1, <2>2 DEF Unused, IInv, HeapAccounted
<1>2. ASSUME NEW s \in Source, Call(s)
      PROVE  m \notin Queued /\ \A t \in Source : slot'[t] = m => slot[t] # m
  <2>1. pc[s] = "put" /\ GiveUp(s)
    BY <1>2 DEF Call, AllocData, AllocFailed, QueueFull, PutMessage, PostEvent, heapVars
  <2>2. slot[s] = m /\ m \in Held
    BY <2>1 DEF GiveUp, IInv, TypeOK, Holding, Held, Slot
  <2>3. \A t \in Source : slot'[t] = m => t # s /\ slot[t] = m
    BY <2>1, <2>2 DEF GiveUp, IInv, TypeOK, Slot
  <2>4. QED
    BY <2>2, <2>3 DEF IInv, SingleOwner, Slot
<1>3. CASE Producer
  BY <1>3 DEF Producer, EnterWait, Drained, TakeMessage, ProcessMessage, Notify, FreeMessage,
              callVars, IInv, TypeOK, Current, Holding
<1>4. QED
  BY <1>1, <1>2, <1>3 DEF Next

LEMMA NextLabelled == IInv /\ Labelled /\ [Next]_vars => Labelled'
<1> SUFFICES ASSUME IInv, Labelled, [Next]_vars, NEW s \in Source, slot'[s] # 0
             PROVE  msg'[slot'[s]] \in Feed!Reading /\ msg'[slot'[s]].event = s
  BY DEF Labelled, Feed!Reading
<1>1. CASE Next
  <2>1. CASE slot'[s] = slot[s]
    <3>1. slot[s] \in Slot /\ slot[s] \notin Current
      BY <2>1 DEF IInv, TypeOK, SingleOwner, Held
    <3>2. msg'[slot[s]] = msg[slot[s]]
      BY <1>1, <2>1, <3>1, MessagesKept
    <3>3. QED
      BY <2>1, <3>2 DEF Labelled
  <2>2. CASE slot'[s] # slot[s]
    <3>1. PICK v \in Value, t \in Source : StartCall(t, v)
      BY <1>1, <2>2 DEF Next, Call, Producer, AllocData, AllocFailed, QueueFull, PutMessage,
           PostEvent, GiveUp, EnterWait, Drained, TakeMessage, ProcessMessage, Notify,
           FreeMessage, callVars, IInv, TypeOK
    <3>2. PICK m \in Slot : /\ slot' = [slot EXCEPT ![t] = m]
                            /\ msg' = [msg EXCEPT ![m] = [event |-> t, data |-> v]]
      BY <3>1 DEF StartCall
    <3>3. QED
      BY <2>2, <3>2 DEF IInv, TypeOK, Feed!Reading
  <2>3. QED
    BY <2>1, <2>2
<1>2. CASE UNCHANGED vars
  BY <1>2 DEF vars, Labelled
<1>3. QED
  BY <1>1, <1>2

-----------------------------------------------------------------------------
(* What a lost wake-up strands.  Only a sensor that preempts producer_thread *)
(* runs while that is on its way to sleep, and it calls once.                *)

Stranded ==
  /\ \A m \in Queued : msg[m].event \in Preemptor \cap burst
  /\ \A m, n \in Queued : msg[m].event = msg[n].event => m = n

Entering ==
  ppc = "enter" =>
    /\ Stranded
    /\ \A s \in Preemptor :
         /\ pc[s] # "idle" => s \in burst
         /\ slot[s] # 0 => \A m \in Queued : msg[m].event # s

NoPost == \A s \in Source : pc[s] # "post"

Asleep == ppc = "wait" /\ NoPost => Stranded

LEMMA Priorities == \A s \in Source : Priority(s) \in {-1, 3, 5}
<1> SUFFICES ASSUME NEW s \in Source
             PROVE  Priority(s) \in {-1, 3, 5}
  OBVIOUS
<1>1. s \in {"HRBO", "AHT20_TS", "BMP280_PS", "AS201_IMU"}
  BY SensorAssumption DEF SensorAssumption
<1>2. QED
  BY <1>1 DEF Priority

LEMMA OnlyPreemptorsEnter ==
  ASSUME ppc = "enter", NEW s \in Source, Runs(s)
  PROVE  s \in Preemptor
  BY Priorities DEF Runs, ProducerReady, Preemptor, PRODUCER_PRIORITY

LEMMA NoPreemptorCalls ==
  ASSUME ProducerRuns, NEW s \in Preemptor
  PROVE  pc[s] = "idle"
  BY Priorities DEF ProducerRuns, Preemptor, PRODUCER_PRIORITY

\* What is queued keeps its sensor.
LEMMA QueuedKept ==
  ASSUME IInv, Next, NEW m \in Queued
  PROVE  msg'[m] = msg[m]
<1>1. m \in Slot /\ m \notin Current
  BY DEF IInv, TypeOK, SingleOwner, Queued
<1>2. QED
  BY <1>1, MessagesKept

LEMMA StrandedKept ==
  ASSUME IInv, Next, Stranded, Queued' = Queued, burst \subseteq burst'
  PROVE  Stranded'
  BY QueuedKept DEF Stranded, Preemptor

LEMMA NextEntering ==
  ASSUME IInv, Labelled, Entering, [Next]_vars
  PROVE  Entering'
<1> SUFFICES ASSUME ppc' = "enter", Next
             PROVE  Entering'
  BY DEF Entering, Stranded, Queued, vars
<1>1. ASSUME NEW s \in Source, NEW v \in Value, StartCall(s, v)
      PROVE  Entering'
  <2>1. /\ ppc = "enter" /\ s \notin burst /\ Runs(s)
        /\ burst' = burst \cup {s}
        /\ pc' = [pc EXCEPT ![s] = "allocData"]
        /\ UNCHANGED queue
    BY <1>1 DEF StartCall, prodVars
  <2>2. PICK k \in Slot : slot' = [slot EXCEPT ![s] = k]
    BY <1>1 DEF StartCall
  <2>3. Queued' = Queued /\ Stranded /\ Stranded'
    BY <2>1, StrandedKept DEF Queued, Entering
  <2>4. ASSUME NEW t \in Preemptor
        PROVE  /\ pc'[t] # "idle" => t \in burst'
               /\ slot'[t] # 0 => \A m \in Queued : msg'[m].event # t
    <3>1. CASE t = s
      BY <2>1, <2>3, <3>1, QueuedKept DEF Stranded
    <3>2. CASE t # s
      BY <2>1, <2>2, <2>3, <3>2, QueuedKept DEF Entering, IInv, TypeOK, Preemptor
    <3>3. QED
      BY <3>1, <3>2
  <2>5. QED
    BY <2>3, <2>4 DEF Entering, Preemptor
<1>2. ASSUME NEW s \in Source, Call(s)
      PROVE  Entering'
  <2>1. ppc = "enter" /\ s \in Preemptor /\ burst' = burst
    BY <1>2, OnlyPreemptorsEnter DEF Call, AllocData, AllocFailed, PutMessage, QueueFull,
            PostEvent, prodVars
  <2>2. /\ \A t \in Preemptor : pc'[t] # "idle" => pc[t] # "idle"
        /\ \A t \in Preemptor : slot'[t] # 0 => slot[t] # 0
    BY <1>2 DEF Call, AllocData, AllocFailed, PutMessage, QueueFull, PostEvent, GiveUp,
                IInv, TypeOK, Preemptor
  <2>3. CASE PutMessage(s)
    <3>1. /\ pc[s] = "put" /\ slot[s] # 0 /\ slot[s] \in Slot
          /\ queue' = Append(queue, slot[s])
          /\ slot' = [slot EXCEPT ![s] = 0] /\ msg' = msg
      BY <2>3 DEF PutMessage, IInv, Holding, TypeOK
    <3>2. Queued' = Queued \cup {slot[s]} /\ msg[slot[s]].event = s
      BY <3>1, AppendElements DEF IInv, TypeOK, Queued, Labelled
    <3>3. s \in burst /\ \A m \in Queued : msg[m].event # s
      BY <2>1, <3>1 DEF Entering
    <3>4. Stranded'
      BY <2>1, <3>1, <3>2, <3>3 DEF Entering, Stranded, Preemptor
    <3>5. ASSUME NEW t \in Preemptor, slot'[t] # 0
          PROVE  \A m \in Queued' : msg'[m].event # t
      BY <2>1, <2>2, <3>1, <3>2, <3>5 DEF Entering, IInv, TypeOK, Preemptor
    <3>6. QED
      BY <2>1, <2>2, <3>4, <3>5 DEF Entering, Preemptor
  <2>4. CASE ~PutMessage(s)
    <3>1. Queued' = Queued
      BY <1>2, <2>4 DEF Call, AllocData, AllocFailed, QueueFull, PostEvent, GiveUp, Queued
    <3>2. Stranded'
      BY <2>1, <3>1, StrandedKept DEF Entering
    <3>3. QED
      BY <2>1, <2>2, <3>1, <3>2, QueuedKept DEF Entering, Preemptor
  <2>5. QED
    BY <2>3, <2>4
<1>3. CASE Producer
  <2>1. Drained
    BY <1>3 DEF Producer, EnterWait, TakeMessage, ProcessMessage, Notify, FreeMessage
  <2>2. Queued' = {} /\ \A s \in Preemptor : pc'[s] = "idle" /\ slot'[s] = 0
    BY <2>1, NoPreemptorCalls DEF Drained, Queued, callVars, IInv, Holding, Preemptor
  <2>3. QED
    BY <2>2 DEF Entering, Stranded, Preemptor
<1>4. QED
  BY <1>1, <1>2, <1>3 DEF Next

LEMMA NextAsleep ==
  ASSUME IInv, Entering, Asleep, [Next]_vars
  PROVE  Asleep'
<1> SUFFICES ASSUME ppc' = "wait", NoPost', Next
             PROVE  Stranded'
  BY DEF Asleep, Stranded, Queued, NoPost, vars
<1>1. CASE EnterWait
  BY <1>1, StrandedKept DEF EnterWait, Entering, callVars, Queued
<1>2. ASSUME NEW s \in Source, NEW v \in Value, StartCall(s, v)
      PROVE  Stranded'
  <2>1. ppc = "wait" /\ Queued' = Queued /\ burst' = burst /\ pc' = [pc EXCEPT ![s] = "allocData"]
        /\ pc[s] = "idle"
    BY <1>2 DEF StartCall, Queued, prodVars
  <2>2. NoPost
    BY <2>1 DEF NoPost, IInv, TypeOK
  <2>3. QED
    BY <2>1, <2>2, StrandedKept DEF Asleep
<1>3. ASSUME NEW s \in Source, Call(s)
      PROVE  Stranded'
  <2>1. ppc = "wait" /\ burst' = burst
    BY <1>3 DEF Call, AllocData, AllocFailed, PutMessage, QueueFull, PostEvent, prodVars
  <2>2. ~PutMessage(s) /\ ~PostEvent(s)
    BY <2>1 DEF PutMessage, PostEvent, NoPost, Mask, IInv, TypeOK
  <2>3. Queued' = Queued
    BY <1>3, <2>2 DEF Call, AllocData, AllocFailed, QueueFull, GiveUp, Queued
  <2>4. NoPost
    BY <1>3, <2>2 DEF Call, AllocData, AllocFailed, QueueFull, GiveUp, NoPost, IInv, TypeOK
  <2>5. QED
    BY <2>1, <2>3, <2>4, StrandedKept DEF Asleep
<1>4. CASE Producer /\ ~EnterWait
  BY <1>4 DEF Producer, Drained, TakeMessage, ProcessMessage, Notify, FreeMessage
<1>5. QED
  BY <1>1, <1>2, <1>3, <1>4 DEF Next

LEMMA FewSensors == IsFiniteSet(Source)
<1> DEFINE Sensors == {} \cup {"HRBO"} \cup {"AHT20_TS"} \cup {"BMP280_PS"} \cup {"AS201_IMU"}
<1>1. IsFiniteSet(Sensors)
  <2>1. IsFiniteSet({})
    BY FS_EmptySet
  <2>2. \A S, x : IsFiniteSet(S) => IsFiniteSet(S \cup {x})
    BY FS_AddElement
  <2>3. QED
    BY <2>1, <2>2
<1>2. Source \subseteq Sensors
  BY SensorAssumption DEF SensorAssumption
<1>3. QED
  BY <1>1, <1>2, FS_Subset

\* One message from each of some sensors are no more than these.
LEMMA OneEach ==
  ASSUME IInv, Stranded
  PROVE  Len(queue) <= Cardinality(Preemptor)
<1> DEFINE f == [i \in 1 .. Len(queue) |-> msg[queue[i]].event]
<1>1. Len(queue) \in Nat
  BY DEF IInv, TypeOK
<1>2. \A i \in 1 .. Len(queue) : queue[i] \in Queued
  BY DEF Queued
<1>3. f \in [1 .. Len(queue) -> Preemptor]
  BY <1>2 DEF Stranded
<1>4. \A i, j \in 1 .. Len(queue) : f[i] = f[j] => i = j
  BY <1>2 DEF Stranded, IInv, SingleOwner
<1>5. f \in Injection(1 .. Len(queue), Preemptor)
  BY <1>3, <1>4 DEF Injection, IsInjective
<1>6. IsFiniteSet(Preemptor)
  BY FewSensors, FS_Subset DEF Preemptor
<1>7. Cardinality(1 .. Len(queue)) <= Cardinality(Preemptor)
  BY <1>5, <1>6, FS_Injection
<1>8. Cardinality(1 .. Len(queue)) = Len(queue)
  <2>1. \A n \in Nat : Cardinality(1 .. n) = n
    BY FS_Interval
  <2>2. QED
    BY <1>1, <2>1
<1>9. QED
  BY <1>7, <1>8

LEMMA NextStranded ==
  IInv /\ Labelled /\ Entering /\ Asleep /\ [Next]_vars
    => (IInv /\ Labelled /\ Entering /\ Asleep)'
  BY NextIInv, NextLabelled, NextEntering, NextAsleep

LEMMA InitStranded == Init => Entering /\ Asleep
<1> SUFFICES ASSUME Init
             PROVE  Entering /\ Asleep
  OBVIOUS
<1>1. Queued = {}
  BY DEF Init, Queued
<1>2. \A s \in Preemptor : pc[s] = "idle"
  BY DEF Init, Preemptor
<1>3. QED
  BY <1>1, <1>2 DEF Init, Entering, Asleep, Stranded

(* Whatever the heap refuses and in whatever order the sensors interrupt   *)
(* each other and the producer: a lost wake-up leaves at most one message  *)
(* of each sensor that preempts producer_thread.                           *)
THEOREM LostWakeUps == Spec => []StrandedOnlyByPreemption
<1>1. IInv /\ Asleep => StrandedOnlyByPreemption
  BY OneEach DEF Asleep, NoPost, Stranded, StrandedOnlyByPreemption
<1>2. QED
  BY InitIInv, InitLabelled, InitStranded, NextStranded, <1>1, PTL DEF Spec

-----------------------------------------------------------------------------
(* SensorProducer implements SensorFeed.  Backlog is what it puts for the  *)
(* backlog of SensorFeed: what producer_thread holds and has not merged,   *)
(* then the queue.                                                         *)

Entry == Feed!Reading \cup {Garbage}

Extra == IF ppc = "process" THEN 1 ELSE 0

Backlog == [i \in 1 .. Len(queue) + Extra |->
              IF ppc = "process"
              THEN IF i = 1 THEN msg[cur] ELSE msg[queue[i - 1]]
              ELSE msg[queue[i]]]

LEMMA BacklogTyped ==
  ASSUME TypeOK, Holding
  PROVE  /\ Backlog \in Seq(Entry)
         /\ Len(Backlog) = Len(queue) + Extra
         /\ Len(queue) \in Nat
<1>1. Len(queue) \in Nat /\ queue \in [1 .. Len(queue) -> Slot]
  BY DEF TypeOK
<1>2. Len(queue) + Extra \in Nat
  BY <1>1 DEF Extra
<1>3. ppc = "process" => cur \in Slot
  BY DEF TypeOK, Holding
<1>4. ASSUME NEW i \in 1 .. Len(queue) + Extra
      PROVE  Backlog[i] \in Entry
  <2>1. CASE ppc = "process"
    <3>1. i # 1 => i - 1 \in 1 .. Len(queue)
      BY <1>1, <2>1 DEF Extra
    <3>2. QED
      BY <1>1, <1>3, <2>1, <3>1 DEF Backlog, TypeOK, Entry
  <2>2. CASE ppc # "process"
    <3>1. i \in 1 .. Len(queue)
      BY <1>1, <2>2 DEF Extra
    <3>2. QED
      BY <1>1, <2>2, <3>1 DEF Backlog, TypeOK, Entry
  <2>3. QED
    BY <2>1, <2>2
<1>5. Backlog \in [1 .. Len(queue) + Extra -> Entry]
  BY <1>4 DEF Backlog
<1>6. QED
  BY <1>1, <1>2, <1>5

\* No call writes a message that is queued or that producer_thread holds.
LEMMA CallsKeep ==
  ASSUME IInv, NEW s \in Source,
         (\E v \in Value : StartCall(s, v)) \/ Call(s),
         NEW m \in Queued \cup Current
  PROVE  msg'[m] = msg[m]
<1>1. m \in Slot
  BY DEF IInv, TypeOK, Queued, Current
<1>2. ASSUME NEW v \in Value, StartCall(s, v)
      PROVE  msg'[m] = msg[m]
  <2>1. PICK k \in Slot : Unused(k) /\ msg' = [msg EXCEPT ![k] = [event |-> s, data |-> v]]
    BY <1>2 DEF StartCall
  <2>2. k # m
    BY <2>1 DEF Unused, IInv, HeapAccounted
  <2>3. QED
    BY <1>1, <2>1, <2>2 DEF IInv, TypeOK
<1>3. CASE Call(s) /\ pc[s] = "put" /\ GiveUp(s)
  <2>1. slot[s] \in Held
    BY <1>3 DEF IInv, TypeOK, Holding, Held
  <2>2. slot[s] # m
    BY <2>1 DEF IInv, SingleOwner
  <2>3. QED
    BY <1>1, <1>3, <2>2 DEF GiveUp, IInv, TypeOK
<1>4. CASE Call(s) /\ ~(pc[s] = "put" /\ GiveUp(s))
  BY <1>4 DEF Call, AllocData, AllocFailed, QueueFull, PutMessage, PostEvent, heapVars
<1>5. QED
  BY <1>2, <1>3, <1>4

\* The backlog is the same if queue, producer and their messages are.
LEMMA BacklogKept ==
  ASSUME TypeOK, Holding, queue' = queue,
         ppc' = "process" <=> ppc = "process",
         ppc = "process" => cur' = cur,
         \A m \in Queued : msg'[m] = msg[m],
         ppc = "process" => msg'[cur] = msg[cur]
  PROVE  Backlog' = Backlog
<1>1. Len(queue) \in Nat /\ \A i \in 1 .. Len(queue) : queue[i] \in Queued
  BY DEF TypeOK, Queued
<1>2. CASE ppc = "process"
  <2>1. Extra = 1 /\ Extra' = 1 /\ ppc' = "process"
    BY <1>2 DEF Extra
  <2>2. \A i \in 1 .. Len(queue) + 1 : i # 1 => i - 1 \in 1 .. Len(queue)
    BY <1>1
  <2>3. QED
    BY <1>1, <1>2, <2>1, <2>2 DEF Backlog
<1>3. CASE ppc # "process"
  <2>1. Extra = 0 /\ Extra' = 0 /\ ppc' # "process"
    BY <1>3 DEF Extra
  <2>2. Len(queue) + 0 = Len(queue)
    BY <1>1
  <2>3. QED
    BY <1>1, <1>3, <2>1, <2>2 DEF Backlog
<1>4. QED
  BY <1>2, <1>3

LEMMA BacklogTypedAgain ==
  IInv' => (Backlog \in Seq(Entry) /\ Len(Backlog) = Len(queue) + Extra /\ Len(queue) \in Nat)'
<1>1. IInv => Backlog \in Seq(Entry) /\ Len(Backlog) = Len(queue) + Extra /\ Len(queue) \in Nat
  BY BacklogTyped DEF IInv
<1>2. QED
  BY <1>1, PTL

\* k_msgq_put adds the reading at the end.
LEMMA PutBacklog ==
  ASSUME IInv, IInv', Labelled, NEW s \in Source, PutMessage(s)
  PROVE  /\ msg[slot[s]] \in Feed!Reading
         /\ Backlog' = Append(Backlog, msg[slot[s]])
         /\ Len(Backlog) < QueueSize + 1
<1> DEFINE r == msg[slot[s]]
           n == Len(queue)
<1>1. /\ Backlog \in Seq(Entry) /\ Len(Backlog) = n + Extra /\ n \in Nat
      /\ Backlog' \in Seq(Entry) /\ Len(Backlog') = Len(queue') + Extra'
  BY BacklogTyped, BacklogTypedAgain DEF IInv
<1>2. /\ queue' = Append(queue, slot[s]) /\ n < QueueSize
      /\ UNCHANGED <<msg, ppc, cur>>
      /\ slot[s] \in Slot /\ slot[s] # 0
  BY DEF PutMessage, prodVars, IInv, TypeOK, Holding
<1>3. r \in Feed!Reading
  BY <1>2 DEF Labelled
<1>4. /\ queue \in Seq(Slot) /\ Len(queue') = n + 1 /\ queue'[n + 1] = slot[s]
      /\ \A i \in 1 .. n : queue'[i] = queue[i]
  BY <1>2 DEF IInv, TypeOK
<1>5. Extra' = Extra /\ Extra \in {0, 1}
  BY <1>2 DEF Extra
<1>6. /\ Append(Backlog, r) \in Seq(Entry)
      /\ Len(Append(Backlog, r)) = n + Extra + 1
      /\ \A i \in 1 .. n + Extra : Append(Backlog, r)[i] = Backlog[i]
      /\ Append(Backlog, r)[n + Extra + 1] = r
  BY <1>1, <1>3, AppendProperties DEF Entry
<1>7. ASSUME NEW i \in 1 .. n + Extra + 1
      PROVE  Backlog'[i] = Append(Backlog, r)[i]
  <2>1. Len(queue') + Extra' = n + Extra + 1
    BY <1>1, <1>4, <1>5
  <2>2. Backlog'[i] = IF ppc = "process" THEN IF i = 1 THEN msg[cur] ELSE msg[queue'[i - 1]]
                      ELSE msg[queue'[i]]
    BY <1>2, <2>1 DEF Backlog
  <2>3. CASE i = n + Extra + 1
    <3>1. ppc = "process" => Extra = 1 /\ i # 1 /\ i - 1 = n + 1
      BY <1>1, <2>3 DEF Extra
    <3>2. ppc # "process" => i = n + 1
      BY <1>1, <2>3 DEF Extra
    <3>3. QED
      BY <1>4, <1>6, <2>2, <2>3, <3>1, <3>2
  <2>4. CASE i # n + Extra + 1
    <3>1. i \in 1 .. n + Extra
      BY <1>1, <1>5, <2>4
    <3>2. Backlog[i] = IF ppc = "process" THEN IF i = 1 THEN msg[cur] ELSE msg[queue[i - 1]]
                       ELSE msg[queue[i]]
      BY <3>1 DEF Backlog
    <3>3. ppc = "process" /\ i # 1 => i - 1 \in 1 .. n
      BY <1>1, <3>1 DEF Extra
    <3>4. ppc # "process" => i \in 1 .. n
      BY <1>1, <3>1 DEF Extra
    <3>5. QED
      BY <1>4, <1>6, <2>2, <3>1, <3>2, <3>3, <3>4
  <2>5. QED
    BY <2>3, <2>4
<1>8. Backlog' = Append(Backlog, r)
  <2>1. Len(Backlog') = n + Extra + 1
    BY <1>1, <1>4, <1>5
  <2>2. QED
    BY <1>1, <1>6, <1>7, <2>1, SeqEqual
<1>9. Len(Backlog) < QueueSize + 1
  BY <1>1, <1>2, <1>5, SensorAssumption DEF SensorAssumption
<1>10. QED
  BY <1>3, <1>8, <1>9

\* k_msgq_get moves the oldest reading from the queue to producer_thread.
LEMMA TakeBacklog ==
  ASSUME IInv, IInv', TakeMessage
  PROVE  Backlog' = Backlog
<1> DEFINE n == Len(queue)
<1>1. /\ Backlog \in Seq(Entry) /\ Len(Backlog) = n + Extra /\ n \in Nat
      /\ Backlog' \in Seq(Entry) /\ Len(Backlog') = Len(queue') + Extra'
  BY BacklogTyped, BacklogTypedAgain DEF IInv
<1>2. /\ ppc = "check" /\ ppc' = "process" /\ msg' = msg
      /\ cur' = Head(queue) /\ queue' = Tail(queue) /\ queue # <<>>
  BY DEF TakeMessage, callVars
<1>3. Extra = 0 /\ Extra' = 1
  BY <1>2 DEF Extra
<1>4. /\ n \in Nat \ {0} /\ Len(queue') = n - 1 /\ cur' = queue[1]
      /\ \A i \in 1 .. n - 1 : queue'[i] = queue[i + 1]
  BY <1>2 DEF IInv, TypeOK
<1>5. ASSUME NEW i \in 1 .. n
      PROVE  Backlog'[i] = Backlog[i]
  <2>1. Len(queue') + Extra' = n /\ Len(queue) + Extra = n
    BY <1>1, <1>3, <1>4
  <2>2. Backlog[i] = msg[queue[i]]
    BY <1>2, <2>1 DEF Backlog
  <2>3. Backlog'[i] = IF i = 1 THEN msg[cur'] ELSE msg[queue'[i - 1]]
    BY <1>2, <2>1 DEF Backlog
  <2>4. i # 1 => i - 1 \in 1 .. n - 1 /\ queue'[i - 1] = queue[i]
    BY <1>4
  <2>5. QED
    BY <1>4, <2>2, <2>3, <2>4
<1>6. Len(Backlog') = n /\ Len(Backlog) = n
  BY <1>1, <1>3, <1>4
<1>7. QED
  BY <1>1, <1>5, <1>6, SeqEqual

\* The reading that producer_thread holds is the oldest; merging uses it up.
LEMMA ProcessBacklog ==
  ASSUME IInv, IInv', ProcessMessage
  PROVE  /\ Backlog # <<>>
         /\ Head(Backlog) = msg[cur]
         /\ Backlog' = Tail(Backlog)
<1> DEFINE n == Len(queue)
<1>1. /\ Backlog \in Seq(Entry) /\ Len(Backlog) = n + Extra /\ n \in Nat
      /\ Backlog' \in Seq(Entry) /\ Len(Backlog') = Len(queue') + Extra'
  BY BacklogTyped, BacklogTypedAgain DEF IInv
<1>2. ppc = "process" /\ ppc' # "process" /\ queue' = queue /\ msg' = msg
  BY DEF ProcessMessage, callVars
<1>3. Extra = 1 /\ Extra' = 0
  BY <1>2 DEF Extra
<1>4. Backlog # <<>> /\ Len(Backlog) = n + 1
  BY <1>1, <1>3
<1>5. Head(Backlog) = msg[cur]
  <2>1. Head(Backlog) = Backlog[1] /\ 1 \in 1 .. n + Extra
    BY <1>1, <1>3, <1>4
  <2>2. Backlog[1] = msg[cur]
    BY <1>2, <2>1 DEF Backlog
  <2>3. QED
    BY <2>1, <2>2
<1>6. /\ Tail(Backlog) \in Seq(Entry) /\ Len(Tail(Backlog)) = n
      /\ \A i \in 1 .. n : Tail(Backlog)[i] = Backlog[i + 1]
  BY <1>1, <1>4, HeadTailProperties
<1>7. ASSUME NEW i \in 1 .. n
      PROVE  Backlog'[i] = Tail(Backlog)[i]
  <2>1. Len(queue') + Extra' = n /\ i + 1 \in 1 .. n + Extra /\ i + 1 # 1 /\ (i + 1) - 1 = i
    BY <1>1, <1>2, <1>3
  <2>2. Backlog[i + 1] = msg[queue[i]]
    BY <1>2, <2>1 DEF Backlog
  <2>3. Backlog'[i] = msg[queue[i]]
    BY <1>2, <2>1 DEF Backlog
  <2>4. QED
    BY <1>6, <2>2, <2>3
<1>8. Len(Backlog') = n
  BY <1>1, <1>2, <1>3
<1>9. QED
  BY <1>1, <1>4, <1>5, <1>6, <1>7, <1>8, SeqEqual

\* What SensorFeed sees of a step that changes nothing there, and of its three
\* steps.
FeedStutters ==
  Backlog' = Backlog /\ UNCHANGED <<tx, air>> /\ (ppc' = "notify" <=> ppc = "notify")

FeedAccepts ==
  \E reading \in Feed!Reading :
    /\ Len(Backlog) < QueueSize + 1
    /\ Backlog' = Append(Backlog, reading)
    /\ UNCHANGED <<tx, air>>
    /\ ppc' = "notify" <=> ppc = "notify"

FeedConsumes ==
  /\ ppc # "notify"
  /\ Backlog # <<>>
  /\ tx' = Feed!Merge(tx, Head(Backlog))
  /\ ppc' = "notify" <=> Head(Backlog).event = "HRBO"
  /\ Backlog' = Tail(Backlog)
  /\ UNCHANGED air

FeedPublishes ==
  /\ ppc = "notify" /\ ppc' # "notify"
  /\ air' \in {tx, air}
  /\ Backlog' = Backlog
  /\ UNCHANGED tx

LEMMA FeedStep ==
  ASSUME FeedStutters \/ FeedAccepts \/ FeedConsumes \/ FeedPublishes
  PROVE  [Feed!Next]_(Feed!feedVars)
<1>1. CASE FeedStutters
  BY <1>1 DEF FeedStutters, Backlog, Extra, Feed!feedVars
<1>2. CASE FeedAccepts
  BY <1>2 DEF FeedAccepts, Backlog, Extra, Feed!Next, Feed!Accept
<1>3. CASE FeedConsumes
  BY <1>3 DEF FeedConsumes, Backlog, Extra, Feed!Next, Feed!Consume
<1>4. CASE FeedPublishes
  BY <1>4 DEF FeedPublishes, Backlog, Extra, Feed!Next, Feed!Publish
<1>5. QED
  BY <1>1, <1>2, <1>3, <1>4

LEMMA StepSimulates ==
  ASSUME IInv, IInv', Labelled, [Next]_vars
  PROVE  FeedStutters \/ FeedAccepts \/ FeedConsumes \/ FeedPublishes
<1> USE DEF IInv
<1>1. ASSUME NEW s \in Source, (\E v \in Value : StartCall(s, v)) \/ (Call(s) /\ ~PutMessage(s))
      PROVE  FeedStutters
  <2>1. /\ UNCHANGED <<queue, cur, tx, air>>
        /\ ppc' = "process" <=> ppc = "process"
        /\ ppc' = "notify" <=> ppc = "notify"
    BY <1>1 DEF StartCall, Call, AllocData, AllocFailed, QueueFull, PostEvent, GiveUp, prodVars
  <2>2. \A m \in Queued \cup Current : msg'[m] = msg[m]
    BY <1>1, CallsKeep
  <2>3. ppc = "process" => cur \in Current
    BY DEF Holding, Current
  <2>4. Backlog' = Backlog
    BY <2>1, <2>2, <2>3, BacklogKept
  <2>5. QED
    BY <2>1, <2>4 DEF FeedStutters
<1>2. ASSUME NEW s \in Source, PutMessage(s)
      PROVE  FeedAccepts
  BY <1>2, PutBacklog DEF FeedAccepts, PutMessage, prodVars
<1>3. CASE EnterWait \/ Drained
  <2>1. UNCHANGED <<queue, cur, msg, tx, air>> /\ ppc \in {"enter", "check"} /\ ppc' \in {"wait", "check", "enter"}
    BY <1>3 DEF EnterWait, Drained, callVars
  <2>2. Backlog' = Backlog
    BY <2>1, BacklogKept
  <2>3. QED
    BY <2>1, <2>2 DEF FeedStutters
<1>4. CASE TakeMessage
  BY <1>4, TakeBacklog DEF FeedStutters, TakeMessage
<1>5. CASE ProcessMessage
  BY <1>5, ProcessBacklog DEF FeedConsumes, ProcessMessage, Feed!Merge
<1>6. CASE Notify
  <2>1. Backlog' = Backlog
    BY <1>6, BacklogKept DEF Notify, callVars
  <2>2. QED
    BY <1>6, <2>1 DEF FeedPublishes, Notify
<1>7. CASE FreeMessage
  <2>1. /\ ppc = "free" /\ ppc' = "check"
        /\ UNCHANGED <<queue, tx, air>>
    BY <1>7 DEF FreeMessage
  <2>2. \A m \in Queued : msg'[m] = msg[m]
    BY <1>7, QueuedKept DEF Next, Producer
  <2>3. Backlog' = Backlog
    BY <2>1, <2>2, BacklogKept
  <2>4. QED
    BY <2>1, <2>3 DEF FeedStutters
<1>8. CASE UNCHANGED vars
  <2>1. Backlog' = Backlog
    BY <1>8, BacklogKept DEF vars
  <2>2. QED
    BY <1>8, <2>1 DEF vars, FeedStutters
<1>9. QED
  BY <1>1, <1>2, <1>3, <1>4, <1>5, <1>6, <1>7, <1>8 DEF Next, Producer

LEMMA InitSimulates == Init => Feed!Init
<1> SUFFICES ASSUME Init
             PROVE  Feed!Init
  OBVIOUS
<1>1. queue = <<>> /\ ppc = "enter"
  BY DEF Init
<1>2. 1 .. Len(queue) + 0 = {}
  BY <1>1
<1>3. QED
  BY <1>1, <1>2 DEF Init, Feed!Init

(* Readings are merged into the frame in the order in which the queue took *)
(* them, each once, and what goes out is the frame as it stood after one   *)
(* HRBO reading: the pipeline implements SensorFeed, for every heap, queue *)
(* and set of sensors.                                                     *)
THEOREM ImplementsFeed == Spec => FeedSpec
<1>1. IInv /\ IInv' /\ Labelled /\ [Next]_vars => [Feed!Next]_(Feed!feedVars)
  BY StepSimulates, FeedStep
<1>2. QED
  BY InitIInv, NextIInv, InitLabelled, NextLabelled, InitSimulates, <1>1, PTL
     DEF Spec, FeedSpec, Feed!Spec
-----------------------------------------------------------------------------
(* The heap.  A data block is as large as the sensor of its message asked  *)
(* for, and that sensor is known for as long as the block is in use.       *)

Known == \A m \in Queued \cup Current : msg[m].event \in Source

LEMMA InitKnown == Init => Known
  BY DEF Init, Known, Queued, Current

LEMMA NextKnown ==
  ASSUME IInv, Labelled, Known, [Next]_vars
  PROVE  Known'
<1>1. ASSUME NEW s \in Source, (\E v \in Value : StartCall(s, v)) \/ (Call(s) /\ ~PutMessage(s))
      PROVE  Known'
  <2>1. Queued' = Queued /\ Current' = Current
    BY <1>1 DEF StartCall, Call, AllocData, AllocFailed, QueueFull, PostEvent, GiveUp, prodVars,
                Queued, Current
  <2>2. QED
    BY <1>1, <2>1, CallsKeep DEF Known
<1>2. ASSUME NEW s \in Source, PutMessage(s)
      PROVE  Known'
  <2>1. /\ slot[s] \in Slot /\ slot[s] # 0
        /\ queue' = Append(queue, slot[s]) /\ UNCHANGED <<msg, cur>>
    BY <1>2 DEF PutMessage, prodVars, IInv, TypeOK, Holding
  <2>2. Queued' = Queued \cup {slot[s]} /\ Current' = Current
    BY <2>1, AppendElements DEF IInv, TypeOK, Queued, Current
  <2>3. QED
    BY <2>1, <2>2 DEF Known, Labelled
<1>3. CASE TakeMessage
  <2>1. /\ queue # <<>> /\ queue' = Tail(queue) /\ cur' = Head(queue) /\ msg' = msg
    BY <1>3 DEF TakeMessage, callVars
  <2>2. Queued' \cup Current' \subseteq Queued
    BY <2>1, TailElements DEF IInv, TypeOK, Queued, Current
  <2>3. QED
    BY <2>1, <2>2 DEF Known
<1>4. CASE FreeMessage
  <2>1. Queued' = Queued /\ Current' = {} /\ \A m \in Queued : msg'[m] = msg[m]
    BY <1>4, QueuedKept DEF Next, Producer, FreeMessage, Queued, Current
  <2>2. QED
    BY <2>1 DEF Known
<1>5. CASE EnterWait \/ Drained \/ ProcessMessage \/ Notify \/ UNCHANGED vars
  BY <1>5 DEF EnterWait, Drained, ProcessMessage, Notify, vars, callVars, Known, Queued, Current
<1>6. QED
  BY <1>1, <1>2, <1>3, <1>4, <1>5 DEF Next, Producer

\* A message is not rewritten while it keeps its data block.
LEMMA BlocksKept ==
  ASSUME IInv, Next, NEW m \in dataHeap, m \in dataHeap'
  PROVE  msg'[m] = msg[m]
<1>1. m \in Slot
  BY DEF IInv, TypeOK
<1>2. ASSUME NEW s \in Source, NEW v \in Value, StartCall(s, v)
      PROVE  msg'[m] = msg[m]
  BY <1>1, <1>2 DEF StartCall, Unused, IInv, TypeOK
<1>3. ASSUME NEW s \in Source, Call(s)
      PROVE  msg'[m] = msg[m]
  BY <1>1, <1>3 DEF Call, AllocData, AllocFailed, QueueFull, GiveUp, PutMessage, PostEvent,
                    heapVars, IInv, TypeOK
<1>4. CASE Producer
  BY <1>1, <1>4 DEF Producer, EnterWait, Drained, TakeMessage, ProcessMessage, Notify, FreeMessage,
                    callVars, IInv, TypeOK
<1>5. QED
  BY <1>2, <1>3, <1>4 DEF Next

\* The units of the block a step allocates.
MsgUnits(m) == {m} \X (1 .. MsgCost)
DataUnits(m, s) == {m} \X (MsgCost + 1 .. MsgCost + DataCost[s])

LEMMA UnitsGrow ==
  ASSUME IInv, Labelled, Known, Next
  PROVE  \/ Units' \subseteq Units
         \/ Fits(MsgCost) /\ \E m \in Slot : Units' \subseteq Units \cup MsgUnits(m)
         \/ \E s \in Source : /\ Fits(DataCost[s])
                             /\ Units' \subseteq Units \cup DataUnits(slot[s], s)
<1>1. \A m \in dataHeap : m \in dataHeap' => msg'[m] = msg[m]
  BY BlocksKept
<1>2. ASSUME msgHeap' \subseteq msgHeap, dataHeap' \subseteq dataHeap
      PROVE  Units' \subseteq Units
  BY <1>1, <1>2 DEF Units
<1>3. ASSUME NEW s \in Source, NEW v \in Value, StartCall(s, v)
      PROVE  \/ Units' \subseteq Units
             \/ Fits(MsgCost) /\ \E m \in Slot : Units' \subseteq Units \cup MsgUnits(m)
  <2>1. PICK m \in Slot : \/ Fits(MsgCost) /\ msgHeap' = msgHeap \cup {m}
                          \/ UNCHANGED msgHeap
    BY <1>3 DEF StartCall
  <2>2. dataHeap' = dataHeap
    BY <1>3 DEF StartCall
  <2>3. CASE Fits(MsgCost) /\ msgHeap' = msgHeap \cup {m}
    <3>1. Units' \subseteq Units \cup MsgUnits(m)
      BY <1>1, <2>2, <2>3 DEF Units, MsgUnits
    <3>2. QED
      BY <2>3, <3>1
  <2>4. QED
    BY <1>2, <2>1, <2>2, <2>3
<1>4. ASSUME NEW s \in Source, AllocData(s)
      PROVE  \/ Units' \subseteq Units
             \/ Fits(DataCost[s]) /\ Units' \subseteq Units \cup DataUnits(slot[s], s)
  <2>1. /\ msgHeap' = msgHeap /\ msg' = msg
        /\ \/ Fits(DataCost[s]) /\ dataHeap' = dataHeap \cup {slot[s]}
           \/ UNCHANGED dataHeap
    BY <1>4 DEF AllocData
  <2>2. msg[slot[s]].event = s
    BY <1>4 DEF AllocData, IInv, Holding, Labelled
  <2>3. CASE Fits(DataCost[s]) /\ dataHeap' = dataHeap \cup {slot[s]}
    BY <2>1, <2>2, <2>3 DEF Units, DataUnits
  <2>4. QED
    BY <1>2, <2>1, <2>3
<1>5. ASSUME NEW s \in Source, Call(s), ~AllocData(s)
      PROVE  msgHeap' \subseteq msgHeap /\ dataHeap' \subseteq dataHeap
  BY <1>5 DEF Call, AllocFailed, QueueFull, GiveUp, PutMessage, PostEvent, heapVars
<1>6. CASE Producer
  BY <1>2, <1>6 DEF Producer, EnterWait, Drained, TakeMessage, ProcessMessage, Notify, FreeMessage,
              heapVars
<1>7. QED
  BY <1>2, <1>3, <1>4, <1>5, <1>6 DEF Next

\* The heap hands out no more than it has.
HeapKept == IsFiniteSet(Units) /\ Used <= HeapSize

LEMMA BlockCost ==
  ASSUME NEW m
  PROVE  /\ IsFiniteSet(MsgUnits(m)) /\ Cardinality(MsgUnits(m)) = MsgCost
         /\ \A s \in Source : /\ IsFiniteSet(DataUnits(m, s))
                             /\ Cardinality(DataUnits(m, s)) = DataCost[s]
<1>1. MsgCost \in Nat \ {0} /\ \A s \in Source : DataCost[s] \in Nat \ {0}
  BY SensorAssumption DEF SensorAssumption
<1>2. IsFiniteSet({m}) /\ Cardinality({m}) = 1
  BY FS_Singleton
<1>3. ASSUME NEW j \in Nat, NEW c \in Nat \ {0}
      PROVE  IsFiniteSet(j + 1 .. j + c) /\ Cardinality(j + 1 .. j + c) = c
  <2>1. /\ j + 1 \in Int /\ j + c \in Int
        /\ ~(j + 1 > j + c) /\ (j + c) - (j + 1) + 1 = c
    OBVIOUS
  <2>2. QED
    BY <2>1, FS_Interval
<1>4. ASSUME NEW S, NEW n \in Nat, IsFiniteSet(S), Cardinality(S) = n
      PROVE  IsFiniteSet({m} \X S) /\ Cardinality({m} \X S) = n
  <2>1. IsFiniteSet({m} \X S) /\ Cardinality({m} \X S) = Cardinality({m}) * Cardinality(S)
    BY <1>2, <1>4, FS_Product
  <2>2. 1 * n = n
    OBVIOUS
  <2>3. QED
    BY <1>2, <1>4, <2>1, <2>2
<1>5. IsFiniteSet(MsgUnits(m)) /\ Cardinality(MsgUnits(m)) = MsgCost
  <2>1. IsFiniteSet(1 .. MsgCost) /\ Cardinality(1 .. MsgCost) = MsgCost
    <3>1. 0 + 1 = 1 /\ 0 + MsgCost = MsgCost
      BY <1>1
    <3>2. QED
      BY <1>1, <1>3, <3>1
  <2>2. QED
    BY <1>1, <1>4, <2>1 DEF MsgUnits
<1>6. ASSUME NEW s \in Source
      PROVE  IsFiniteSet(DataUnits(m, s)) /\ Cardinality(DataUnits(m, s)) = DataCost[s]
  <2>1. /\ IsFiniteSet(MsgCost + 1 .. MsgCost + DataCost[s])
        /\ Cardinality(MsgCost + 1 .. MsgCost + DataCost[s]) = DataCost[s]
    BY <1>1, <1>3
  <2>2. QED
    BY <1>1, <1>4, <2>1 DEF DataUnits
<1>7. QED
  BY <1>5, <1>6

LEMMA HeapGrows ==
  ASSUME HeapKept, NEW cost \in Nat, Fits(cost),
         NEW N, IsFiniteSet(N), Cardinality(N) = cost, Units' \subseteq Units \cup N
  PROVE  HeapKept'
<1>1. /\ IsFiniteSet(Units \cup N)
      /\ Cardinality(Units \cup N) = Cardinality(Units) + Cardinality(N) - Cardinality(Units \cap N)
  BY FS_Union DEF HeapKept
<1>2. Cardinality(Units) \in Nat /\ Cardinality(Units \cap N) \in Nat
  BY FS_CardinalityType, FS_Intersection DEF HeapKept
<1>3. IsFiniteSet(Units') /\ Cardinality(Units') <= Cardinality(Units \cup N)
  BY <1>1, FS_Subset
<1>4. Cardinality(Units') \in Nat /\ Cardinality(Units \cup N) \in Nat
  BY <1>1, <1>3, FS_CardinalityType
<1>5. QED
  BY <1>1, <1>2, <1>3, <1>4, SensorAssumption DEF HeapKept, Used, Fits, SensorAssumption

LEMMA NextHeapKept ==
  ASSUME IInv, Labelled, Known, HeapKept, [Next]_vars
  PROVE  HeapKept'
<1>1. ASSUME Units' \subseteq Units
      PROVE  HeapKept'
  <2>1. IsFiniteSet(Units') /\ Cardinality(Units') <= Cardinality(Units)
    BY <1>1, FS_Subset DEF HeapKept
  <2>2. Cardinality(Units') \in Nat /\ Cardinality(Units) \in Nat
    BY <2>1, FS_CardinalityType DEF HeapKept
  <2>3. QED
    BY <2>1, <2>2, SensorAssumption DEF HeapKept, Used, SensorAssumption
<1>2. ASSUME Fits(MsgCost), NEW m \in Slot, Units' \subseteq Units \cup MsgUnits(m)
      PROVE  HeapKept'
  BY <1>2, BlockCost, HeapGrows, SensorAssumption DEF SensorAssumption
<1>3. ASSUME NEW s \in Source, Fits(DataCost[s]), Units' \subseteq Units \cup DataUnits(slot[s], s)
      PROVE  HeapKept'
  BY <1>3, BlockCost, HeapGrows, SensorAssumption DEF SensorAssumption
<1>4. CASE UNCHANGED vars
  BY <1>1, <1>4 DEF vars, Units
<1>5. QED
  BY <1>1, <1>2, <1>3, <1>4, UnitsGrow

LEMMA InitHeapKept == Init => HeapKept
<1> SUFFICES ASSUME Init
             PROVE  HeapKept
  OBVIOUS
<1>1. Units = {}
  BY DEF Init, Units
<1>2. QED
  BY <1>1, FS_EmptySet, SensorAssumption DEF HeapKept, Used, SensorAssumption

HInv == IInv /\ Labelled /\ Known /\ HeapKept

LEMMA NextHInv == HInv /\ [Next]_vars => HInv'
  BY NextIInv, NextLabelled, NextKnown, NextHeapKept DEF HInv

LEMMA InitHInv == Init => HInv
  BY InitIInv, InitLabelled, InitKnown, InitHeapKept DEF HInv

\* The first k units of everything that is queued are in use, if a message and
\* its data take k units at least.
LEMMA QueueWeight ==
  ASSUME HInv, NEW k \in Nat, \A s \in Source : MsgCost + DataCost[s] >= k
  PROVE  Len(queue) * k <= HeapSize
<1> DEFINE n == Len(queue)
           f == [i \in 1 .. n |-> queue[i]]
<1>1. n \in Nat /\ k \in Nat
  BY DEF HInv, IInv, TypeOK
<1>2. \A j \in Nat : IsFiniteSet(1 .. j) /\ Cardinality(1 .. j) = j
  BY FS_Interval
<1>3. /\ IsFiniteSet(1 .. n) /\ Cardinality(1 .. n) = n
      /\ IsFiniteSet(1 .. k) /\ Cardinality(1 .. k) = k
  BY <1>1, <1>2
<1>4. IsFiniteSet(Queued) /\ Cardinality(Queued) = n
  <2>1. f \in Surjection(1 .. n, Queued)
    BY DEF Surjection, Queued
  <2>2. \A i, j \in 1 .. n : f[i] = f[j] => i = j
    BY DEF HInv, IInv, SingleOwner
  <2>3. f \in Injection(1 .. n, Queued)
    BY <2>1, <2>2 DEF Surjection, Injection, IsInjective
  <2>4. QED
    BY <1>3, <2>1, <2>3, FS_Surjection
<1>5. /\ IsFiniteSet(Queued \X (1 .. k))
      /\ Cardinality(Queued \X (1 .. k)) = n * k
  <2> HIDE DEF n
  <2>1. /\ IsFiniteSet(Queued \X (1 .. k))
        /\ Cardinality(Queued \X (1 .. k)) = Cardinality(Queued) * Cardinality(1 .. k)
    BY <1>3, <1>4, FS_Product
  <2>2. QED
    BY <1>3, <1>4, <2>1
<1>6. ASSUME NEW m \in Queued, NEW u \in 1 .. k
      PROVE  <<m, u>> \in Units
  <2>1. m \in msgHeap /\ m \in dataHeap /\ msg[m].event \in Source
    BY DEF HInv, IInv, HeapAccounted, Known
  <2>2. MsgCost \in Nat /\ DataCost[msg[m].event] \in Nat
    BY <2>1, SensorAssumption DEF SensorAssumption
  <2>3. u \in 1 .. MsgCost \/ u \in MsgCost + 1 .. MsgCost + DataCost[msg[m].event]
    BY <2>1, <2>2
  <2>4. QED
    BY <2>1, <2>3 DEF Units
<1>7. Queued \X (1 .. k) \subseteq Units
  BY <1>6
<1>8. IsFiniteSet(Units) /\ Cardinality(Units) <= HeapSize /\ HeapSize \in Nat
  BY SensorAssumption DEF HInv, HeapKept, Used, SensorAssumption
<1>9. Cardinality(Queued \X (1 .. k)) <= Cardinality(Units) /\ Cardinality(Units) \in Nat
  BY <1>7, <1>8, FS_Subset, FS_CardinalityType
<1>10. n * k \in Nat
  BY <1>1
<1>11. QED
  BY <1>5, <1>8, <1>9, <1>10

(* k_malloc never hands out more than the heap has.                        *)
THEOREM HeapNeverOverdrawn == Spec => [](Used <= HeapSize)
<1>1. HInv => Used <= HeapSize
  BY DEF HInv, HeapKept
<1>2. QED
  BY <1>1, InitHInv, NextHInv, PTL DEF Spec

(* If as many messages as the queue has places, with their data, do not    *)
(* fit into the heap, whichever sensor they come from (two blocks of 16    *)
(* bytes at least, headers included, 100 places, 2048 bytes), the queue is *)
(* full in no state: k_msgq_put never fails, and of the two error paths of *)
(* create_event_payload only the one for memory is ever taken.             *)
THEOREM HeapFillsFirst ==
  ASSUME \A s \in Source : QueueSize * (MsgCost + DataCost[s]) > HeapSize
  PROVE  Spec => []QueueNeverFull
<1>1. ASSUME HInv, ~QueueNeverFull
      PROVE  FALSE
  <2> DEFINE n == Len(queue)
  <2>1. n \in Nat /\ QueueSize \in Nat \ {0} /\ n >= QueueSize /\ HeapSize \in Nat
    BY <1>1, SensorAssumption DEF HInv, IInv, TypeOK, QueueNeverFull, SensorAssumption
  <2>2. PICK k \in Nat : QueueSize * k > HeapSize /\ QueueSize * (k - 1) <= HeapSize
    <3> DEFINE d == HeapSize \div QueueSize
    <3>1. d \in Nat /\ QueueSize * d <= HeapSize /\ QueueSize * (d + 1) > HeapSize
      BY <2>1
    <3>2. QED
      BY <3>1
  <2>3. ASSUME NEW s \in Source
        PROVE  MsgCost + DataCost[s] >= k
    <3> DEFINE c == MsgCost + DataCost[s]
    <3>1. c \in Nat /\ QueueSize * c > HeapSize
      BY SensorAssumption DEF SensorAssumption
    <3> HIDE DEF c
    <3>2. c < k => QueueSize * c <= QueueSize * (k - 1)
      BY <2>1, <2>2, <3>1
    <3>3. QED
      BY <2>1, <2>2, <3>1, <3>2 DEF c
  <2>4. n * k <= HeapSize
    BY <1>1, <2>3, QueueWeight
  <2>5. n * k >= QueueSize * k
    BY <2>1
  <2>6. QED
    BY <2>1, <2>2, <2>4, <2>5
<1>2. QED
  BY <1>1, InitHInv, NextHInv, PTL DEF Spec

-----------------------------------------------------------------------------
\* Some slot is left for the next call, and one of them is the smallest.
SlotLeft == \E m \in Slot : Unused(m) /\ \A k \in 1 .. m - 1 : ~Unused(k)

LEMMA SmallestOf ==
  ASSUME NEW T, T \subseteq Nat, T # {}
  PROVE  \E x \in T : \A y \in T : ~(y < x)
<1>1. PICK x \in T : \A y \in T : <<y, x>> \notin OpToRel(<, Nat)
  BY NatLessThanWellFounded, WFMin, Zenon
<1>2. QED
  BY <1>1 DEF OpToRel

\* A slot in use has a unit of the heap or is a call's.
LEMMA SlotsSuffice ==
  ASSUME HInv
  PROVE  SlotLeft
<1> DEFINE Blocks == msgHeap \cup dataHeap
           Calls == {slot[s] : s \in Source}
           unit == [m \in Blocks |-> IF m \in msgHeap THEN <<m, 1>> ELSE <<m, MsgCost + 1>>]
           call == [s \in Source |-> slot[s]]
           Left == {m \in Slot : Unused(m)}
<1>1. /\ IsFiniteSet(Units) /\ Cardinality(Units) <= HeapSize
      /\ HeapSize \in Nat /\ Cardinality(Units) \in Nat
  BY FS_CardinalityType, SensorAssumption DEF HInv, HeapKept, Used, SensorAssumption
<1>2. IsFiniteSet(Blocks) /\ Cardinality(Blocks) <= Cardinality(Units)
  <2>1. MsgCost \in Nat \ {0}
    BY SensorAssumption DEF SensorAssumption
  <2>2. ASSUME NEW m \in Blocks
        PROVE  unit[m] \in Units
    <3>1. CASE m \in msgHeap
      BY <2>1, <3>1 DEF Units
    <3>2. CASE m \notin msgHeap
      <4>1. m \in dataHeap /\ msg[m].event \in Source
        BY <3>2 DEF HInv, IInv, HeapAccounted, Known, Labelled, Held
      <4>2. DataCost[msg[m].event] \in Nat \ {0}
        BY <4>1, SensorAssumption DEF SensorAssumption
      <4>3. MsgCost + 1 \in MsgCost + 1 .. MsgCost + DataCost[msg[m].event]
        BY <2>1, <4>2
      <4>4. QED
        BY <3>2, <4>1, <4>3 DEF Units
    <3>3. QED
      BY <3>1, <3>2
  <2>3. \A m, n \in Blocks : unit[m] = unit[n] => m = n
    OBVIOUS
  <2>4. unit \in Injection(Blocks, Units)
    BY <2>2, <2>3 DEF Injection, IsInjective
  <2>5. QED
    BY <1>1, <2>4, FS_Injection
<1>3. IsFiniteSet(Calls) /\ Cardinality(Calls) <= Cardinality(Source)
  <2>1. call \in Surjection(Source, Calls)
    BY DEF Surjection
  <2>2. QED
    BY <2>1, FewSensors, FS_Surjection
<1>4. Left # {}
  <2>1. SUFFICES ASSUME Left = {}
                 PROVE  FALSE
    OBVIOUS
  <2>2. Slot \subseteq Blocks \cup Calls
    BY <2>1 DEF Unused
  <2> HIDE DEF Blocks, Calls, unit, call, Left
  <2>3. /\ IsFiniteSet(Blocks \cup Calls)
        /\ Cardinality(Blocks \cup Calls)
             = Cardinality(Blocks) + Cardinality(Calls) - Cardinality(Blocks \cap Calls)
    BY <1>2, <1>3, FS_Union
  <2>4. IsFiniteSet(Slot) /\ Cardinality(Slot) <= Cardinality(Blocks \cup Calls)
    BY <2>2, <2>3, FS_Subset
  <2>5. /\ Cardinality(Source) \in Nat /\ Cardinality(Blocks) \in Nat /\ Cardinality(Calls) \in Nat
        /\ Cardinality(Blocks \cap Calls) \in Nat
    BY <1>2, <1>3, FewSensors, FS_CardinalityType, FS_Intersection
  <2>6. \A j \in Nat : Cardinality(1 .. j) = j
    BY FS_Interval
  <2>7. Cardinality(Slot) = HeapSize + Cardinality(Source) + 1
    BY <1>1, <2>5, <2>6 DEF Slot
  <2>8. QED
    BY <1>1, <1>2, <1>3, <2>3, <2>4, <2>5, <2>7
<1>5. Left \subseteq Nat
  BY DEF Slot
<1>6. PICK m \in Left : \A k \in Left : ~(k < m)
  BY <1>4, <1>5, SmallestOf
<1>7. \A k \in 1 .. m - 1 : k \in Slot /\ k < m
  <2>1. /\ HeapSize \in Nat /\ Cardinality(Source) \in Nat /\ m \in Slot
    BY <1>1, FewSensors, FS_CardinalityType
  <2>2. QED
    BY <2>1 DEF Slot
<1>8. QED
  BY <1>6, <1>7 DEF SlotLeft

(* The model numbers messages by slots, of which it has one more than      *)
(* there are units of memory and calls together; k_malloc knows no such    *)
(* limit.  None is felt: in every state a call that may start finds a slot.                *)
THEOREM NoCallWantsASlot == Spec => []SlotLeft
  BY InitHInv, NextHInv, SlotsSuffice, PTL DEF Spec

-----------------------------------------------------------------------------
(* What a lost wake-up leaves of the heap.                                 *)

\* The sensors in a call.
Calling == {s \in Source : pc[s] # "idle"}

\* While producer_thread sleeps nothing but what is stranded and what the calls
\* have got is in use, so that any sensor's next message fits, if the heap is
\* large enough for that many messages of at most cost units.
RoomLeft(cost) ==
  ppc = "wait" /\ NoPost
      /\ (Cardinality(Preemptor) + Cardinality(Calling) + 1) * cost <= HeapSize
    => \A s \in Source : Fits(MsgCost + DataCost[s])

LEMMA OwnedInCalls ==
  ASSUME HInv, Stranded
  PROVE  /\ IsFiniteSet(Held \cup Queued)
         /\ Cardinality(Held \cup Queued) <= Cardinality(Preemptor) + Cardinality(Calling)
<1> DEFINE n == Len(queue)
           f == [i \in 1 .. n |-> queue[i]]
           Slots == {slot[s] : s \in Calling}
           call == [s \in Calling |-> slot[s]]
<1>1. n \in Nat /\ n <= Cardinality(Preemptor)
  BY OneEach DEF HInv, IInv, TypeOK
<1>2. IsFiniteSet(Queued) /\ Cardinality(Queued) <= n
  <2>1. \A j \in Nat : IsFiniteSet(1 .. j) /\ Cardinality(1 .. j) = j
    BY FS_Interval
  <2>2. IsFiniteSet(1 .. n) /\ Cardinality(1 .. n) = n
    BY <1>1, <2>1
  <2>3. f \in Surjection(1 .. n, Queued)
    BY DEF Surjection, Queued
  <2>4. QED
    BY <2>2, <2>3, FS_Surjection
<1>3. IsFiniteSet(Calling) /\ IsFiniteSet(Preemptor)
  BY FewSensors, FS_Subset DEF Calling, Preemptor
<1>4. IsFiniteSet(Slots) /\ Cardinality(Slots) <= Cardinality(Calling)
  <2>1. call \in Surjection(Calling, Slots)
    BY DEF Surjection
  <2>2. QED
    BY <1>3, <2>1, FS_Surjection
<1>5. Held \subseteq Slots
  BY DEF HInv, IInv, Holding, Held, Calling
<1> HIDE DEF n, f, Slots, call
<1>6. IsFiniteSet(Held) /\ Cardinality(Held) <= Cardinality(Slots)
  BY <1>4, <1>5, FS_Subset
<1>7. /\ IsFiniteSet(Held \cup Queued)
      /\ Cardinality(Held \cup Queued)
           = Cardinality(Held) + Cardinality(Queued) - Cardinality(Held \cap Queued)
  BY <1>2, <1>6, FS_Union
<1>8. /\ Cardinality(Held) \in Nat /\ Cardinality(Queued) \in Nat /\ Cardinality(Slots) \in Nat
      /\ Cardinality(Held \cap Queued) \in Nat /\ Cardinality(Preemptor) \in Nat
      /\ Cardinality(Calling) \in Nat
  BY <1>2, <1>3, <1>4, <1>6, FS_CardinalityType, FS_Intersection
<1>9. QED
  BY <1>1, <1>2, <1>4, <1>6, <1>7, <1>8

LEMMA StrandedFits ==
  ASSUME HInv, Asleep, NEW cost \in Nat, \A s \in Source : MsgCost + DataCost[s] <= cost
  PROVE  RoomLeft(cost)
<1> SUFFICES ASSUME ppc = "wait", NoPost, NEW s \in Source,
                    (Cardinality(Preemptor) + Cardinality(Calling) + 1) * cost <= HeapSize
             PROVE  Fits(MsgCost + DataCost[s])
  BY DEF RoomLeft
<1> DEFINE Owned == Held \cup Queued
<1>1. IsFiniteSet(Owned) /\ Cardinality(Owned) <= Cardinality(Preemptor) + Cardinality(Calling)
  BY OwnedInCalls DEF Asleep
<1>2. /\ MsgCost \in Nat \ {0} /\ HeapSize \in Nat
      /\ \A t \in Source : DataCost[t] \in Nat \ {0}
  BY SensorAssumption DEF SensorAssumption
<1>3. Units \subseteq Owned \X (1 .. cost)
  <2>1. msgHeap \cup dataHeap \subseteq Owned
    BY DEF HInv, IInv, HeapAccounted, Holding, Current
  <2>2. ASSUME NEW m \in msgHeap, NEW u \in 1 .. MsgCost
        PROVE  <<m, u>> \in Owned \X (1 .. cost)
    <3>1. MsgCost <= cost
      BY <1>2
    <3>2. u \in 1 .. cost
      BY <1>2, <3>1
    <3>3. QED
      BY <2>1, <3>2
  <2>3. ASSUME NEW m \in dataHeap, NEW u \in MsgCost + 1 .. MsgCost + DataCost[msg[m].event]
        PROVE  <<m, u>> \in Owned \X (1 .. cost)
    <3>1. msg[m].event \in Source
      BY <2>1 DEF HInv, IInv, Known, Labelled, Held
    <3>2. /\ DataCost[msg[m].event] \in Nat
          /\ MsgCost + DataCost[msg[m].event] <= cost
      BY <1>2, <3>1
    <3>3. u \in 1 .. cost
      BY <1>2, <3>2
    <3>4. QED
      BY <2>1, <3>3
  <2>4. QED
    BY <2>2, <2>3 DEF Units
<1> HIDE DEF Owned
<1>4. IsFiniteSet(1 .. cost) /\ Cardinality(1 .. cost) = cost
  <2>1. \A j \in Nat : IsFiniteSet(1 .. j) /\ Cardinality(1 .. j) = j
    BY FS_Interval
  <2>2. QED
    BY <2>1
<1>5. /\ IsFiniteSet(Owned \X (1 .. cost))
      /\ Cardinality(Owned \X (1 .. cost)) = Cardinality(Owned) * cost
  BY <1>1, <1>4, FS_Product
<1>6. Cardinality(Units) <= Cardinality(Owned \X (1 .. cost)) /\ Cardinality(Units) \in Nat
  BY <1>3, <1>5, FS_Subset, FS_CardinalityType
<1>7. /\ Cardinality(Owned) \in Nat /\ Cardinality(Preemptor) \in Nat
      /\ Cardinality(Calling) \in Nat
  BY <1>1, FewSensors, FS_Subset, FS_CardinalityType DEF Preemptor, Calling
<1>8. \A o, p, c, k, h \in Nat : o <= p + c /\ (p + c + 1) * k <= h => o * k + k <= h
  <2>1. SUFFICES ASSUME NEW o \in Nat, NEW p \in Nat, NEW c \in Nat, NEW k \in Nat, NEW h \in Nat,
                        o <= p + c, (p + c + 1) * k <= h
                 PROVE  o * k + k <= h
    OBVIOUS
  <2>2. PICK e \in Nat : p + c = o + e
    BY <2>1
  <2>3. (p + c + 1) * k = o * k + e * k + k /\ e * k >= 0
    BY <2>2
  <2>4. QED
    BY <2>1, <2>3
<1>9. Cardinality(Owned) * cost + cost <= HeapSize
  BY <1>1, <1>2, <1>7, <1>8
<1>10. QED
  BY <1>2, <1>5, <1>6, <1>7, <1>9 DEF Fits, Used

(* Lost wake-ups do not exhaust the heap: with room for one message of each *)
(* sensor that preempts producer_thread, of each call under way and one    *)
(* more (7 of less than 150 bytes, headers included, against 2048), the    *)
(* next reading of any sensor gets its memory while producer_thread        *)
(* sleeps, and its event wakes it: what QueuedIsTaken needs besides        *)
(* fairness.                                                               *)
THEOREM RoomForTheNext ==
  ASSUME NEW cost \in Nat, \A s \in Source : MsgCost + DataCost[s] <= cost
  PROVE  Spec => []RoomLeft(cost)
<1>1. HInv /\ Asleep => RoomLeft(cost)
  BY StrandedFits
<1>2. HInv /\ IInv /\ Labelled /\ Entering /\ Asleep /\ [Next]_vars
        => (HInv /\ IInv /\ Labelled /\ Entering /\ Asleep)'
  BY NextHInv, NextStranded
<1>3. Init => HInv /\ IInv /\ Labelled /\ Entering /\ Asleep
  BY InitHInv, InitStranded, InitIInv, InitLabelled
<1>4. QED
  BY <1>1, <1>2, <1>3, PTL DEF Spec
=============================================================================
