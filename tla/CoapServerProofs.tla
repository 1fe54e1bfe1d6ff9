--------------------------- MODULE CoapServerProofs ---------------------------
(* Proofs about CoapServer, for any number of callers and exchanges.            *)
(*                                                                              *)
(* An answer is fresh because a query that overlaps with none finds the         *)
(* semaphore empty. That is a matter of counting (WakeUps): a wake-up that is   *)
(* left over or will still be given has a caller that is still blocked. From    *)
(* there the query is followed to its end (Alone).                              *)
EXTENDS CoapServer, FiniteSetTheorems, TLAPS

Gets == {e \in Exchange : request[e] = "get"}
Blocked == {c \in Caller : pc[c] \in {"sent", "waiting"}}

WakeUps == led_get_sem + Cardinality(Gets) <= Cardinality(Blocked)

\* What is under way belongs to the request that is open.
Exchanged ==
  \A e \in Exchange :
    /\ e \in back => request[e] # None /\ cached[e] # None
    /\ air[e] # None /\ request[e] # None => air[e] = request[e]
    /\ applied[e] # 0 => cached[e] # None
    /\ applied[e] # 2

\* The query of c has not been answered, or it has.
Pending(c) ==
  /\ pc[c] \in {"sent", "waiting"}
  /\ led_get_sem = 0
  /\ current[c] \in Gets
  /\ owner[current[c]] = c
  /\ answer[c] = "garbage"
  /\ cached[current[c]] # None => cached[current[c]] \in seen[c]

Served(c) ==
  /\ pc[c] = "awake" \/ (pc[c] = "sent" /\ led_get_sem = 1)
  /\ Gets = {}
  /\ answer[c] \in seen[c] \cup {"unread"}

Alone(c) ==
  Active(c) /\ ~overlapped[c] =>
    /\ \A d \in Caller \ {c} : ~Active(d)
    /\ Gets \subseteq {current[c]}
    /\ led \in seen[c]
    /\ Pending(c) \/ Served(c)

IInv == TypeOK /\ WakeUps /\ Exchanged /\ \A c \in Caller : Alone(c)

USE DEF None, Led, Request, Remote!None, Remote!Led

-------------------------------------------------------------------------------
(* Types.                                                                       *)

LEMMA InitTyped == Init => TypeOK
<1> SUFFICES ASSUME Init
             PROVE  TypeOK
  OBVIOUS
<1>2. halted \in BOOLEAN /\ overlapped \in [Caller -> BOOLEAN]
  BY Zenon DEF Init
<1>3. QED
  BY <1>2 DEF Init, TypeOK

\* Opening a request, whoever opens it.
LEMMA OpenTyped ==
  ASSUME TypeOK, NEW e \in Exchange, NEW r \in Request, NEW c \in Caller \cup {None},
         Open(e, r, c)
  PROVE  /\ request' \in [Exchange -> Request \cup {None}]
         /\ owner' \in [Exchange -> Caller \cup {None}]
         /\ air' \in [Exchange -> Request \cup {None}]
         /\ cached' \in [Exchange -> Led \cup {None}]
         /\ applied' \in [Exchange -> 0 .. 2]
         /\ led' \in Led /\ back' \subseteq Exchange /\ halted' \in BOOLEAN
  BY DEF TypeOK, Open

\* What a response handler does: it ends the exchange, and for a query it writes
\* the answer or what it reads without one, and gives the semaphore.
LEMMA HandlerDoes ==
  ASSUME TypeOK, Exchanged, NEW e \in Exchange, Handlers(e)
  PROVE  /\ Close(e)
         /\ UNCHANGED <<server, air, current, overlapped, seen>>
         /\ request[e] = "get" =>
              /\ Give
              /\ \E data \in Led \cup {"unread"} :
                   Write(e, data) /\ (data # "unread" => data = cached[e] /\ cached[e] # None)
         /\ request[e] # "get" => UNCHANGED <<answer, pc, led_get_sem>>
<1>1. CASE ResponseArrives(e)
  <2>1. cached[e] \in Led /\ cached[e] # None
    BY <1>1 DEF ResponseArrives, TypeOK, Exchanged
  <2>2. QED
    BY <1>1, <2>1 DEF ResponseArrives
<1>2. CASE RequestTimesOut(e)
  BY <1>2 DEF RequestTimesOut
<1>3. QED
  BY <1>1, <1>2 DEF Handlers

LEMMA GiveTyped ==
  ASSUME TypeOK, Give
  PROVE  /\ pc' \in [Caller -> {"idle", "sent", "waiting", "awake"}]
         /\ led_get_sem' \in 0 .. 1
  BY DEF TypeOK, Give

LEMMA HandlerTyped ==
  ASSUME TypeOK, Exchanged, NEW e \in Exchange, Handlers(e)
  PROVE  TypeOK'
<1> USE DEF TypeOK
<1>1. /\ request' \in [Exchange -> Request \cup {None}]
      /\ owner' \in [Exchange -> Caller \cup {None}]
      /\ back' \subseteq Exchange
      /\ UNCHANGED <<server, air, current, overlapped, seen, halted>>
  BY HandlerDoes DEF Close
<1>2. answer' \in [Caller -> Led \cup {"garbage", "unread"}]
  BY HandlerDoes DEF Write
<1>3. /\ pc' \in [Caller -> {"idle", "sent", "waiting", "awake"}]
      /\ led_get_sem' \in 0 .. 1
  BY HandlerDoes, GiveTyped
<1>4. QED
  BY <1>1, <1>2, <1>3 DEF server

LEMMA NextTyped == TypeOK /\ Exchanged /\ [Next]_vars => TypeOK'
<1> SUFFICES ASSUME TypeOK, Exchanged, [Next]_vars
             PROVE  TypeOK'
  OBVIOUS
<1> USE CommandsAssumption
<1>1. ASSUME NEW r \in Commands, SetState(r)
      PROVE  TypeOK'
  <2>1. PICK e \in Exchange : Open(e, r, None)
    BY <1>1 DEF SetState
  <2>2. QED
    BY <1>1, <2>1, OpenTyped DEF SetState, caller, TypeOK
<1>2. ASSUME NEW c \in Caller, GetState(c)
      PROVE  TypeOK'
  <2>1. PICK e \in Exchange : Open(e, "get", c) /\ current' = [current EXCEPT ![c] = e]
    BY <1>2 DEF GetState
  <2>2. /\ current' \in [Caller -> Exchange \cup {None}]
        /\ pc' \in [Caller -> {"idle", "sent", "waiting", "awake"}]
        /\ answer' \in [Caller -> Led \cup {"garbage", "unread"}]
        /\ led_get_sem' \in 0 .. 1
    BY <1>2, <2>1 DEF GetState, TypeOK
  <2>3. seen' \in [Caller -> SUBSET Led]
    BY <1>2 DEF GetState, TypeOK
  <2>4. overlapped' \in [Caller -> BOOLEAN]
    BY <1>2 DEF GetState, TypeOK, QueryOpen, Active
  <2>5. QED
    BY <2>1, <2>2, <2>3, <2>4, OpenTyped DEF TypeOK
<1>3. ASSUME NEW e \in Exchange, Network(e)
      PROVE  TypeOK'
  BY <1>3 DEF Network, Retransmit, LoseRequest, LoseResponse, server, caller, TypeOK
<1>4. ASSUME NEW e \in Exchange, Server(e)
      PROVE  TypeOK'
  <2>1. CASE AnswerAgain(e)
    BY <2>1 DEF AnswerAgain, Arrives, Send, server, caller, TypeOK
  <2>2. CASE HandleGet(e)
    BY <2>2 DEF HandleGet, Arrives, Respond, Send, caller, TypeOK
  <2>3. CASE HandlePut(e)
    <3>1. led' \in Led
      BY <2>3 DEF HandlePut, CarryOut, NewState, TypeOK
    <3>2. /\ cached' \in [Exchange -> Led \cup {None}]
          /\ back' \subseteq Exchange
      BY <2>3, <3>1 DEF HandlePut, Respond, Send, TypeOK
    <3>3. applied' \in [Exchange -> 0 .. 2]
      BY <2>3 DEF HandlePut, Applied, TypeOK
    <3>4. seen' \in [Caller -> SUBSET Led]
      BY <2>3, <3>1 DEF HandlePut, CarryOut, TypeOK
    <3>5. QED
      BY <2>3, <3>1, <3>2, <3>3, <3>4 DEF HandlePut, CarryOut, Arrives, caller, TypeOK
  <2>4. QED
    BY <1>4, <2>1, <2>2, <2>3 DEF Server
<1>5. ASSUME NEW e \in Exchange, Handlers(e)
      PROVE  TypeOK'
  BY <1>5, HandlerTyped
<1>6. ASSUME NEW c \in Caller, TakeSem(c)
      PROVE  TypeOK'
  BY <1>6 DEF TakeSem, server, TypeOK
<1>7. ASSUME NEW c \in Caller, Return(c)
      PROVE  TypeOK'
  BY <1>7 DEF Return, server, TypeOK
<1>8. CASE UNCHANGED vars \/ \E e \in Exchange : HandlerFaults(e)
  <2>1. halted' \in BOOLEAN
    BY <1>8, Zenon DEF HandlerFaults, vars, TypeOK
  <2>2. UNCHANGED <<server, request, owner, air, back, caller, seen>>
    BY <1>8 DEF HandlerFaults, vars
  <2>3. QED
    BY <2>1, <2>2 DEF server, caller, TypeOK
<1>9. QED
  BY <1>1, <1>2, <1>3, <1>4, <1>5, <1>6, <1>7, <1>8 DEF Next

-------------------------------------------------------------------------------
(* What is under way.                                                           *)

LEMMA InitExchanged == Init => Exchanged
  BY DEF Init, Exchanged

LEMMA NextExchanged == TypeOK /\ Exchanged /\ [Next]_vars => Exchanged'
<1> SUFFICES ASSUME TypeOK, Exchanged, [Next]_vars
             PROVE  Exchanged'
  OBVIOUS
<1> USE CommandsAssumption DEF Exchanged
<1>1. ASSUME NEW e \in Exchange, NEW r \in Request, NEW c, Open(e, r, c)
      PROVE  Exchanged'
  BY <1>1 DEF Open, TypeOK
<1>2. ASSUME NEW e \in Exchange, Network(e)
      PROVE  Exchanged'
  BY <1>2 DEF Network, Retransmit, LoseRequest, LoseResponse, server, caller, TypeOK
<1>3. ASSUME NEW e \in Exchange, Server(e)
      PROVE  Exchanged'
  <2>1. CASE AnswerAgain(e)
    BY <2>1 DEF AnswerAgain, Arrives, Send, server, caller, TypeOK
  <2>2. CASE HandleGet(e)
    BY <2>2 DEF HandleGet, Arrives, Respond, Send, caller, TypeOK
  <2>3. CASE HandlePut(e)
    <3>1. led' # None /\ applied[e] = 0
      BY <2>3 DEF HandlePut, CarryOut, NewState, TypeOK
    <3>2. CASE Respond(e, led') /\ Applied(e)
      BY <2>3, <3>1, <3>2 DEF HandlePut, CarryOut, Arrives, Respond, Send, Applied, TypeOK
    <3>3. CASE UNCHANGED <<cached, back, applied>>
      BY <2>3, <3>3 DEF HandlePut, CarryOut, Arrives, TypeOK
    <3>4. QED
      BY <2>3, <3>2, <3>3 DEF HandlePut
  <2>4. QED
    BY <1>3, <2>1, <2>2, <2>3 DEF Server
<1>4. ASSUME NEW e \in Exchange, Handlers(e)
      PROVE  Exchanged'
  <2>1. Close(e) /\ UNCHANGED <<server, air>>
    BY <1>4, HandlerDoes
  <2>2. QED
    BY <2>1 DEF Close, server, TypeOK
<1>5. ASSUME NEW c \in Caller, TakeSem(c) \/ Return(c)
      PROVE  Exchanged'
  BY <1>5 DEF TakeSem, Return, server
<1>6. CASE UNCHANGED vars \/ \E e \in Exchange : HandlerFaults(e)
  BY <1>6 DEF HandlerFaults, vars, server
<1>7. QED
  BY <1>1, <1>2, <1>3, <1>4, <1>5, <1>6 DEF Next, SetState, GetState

-------------------------------------------------------------------------------
(* The wake-ups are counted.                                                    *)

LEMMA FiniteSets ==
  /\ IsFiniteSet(Gets) /\ IsFiniteSet(Blocked)
  /\ Cardinality(Gets) \in Nat /\ Cardinality(Blocked) \in Nat
<1>1. IsFiniteSet(Gets) /\ IsFiniteSet(Blocked)
  BY FiniteAssumption, FS_Subset DEF Gets, Blocked
<1>2. QED
  BY <1>1, FS_CardinalityType

LEMMA InitCounted == Init => WakeUps
<1> SUFFICES ASSUME Init
             PROVE  WakeUps
  OBVIOUS
<1>1. Gets = {} /\ led_get_sem = 0
  BY DEF Init, Gets
<1>2. QED
  BY <1>1, FiniteSets, FS_EmptySet DEF WakeUps

\* What keeps the count: nothing changes, a query begins, a handler gives, a
\* caller takes.
LEMMA CountKept ==
  ASSUME TypeOK, WakeUps,
         \/ Gets' = Gets /\ Blocked' = Blocked /\ led_get_sem' = led_get_sem
         \/ /\ led_get_sem' = led_get_sem
            /\ \E e : Gets' = Gets \cup {e}
            /\ \E c : c \notin Blocked /\ Blocked' = Blocked \cup {c}
         \/ /\ \E e \in Gets : Gets' = Gets \ {e}
            /\ \/ led_get_sem' = 1 /\ Blocked' = Blocked
               \/ led_get_sem' = led_get_sem /\ \E c \in Blocked : Blocked' = Blocked \ {c}
         \/ /\ Gets' = Gets
            /\ led_get_sem = 1 /\ led_get_sem' = 0
            /\ \E c \in Blocked : Blocked' = Blocked \ {c}
  PROVE  WakeUps'
<1> DEFINE g == Cardinality(Gets)
           b == Cardinality(Blocked)
           gg == Cardinality(Gets')
           bb == Cardinality(Blocked')
<1>1. g \in Nat /\ b \in Nat /\ led_get_sem \in 0 .. 1 /\ led_get_sem + g <= b
  BY FiniteSets DEF TypeOK, WakeUps
<1>2. SUFFICES led_get_sem' + gg <= bb
  BY DEF WakeUps
<1>3. IsFiniteSet(Gets) /\ IsFiniteSet(Blocked)
  BY FiniteSets
<1>4. CASE Gets' = Gets /\ Blocked' = Blocked /\ led_get_sem' = led_get_sem
  BY <1>1, <1>4
<1>5. CASE /\ led_get_sem' = led_get_sem
           /\ \E e : Gets' = Gets \cup {e}
           /\ \E c : c \notin Blocked /\ Blocked' = Blocked \cup {c}
  <2>1. gg \in {g, g + 1} /\ bb = b + 1
    BY <1>3, <1>5, FS_AddElement
  <2>2. QED
    BY <1>1, <1>5, <2>1
<1>6. CASE /\ \E e \in Gets : Gets' = Gets \ {e}
           /\ \/ led_get_sem' = 1 /\ Blocked' = Blocked
              \/ led_get_sem' = led_get_sem /\ \E c \in Blocked : Blocked' = Blocked \ {c}
  <2>1. gg = g - 1
    BY <1>3, <1>6, FS_RemoveElement
  <2>2. (led_get_sem' = 1 /\ bb = b) \/ (led_get_sem' = led_get_sem /\ bb = b - 1)
    BY <1>3, <1>6, FS_RemoveElement
  <2>3. QED
    BY <1>1, <2>1, <2>2
<1>7. CASE /\ Gets' = Gets
           /\ led_get_sem = 1 /\ led_get_sem' = 0
           /\ \E c \in Blocked : Blocked' = Blocked \ {c}
  <2>1. gg = g /\ bb = b - 1
    BY <1>3, <1>7, FS_RemoveElement
  <2>2. QED
    BY <1>1, <1>7, <2>1
<1>8. QED
  BY <1>4, <1>5, <1>6, <1>7

LEMMA NextCounted == TypeOK /\ Exchanged /\ WakeUps /\ [Next]_vars => WakeUps'
<1> SUFFICES ASSUME TypeOK, Exchanged, WakeUps, [Next]_vars
             PROVE  WakeUps'
  OBVIOUS
<1>1. ASSUME NEW r \in Commands, SetState(r)
      PROVE  WakeUps'
  <2>1. r # "get" /\ UNCHANGED <<pc, led_get_sem>>
    BY <1>1, CommandsAssumption DEF SetState, caller
  <2>2. Gets' = Gets
    BY <1>1, <2>1 DEF SetState, Open, Gets, TypeOK
  <2>3. QED
    BY <2>1, <2>2, CountKept DEF Blocked
<1>2. ASSUME NEW c \in Caller, GetState(c)
      PROVE  WakeUps'
  <2>1. PICK e \in Exchange : Open(e, "get", c)
    BY <1>2 DEF GetState
  <2>2. Gets' = Gets \cup {e}
    BY <2>1 DEF Open, Gets, TypeOK
  <2>3. c \notin Blocked /\ Blocked' = Blocked \cup {c} /\ led_get_sem' = led_get_sem
    BY <1>2 DEF GetState, Active, Blocked, TypeOK
  <2>4. QED
    BY <2>2, <2>3, CountKept
<1>3. ASSUME NEW e \in Exchange, Network(e) \/ Server(e)
      PROVE  WakeUps'
  <2>1. UNCHANGED <<request, pc, led_get_sem>>
    BY <1>3 DEF Network, Retransmit, LoseRequest, LoseResponse, Server, AnswerAgain,
                HandleGet, HandlePut, CarryOut, Arrives, caller
  <2>2. QED
    BY <2>1, CountKept DEF Gets, Blocked
<1>4. ASSUME NEW e \in Exchange, Handlers(e)
      PROVE  WakeUps'
  <2>1. Close(e)
    BY <1>4, HandlerDoes
  <2>2. Gets' = Gets \ {e}
    BY <2>1 DEF Close, Gets, TypeOK
  <2>3. CASE request[e] = "get"
    <3>1. Give /\ e \in Gets
      BY <1>4, <2>3, HandlerDoes DEF Gets
    <3>2. CASE \E c \in Caller : /\ pc[c] = "waiting"
                                 /\ pc' = [pc EXCEPT ![c] = "awake"]
                                 /\ UNCHANGED led_get_sem
      <4>1. \E c \in Blocked : Blocked' = Blocked \ {c}
        BY <3>2 DEF Blocked, TypeOK
      <4>2. QED
        BY <2>2, <3>1, <3>2, <4>1, CountKept
    <3>3. CASE led_get_sem' = 1 /\ UNCHANGED pc
      BY <2>2, <3>1, <3>3, CountKept DEF Blocked
    <3>4. QED
      BY <3>1, <3>2, <3>3 DEF Give
  <2>4. CASE request[e] # "get"
    <3>1. UNCHANGED <<pc, led_get_sem>> /\ Gets' = Gets
      BY <1>4, <2>2, <2>4, HandlerDoes DEF Gets
    <3>2. QED
      BY <3>1, CountKept DEF Blocked
  <2>5. QED
    BY <2>3, <2>4
<1>5. ASSUME NEW c \in Caller, TakeSem(c)
      PROVE  WakeUps'
  <2>1. Gets' = Gets
    BY <1>5 DEF TakeSem, Gets
  <2>2. CASE led_get_sem = 1 /\ led_get_sem' = 0 /\ pc' = [pc EXCEPT ![c] = "awake"]
    <3>1. c \in Blocked /\ Blocked' = Blocked \ {c}
      BY <1>5, <2>2 DEF TakeSem, Blocked, TypeOK
    <3>2. QED
      BY <2>1, <2>2, <3>1, CountKept
  <2>3. CASE pc' = [pc EXCEPT ![c] = "waiting"] /\ UNCHANGED led_get_sem
    <3>1. Blocked' = Blocked
      BY <1>5, <2>3 DEF TakeSem, Blocked, TypeOK
    <3>2. QED
      BY <2>1, <2>3, <3>1, CountKept
  <2>4. QED
    BY <1>5, <2>2, <2>3 DEF TakeSem
<1>6. ASSUME NEW c \in Caller, Return(c)
      PROVE  WakeUps'
  <2>1. Gets' = Gets /\ led_get_sem' = led_get_sem
    BY <1>6 DEF Return, Gets
  <2>2. Blocked' = Blocked
    BY <1>6 DEF Return, Blocked, TypeOK
  <2>3. QED
    BY <2>1, <2>2, CountKept
<1>7. CASE UNCHANGED vars \/ \E e \in Exchange : HandlerFaults(e)
  BY <1>7, CountKept DEF HandlerFaults, vars, caller, Gets, Blocked
<1>8. QED
  BY <1>1, <1>2, <1>3, <1>4, <1>5, <1>6, <1>7 DEF Next

\* With no query open nothing is left in the semaphore.
LEMMA NothingLeft ==
  ASSUME TypeOK, WakeUps, ~QueryOpen
  PROVE  led_get_sem = 0 /\ Gets = {}
<1>1. Blocked = {} /\ Gets = {}
  BY DEF QueryOpen, Active, Blocked, Gets
<1>2. Cardinality(Blocked) = 0 /\ Cardinality(Gets) = 0
  BY <1>1, FS_EmptySet
<1>3. QED
  BY <1>1, <1>2 DEF WakeUps, TypeOK

-------------------------------------------------------------------------------
(* A query that overlaps with none, from its call to its return.                *)

LEMMA InitAlone == Init => \A c \in Caller : Alone(c)
  BY DEF Init, Alone, Active

LEMMA NextAlone ==
  ASSUME IInv, [Next]_vars, NEW c \in Caller
  PROVE  Alone(c)'
<1> SUFFICES ASSUME Active(c)', ~overlapped'[c]
             PROVE  /\ \A d \in Caller \ {c} : ~Active(d)'
                    /\ Gets' \subseteq {current'[c]}
                    /\ led' \in seen'[c]
                    /\ Pending(c)' \/ Served(c)'
  BY DEF Alone
<1> USE DEF IInv
<1>1. ASSUME NEW r \in Commands, SetState(r)
      PROVE  Alone(c)'
  <2>1. PICK e \in Exchange : Open(e, r, None)
    BY <1>1 DEF SetState
  <2>2. r # "get" /\ UNCHANGED <<caller, seen, led>>
    BY <1>1, <2>1, CommandsAssumption DEF SetState, Open
  <2>3. Gets' = Gets
    BY <2>1, <2>2 DEF Open, Gets, TypeOK
  <2>4. Pending(c) => Pending(c)'
    BY <2>1, <2>2, <2>3 DEF Open, Pending, Gets, caller, TypeOK
  <2>5. Served(c) => Served(c)'
    BY <2>2, <2>3 DEF Served, caller
  <2>6. QED
    BY <2>2, <2>3, <2>4, <2>5 DEF Alone, Active, caller
<1>2. ASSUME NEW d \in Caller, GetState(d)
      PROVE  Alone(c)'
  <2>1. PICK e \in Exchange : Open(e, "get", d) /\ current' = [current EXCEPT ![d] = e]
    BY <1>2 DEF GetState
  <2>2. CASE d # c
    BY <1>2, <2>2 DEF GetState, Active, TypeOK
  <2>3. CASE d = c
    <3>1. ~QueryOpen
      BY <1>2, <2>3 DEF GetState
    <3>2. led_get_sem = 0 /\ Gets = {}
      BY <3>1, NothingLeft
    <3>3. /\ pc'[c] = "sent" /\ current'[c] = e /\ seen'[c] = {led}
          /\ led_get_sem' = 0 /\ answer'[c] = "garbage"
          /\ \A b \in Caller \ {c} : pc'[b] = pc[b]
      BY <1>2, <2>1, <2>3, <3>1, <3>2 DEF GetState, TypeOK
    <3>4. Gets' = {e} /\ led' = led /\ owner'[e] = c /\ cached'[e] = None
      BY <2>1, <2>3, <3>2 DEF Open, Gets, TypeOK
    <3>5. \A b \in Caller \ {c} : ~Active(b)'
      BY <3>1, <3>3 DEF QueryOpen, Active
    <3>6. Pending(c)'
      BY <3>3, <3>4 DEF Pending
    <3>7. QED
      BY <3>3, <3>4, <3>5, <3>6 DEF Alone
  <2>4. QED
    BY <2>2, <2>3
<1>3. ASSUME NEW e \in Exchange, Network(e)
      PROVE  Alone(c)'
  <2>1. UNCHANGED <<server, request, owner, caller, seen>>
    BY <1>3 DEF Network, Retransmit, LoseRequest, LoseResponse
  <2>2. QED
    BY <2>1 DEF Alone, Active, Pending, Served, Gets, server, caller
<1>4. ASSUME NEW e \in Exchange, Server(e)
      PROVE  Alone(c)'
  <2>1. UNCHANGED <<request, owner, caller>>
    BY <1>4 DEF Server, AnswerAgain, HandleGet, HandlePut, CarryOut, Arrives
  <2>2. /\ Active(c) /\ ~overlapped[c]
        /\ \A d \in Caller \ {c} : ~Active(d)'
        /\ Gets' = Gets /\ Gets' \subseteq {current'[c]}
    BY <2>1 DEF Alone, Active, Gets, caller
  <2>3. CASE AnswerAgain(e)
    <3>1. UNCHANGED <<server, seen>>
      BY <2>3 DEF AnswerAgain
    <3>2. QED
      BY <2>1, <3>1 DEF Alone, Active, Pending, Served, Gets, server, caller
  <2>4. CASE HandleGet(e)
    <3>1. UNCHANGED <<led, seen>>
      BY <2>4 DEF HandleGet
    <3>2. cached' = [cached EXCEPT ![e] = led] \/ cached' = cached
      BY <2>4 DEF HandleGet, Respond
    <3>3. Pending(c) => Pending(c)'
      BY <2>1, <2>2, <3>1, <3>2 DEF Alone, Pending, Gets, caller, TypeOK
    <3>4. Served(c) => Served(c)'
      BY <2>1, <2>2, <3>1 DEF Served, caller
    <3>5. QED
      BY <2>2, <3>1, <3>3, <3>4 DEF Alone
  <2>5. CASE HandlePut(e)
    <3>1. seen'[c] = seen[c] \cup {led'} /\ air[e] \in Commands
      BY <2>2, <2>5 DEF HandlePut, CarryOut, TypeOK
    <3>2. e \notin Gets
      BY <3>1, CommandsAssumption DEF Exchanged, Gets
    <3>3. \A f \in Gets : cached'[f] = cached[f]
      BY <2>5, <3>2 DEF HandlePut, Respond, TypeOK, Gets
    <3>4. Pending(c) => Pending(c)'
      BY <2>1, <2>2, <3>1, <3>3 DEF Pending, caller
    <3>5. Served(c) => Served(c)'
      BY <2>1, <2>2, <3>1 DEF Served, caller
    <3>6. QED
      BY <2>2, <3>1, <3>4, <3>5 DEF Alone
  <2>6. QED
    BY <1>4, <2>3, <2>4, <2>5 DEF Server
<1>5. ASSUME NEW e \in Exchange, Handlers(e)
      PROVE  Alone(c)'
  <2>1. Close(e) /\ UNCHANGED <<server, current, overlapped, seen>>
    BY <1>5, HandlerDoes
  <2>2. Gets' = Gets \ {e} /\ led' = led /\ cached' = cached
    BY <2>1 DEF Close, Gets, server, TypeOK
  <2>3. CASE request[e] # "get"
    <3>1. UNCHANGED <<answer, pc, led_get_sem>> /\ Gets' = Gets
      BY <1>5, <2>2, <2>3, HandlerDoes DEF Gets
    <3>2. Pending(c) => Pending(c)'
      BY <2>1, <2>2, <2>3, <3>1 DEF Pending, Close, Gets, TypeOK
    <3>3. QED
      BY <2>1, <2>2, <3>1, <3>2 DEF Alone, Active, Served
  <2>4. CASE request[e] = "get"
    <3>1. Give /\ e \in Gets
      BY <1>5, <2>4, HandlerDoes DEF Gets
    <3>2. PICK data \in Led \cup {"unread"} :
            Write(e, data) /\ (data # "unread" => data = cached[e] /\ cached[e] # None)
      BY <1>5, <2>4, HandlerDoes
    <3>3. Active(c)
      BY <3>1 DEF Give, Active, TypeOK
    <3>4. /\ \A d \in Caller \ {c} : ~Active(d)
          /\ e = current[c] /\ Pending(c)
      BY <2>1, <3>1, <3>3 DEF Alone, Served
    <3>5. owner[e] = c /\ (cached[e] # None => cached[e] \in seen[c])
      BY <3>4 DEF Pending
    <3>6. answer'[c] = data /\ data \in seen[c] \cup {"unread"}
      BY <3>2, <3>4, <3>5 DEF Write, TypeOK
    <3>7. /\ pc'[c] = "awake" \/ (pc'[c] = "sent" /\ led_get_sem' = 1)
          /\ \A d \in Caller \ {c} : pc'[d] = pc[d]
      <4>1. pc[c] \in {"sent", "waiting"} /\ \A d \in Caller \ {c} : pc[d] = "idle"
        BY <3>4 DEF Pending, Active
      <4>2. QED
        BY <3>1, <4>1 DEF Give, TypeOK
    <3>8. Gets' = {} /\ led \in seen[c]
      BY <2>1, <2>2, <3>3, <3>4 DEF Alone
    <3>9. QED
      BY <2>1, <2>2, <3>4, <3>6, <3>7, <3>8 DEF Alone, Served, Active
  <2>5. QED
    BY <2>3, <2>4
<1>6. ASSUME NEW d \in Caller, TakeSem(d)
      PROVE  Alone(c)'
  <2>1. /\ UNCHANGED <<server, request, owner, current, answer, overlapped, seen>>
        /\ Gets' = Gets /\ led' = led /\ cached' = cached
    BY <1>6 DEF TakeSem, Gets, server
  <2>2. Active(c) /\ Active(d)
    BY <1>6 DEF TakeSem, Active, TypeOK
  <2>3. d = c /\ pc[c] = "sent"
    BY <1>6, <2>1, <2>2 DEF Alone, TakeSem
  <2>4. \A b \in Caller \ {c} : ~Active(b)'
    BY <1>6, <2>1, <2>2, <2>3 DEF Alone, TakeSem, Active, TypeOK
  <2>5. CASE led_get_sem = 1 /\ led_get_sem' = 0 /\ pc' = [pc EXCEPT ![d] = "awake"]
    <3>1. pc'[c] = "awake" /\ Served(c)
      BY <2>1, <2>2, <2>3, <2>5 DEF Alone, Pending, TypeOK
    <3>2. QED
      BY <2>1, <2>2, <2>4, <3>1 DEF Alone, Served
  <2>6. CASE led_get_sem = 0 /\ pc' = [pc EXCEPT ![d] = "waiting"] /\ UNCHANGED led_get_sem
    <3>1. pc'[c] = "waiting" /\ Pending(c)
      BY <2>1, <2>2, <2>3, <2>6 DEF Alone, Served, TypeOK
    <3>2. QED
      BY <2>1, <2>2, <2>4, <2>6, <3>1 DEF Alone, Pending
  <2>7. QED
    BY <1>6, <2>5, <2>6 DEF TakeSem
<1>7. ASSUME NEW d \in Caller, Return(d)
      PROVE  Alone(c)'
  <2>1. d # c
    BY <1>7 DEF Return, Active, TypeOK
  <2>2. Active(c) /\ ~overlapped[c] /\ Active(d)
    BY <1>7, <2>1 DEF Return, Active, TypeOK
  <2>3. QED
    BY <2>1, <2>2 DEF Alone
<1>8. CASE UNCHANGED vars \/ \E e \in Exchange : HandlerFaults(e)
  BY <1>8 DEF HandlerFaults, vars, server, caller, Alone, Active, Pending, Served, Gets
<1>9. QED
  BY <1>1, <1>2, <1>3, <1>4, <1>5, <1>6, <1>7, <1>8 DEF Next, Alone

-------------------------------------------------------------------------------
LEMMA Invariance == Spec => []IInv
<1>1. Init => IInv
  BY InitTyped, InitExchanged, InitCounted, InitAlone DEF IInv
<1>2. IInv /\ [Next]_vars => IInv'
  BY NextTyped, NextExchanged, NextCounted, NextAlone DEF IInv
<1>3. QED
  BY <1>1, <1>2, PTL DEF Spec

(* Every variable keeps its type, the count of led_get_sem included, for every  *)
(* number of callers and requests.                                              *)
THEOREM TypeCorrect == Spec => []TypeOK
  BY Invariance, PTL DEF IInv

(* However requests and responses are lost, repeated and delayed: a query that  *)
(* overlaps with none returns a state that the LED had during it.               *)
THEOREM FreshAnswers == Spec => []AnswerIsFresh
<1>1. IInv => AnswerIsFresh
  BY DEF IInv, AnswerIsFresh, Alone, Pending, Served, Active
<1>2. QED
  BY Invariance, <1>1, PTL

(* However often a command's request is repeated, it is carried out once unless *)
(* its response fails.                                                          *)
THEOREM OnceOnly == Spec => []CarriedOutOnce
<1>1. IInv => CarriedOutOnce
  BY DEF IInv, CarriedOutOnce, Exchanged, TypeOK
<1>2. QED
  BY Invariance, <1>1, PTL

\* A blocked query that overlaps with none has a request of its own that is
\* still open, and the handler of that request wakes it or stops the node.
StillServed ==
  \A c \in Caller :
    pc[c] = "waiting" /\ ~overlapped[c] =>
      /\ current[c] \in Exchange /\ request[current[c]] = "get" /\ owner[current[c]] = c
      /\ \A d \in Caller \ {c} : pc[d] # "waiting"

(* A query that overlaps with none is never left blocked without a request that *)
(* OpenThread still has to end, nor beside another thread that could take its   *)
(* wake-up: what QueryReturns needs besides fairness.                           *)
THEOREM NoQueryStranded == Spec => []StillServed
<1>1. IInv => StillServed
  BY DEF IInv, StillServed, Alone, Active, Pending, Served, Gets
<1>2. QED
  BY Invariance, <1>1, PTL

-------------------------------------------------------------------------------
(* CoapServer implements RemoteLed. Order, Query and Stray are what it puts for *)
(* the variables of RemoteLed.                                                  *)

Order == [e \in Exchange |-> IF Carried(e) # None /\ cached[e] # None
                             THEN "done" ELSE Carried(e)]
Query == [c \in Caller |-> IF Active(c) THEN Outlook(c) ELSE "idle"]
Stray == \E e \in Exchange : /\ request[e] = "get"
                             /\ \A c \in Caller : Active(c) => current[c] # e

\* Of a query that overlaps with none: before and after its answer.
LEMMA Foreseen ==
  ASSUME IInv, NEW c \in Caller, Active(c), ~overlapped[c]
  PROVE  /\ \A d \in Caller \ {c} : ~Active(d)
         /\ Gets \subseteq {current[c]} /\ ~Stray
         /\ \/ Pending(c) /\ answer[c] = "garbage"
            \/ Served(c) /\ answer[c] \in Led \cup {"unread"}
<1>1. Alone(c) /\ TypeOK
  BY DEF IInv
<1>2. Pending(c) => answer[c] = "garbage"
  BY DEF Pending
<1>3. Served(c) => answer[c] \in Led \cup {"unread"}
  BY <1>1 DEF Served, TypeOK
<1>4. QED
  BY <1>1, <1>2, <1>3 DEF Alone, Stray, Gets

\* What a query will return is the same if what the caller holds is, and the
\* response to the query is.
LEMMA QueryKept ==
  ASSUME IInv, UNCHANGED <<current, answer, overlapped>>,
         \A c \in Caller : Active(c)' = Active(c),
         \A e \in Gets : cached'[e] = cached[e]
  PROVE  Query' = Query
<1>1. ASSUME NEW c \in Caller, Active(c)
      PROVE  Outlook(c)' = Outlook(c)
  <2>1. CASE overlapped[c]
    BY <2>1 DEF Outlook
  <2>2. CASE ~overlapped[c]
    <3>1. answer[c] = "garbage" => current[c] \in Gets
      BY <1>1, <2>2, Foreseen DEF Pending
    <3>2. QED
      BY <2>2, <3>1 DEF Outlook
  <2>3. QED
    BY <2>1, <2>2
<1>2. QED
  BY <1>1 DEF Query

\* One exchange changes.
LEMMA OrderKept ==
  ASSUME NEW e \in Exchange,
         \A f \in Exchange \ {e} : /\ request'[f] = request[f] /\ air'[f] = air[f]
                                  /\ cached'[f] = cached[f]
  PROVE  \A x : Order'[e] = x => Order' = [Order EXCEPT ![e] = x]
<1>1. \A f \in Exchange \ {e} : Carried(f)' = Carried(f)
  BY DEF Carried
<1>2. QED
  BY <1>1 DEF Order

LEMMA InitRemote == Init => Remote!Init
<1> SUFFICES ASSUME Init
             PROVE  Remote!Init
  OBVIOUS
<1>1. \A e \in Exchange : Carried(e) = None
  BY CommandsAssumption DEF Init, Carried
<1>2. QED
  BY <1>1 DEF Init, Remote!Init, Active

\* Commands: sent, carried out, forgotten.
LEMMA SetStateRemote ==
  ASSUME IInv, NEW r \in Commands, SetState(r)
  PROVE  \E e \in Exchange : Remote!Command(e, r)
<1> USE CommandsAssumption
<1>1. PICK e \in Exchange : Open(e, r, None)
  BY DEF SetState
<1>2. UNCHANGED <<led, pc, current, answer, overlapped>>
  BY <1>1 DEF SetState, Open, caller
<1>3. Query' = Query
  <2>1. \A f \in Gets : cached'[f] = cached[f]
    BY <1>1 DEF Open, Gets, IInv, TypeOK
  <2>2. QED
    BY <1>2, <2>1, QueryKept DEF Active
<1>4. Stray' = Stray
  BY <1>1, <1>2 DEF Stray, Open, IInv, TypeOK, Active
<1>5. Order[e] = None
  BY <1>1 DEF Order, Open, Carried
<1>6. Order'[e] = r
  BY <1>1 DEF Order, Open, Carried, IInv, TypeOK
<1>7. Order' = [Order EXCEPT ![e] = r]
  <2>1. \A f \in Exchange \ {e} : /\ request'[f] = request[f] /\ air'[f] = air[f]
                                 /\ cached'[f] = cached[f]
    BY <1>1 DEF Open, IInv, TypeOK
  <2>2. QED
    BY <1>6, <2>1, OrderKept
<1>8. QED
  BY <1>2, <1>3, <1>4, <1>5, <1>7 DEF Remote!Command, Order, Query, Stray

\* A copy of a request goes, or its sender's interest in it.
LEMMA ForgetRemote ==
  ASSUME NEW e \in Exchange, UNCHANGED led, Query' = Query, Stray' = Stray,
         Order'[e] \in {Order[e], None},
         \A f \in Exchange \ {e} : /\ request'[f] = request[f] /\ air'[f] = air[f]
                                  /\ cached'[f] = cached[f]
  PROVE  [Remote!Next]_(Remote!ledVars)
<1>1. Order' = [Order EXCEPT ![e] = Order'[e]]
  BY OrderKept
<1>2. CASE Order'[e] = Order[e]
  <2>1. Order' = Order
    BY <1>1, <1>2 DEF Order
  <2>2. QED
    BY <2>1 DEF Remote!ledVars, Order, Query, Stray
<1>3. CASE Order'[e] = None /\ Order[e] # None
  <2>1. Remote!Forget(e)
    BY <1>1, <1>3 DEF Remote!Forget, Order, Query, Stray
  <2>2. QED
    BY <2>1 DEF Remote!Next
<1>4. QED
  BY <1>2, <1>3
\* The network loses a request, or carries what it carried.
LEMMA NetworkRemote ==
  ASSUME IInv, NEW e \in Exchange, Network(e)
  PROVE  [Remote!Next]_(Remote!ledVars)
<1> USE CommandsAssumption
<1>1. /\ UNCHANGED <<led, cached, request, pc, current, answer, overlapped>>
      /\ \A f \in Exchange \ {e} : air'[f] = air[f]
  BY DEF Network, Retransmit, LoseRequest, LoseResponse, server, caller, IInv, TypeOK
<1>2. Query' = Query /\ Stray' = Stray
  BY <1>1, QueryKept DEF Active, Stray
<1>3. Order'[e] \in {Order[e], None}
  BY <1>1 DEF Order, Carried, Network, Retransmit, LoseRequest, LoseResponse, IInv, TypeOK
<1>4. QED
  BY <1>1, <1>2, <1>3, ForgetRemote

\* A request at the server.
LEMMA AnswerAgainRemote ==
  ASSUME IInv, NEW e \in Exchange, AnswerAgain(e)
  PROVE  [Remote!Next]_(Remote!ledVars)
<1> USE CommandsAssumption
<1>1. /\ UNCHANGED <<led, cached, request, pc, current, answer, overlapped>>
      /\ air' = [air EXCEPT ![e] = None]
  BY DEF AnswerAgain, Arrives, server, caller
<1>2. Query' = Query /\ Stray' = Stray
  BY <1>1, QueryKept DEF Active, Stray
<1>3. Order'[e] \in {Order[e], None}
  BY <1>1 DEF Order, Carried, IInv, TypeOK
<1>4. QED
  BY <1>1, <1>2, <1>3, ForgetRemote DEF IInv, TypeOK

LEMMA HandleGetRemote ==
  ASSUME IInv, NEW e \in Exchange, HandleGet(e)
  PROVE  [Remote!Next]_(Remote!ledVars)
<1> USE CommandsAssumption
<1>1. /\ UNCHANGED <<led, request, pc, current, answer, overlapped>>
      /\ air[e] = "get" /\ cached[e] = None
      /\ air' = [air EXCEPT ![e] = None]
      /\ cached' = [cached EXCEPT ![e] = led] \/ cached' = cached
  BY DEF HandleGet, Arrives, Respond, caller
<1>2. Stray' = Stray
  BY <1>1 DEF Stray, Active
<1>3. request[e] # None => request[e] = "get"
  BY <1>1 DEF IInv, Exchanged
<1>4. Order'[e] = None /\ Order[e] = None
  BY <1>1, <1>3 DEF Order, Carried, IInv, TypeOK
<1>5. /\ \A f \in Exchange \ {e} : /\ request'[f] = request[f] /\ air'[f] = air[f]
                                  /\ cached'[f] = cached[f]
  BY <1>1 DEF IInv, TypeOK
<1>6. Order' = Order
  <2>1. Order' = [Order EXCEPT ![e] = None]
    BY <1>4, <1>5, OrderKept
  <2>2. QED
    BY <1>4, <2>1 DEF Order
<1>7. CASE cached' = cached \/ \A c \in Caller : Active(c) /\ current[c] = e =>
                                              overlapped[c] \/ answer[c] # "garbage"
  <2>1. ASSUME NEW c \in Caller, Active(c)
        PROVE  Outlook(c)' = Outlook(c)
    <3>1. CASE overlapped[c] \/ answer[c] # "garbage"
      BY <1>1, <3>1 DEF Outlook
    <3>2. CASE ~overlapped[c] /\ answer[c] = "garbage"
      <4>1. current[c] \in Exchange
        BY <2>1, <3>2, Foreseen DEF Pending, Gets
      <4>2. cached'[current[c]] = cached[current[c]]
        BY <1>5, <1>7, <2>1, <3>2, <4>1
      <4>3. QED
        BY <1>1, <3>2, <4>2 DEF Outlook
    <3>3. QED
      BY <3>1, <3>2
  <2>2. Query' = Query
    BY <1>1, <2>1 DEF Query, Active
  <2>3. QED
    BY <1>1, <1>2, <1>6, <2>2 DEF Remote!ledVars, Order, Query, Stray
<1>8. CASE /\ cached' = [cached EXCEPT ![e] = led]
           /\ \E c \in Caller : Active(c) /\ current[c] = e /\ ~overlapped[c] /\ answer[c] = "garbage"
  <2>1. PICK c \in Caller : Active(c) /\ current[c] = e /\ ~overlapped[c] /\ answer[c] = "garbage"
    BY <1>8
  <2>2. Query[c] = "asked"
    BY <1>1, <2>1 DEF Query, Outlook
  <2>3. Query'[c] = led
    BY <1>1, <1>8, <2>1 DEF Query, Outlook, Active, IInv, TypeOK
  <2>4. \A d \in Caller \ {c} : ~Active(d) /\ ~Active(d)'
    BY <1>1, <2>1, Foreseen DEF Active
  <2>5. Query' = [Query EXCEPT ![c] = led]
    BY <2>3, <2>4 DEF Query
  <2>6. Remote!Look(c)
    BY <1>1, <1>2, <1>6, <2>2, <2>5 DEF Remote!Look, Order, Query, Stray
  <2>7. QED
    BY <2>6 DEF Remote!Next
<1>9. QED
  BY <1>1, <1>7, <1>8

LEMMA HandlePutRemote ==
  ASSUME IInv, NEW e \in Exchange, HandlePut(e)
  PROVE  Remote!CarryOut(e)
<1> USE CommandsAssumption
<1>1. /\ UNCHANGED <<request, pc, current, answer, overlapped>>
      /\ air[e] \in Commands /\ cached[e] = None
      /\ air' = [air EXCEPT ![e] = None]
      /\ led' = NewState(air[e]) /\ led' \in Led
      /\ cached' = [cached EXCEPT ![e] = led'] \/ cached' = cached
  BY DEF HandlePut, CarryOut, Arrives, Respond, caller, NewState, IInv, TypeOK
<1>2. request[e] # None => request[e] = air[e]
  BY <1>1 DEF IInv, Exchanged
<1>3. Order[e] = air[e]
  BY <1>1, <1>2 DEF Order, Carried
<1>4. Order'[e] \in {"done", None, Order[e]}
  BY <1>1, <1>2, <1>3 DEF Order, Carried, IInv, TypeOK
<1>5. \A f \in Exchange \ {e} : /\ request'[f] = request[f] /\ air'[f] = air[f]
                               /\ cached'[f] = cached[f]
  BY <1>1 DEF IInv, TypeOK
<1>6. Order' \in {[Order EXCEPT ![e] = "done"], [Order EXCEPT ![e] = None], Order}
  <2>1. Order' = [Order EXCEPT ![e] = Order'[e]]
    BY <1>5, OrderKept
  <2>2. Order = [Order EXCEPT ![e] = Order[e]]
    BY DEF Order
  <2>3. QED
    BY <1>4, <2>1, <2>2
<1>7. Query' = Query
  <2>1. \A f \in Gets : cached'[f] = cached[f]
    BY <1>1, <1>2, <1>5 DEF Gets
  <2>2. QED
    BY <1>1, <2>1, QueryKept DEF Active
<1>8. Stray' = Stray
  BY <1>1 DEF Stray, Active
<1>9. led' = Remote!Effect(Order[e])
  BY <1>1, <1>3 DEF NewState, Remote!Effect
<1>10. QED
  BY <1>1, <1>3, <1>6, <1>7, <1>8, <1>9 DEF Remote!CarryOut, Order, Query, Stray
\* A query begins, and spoils those it finds.
LEMMA GetStateRemote ==
  ASSUME IInv, NEW c \in Caller, GetState(c)
  PROVE  Remote!Ask(c)
<1> USE CommandsAssumption
<1>1. PICK e \in Exchange : Open(e, "get", c) /\ current' = [current EXCEPT ![c] = e]
  BY DEF GetState
<1>2. /\ ~Active(c)
      /\ pc' = [pc EXCEPT ![c] = "sent"]
      /\ answer' = [answer EXCEPT ![c] = "garbage"]
      /\ overlapped' = [d \in Caller |-> IF d = c THEN QueryOpen ELSE Active(d)]
  BY DEF GetState
<1>3. /\ request[e] = None /\ air[e] = None /\ led' = led
      /\ request'[e] = "get" /\ cached'[e] = None
      /\ \A f \in Exchange \ {e} : /\ request'[f] = request[f] /\ air'[f] = air[f]
                                  /\ cached'[f] = cached[f]
  BY <1>1 DEF Open, IInv, TypeOK
<1>4. Order' = Order
  <2>1. Order'[e] = None /\ Order[e] = None
    BY <1>3 DEF Order, Carried
  <2>2. Order' = [Order EXCEPT ![e] = None]
    BY <1>3, <2>1, OrderKept
  <2>3. QED
    BY <2>1, <2>2 DEF Order
<1>5. Active(c)' /\ current'[c] = e /\ answer'[c] = "garbage"
  BY <1>1, <1>2 DEF Active, IInv, TypeOK
<1>6. \A d \in Caller \ {c} : Active(d)' = Active(d) /\ current'[d] = current[d]
  BY <1>1, <1>2 DEF Active, IInv, TypeOK
<1>7. Stray' = Stray
  <2>1. \A f \in Exchange : (request'[f] = "get" /\ \A d \in Caller : Active(d)' => current'[d] # f)
                          <=> (request[f] = "get" /\ \A d \in Caller : Active(d) => current[d] # f)
    BY <1>2, <1>3, <1>5, <1>6
  <2>2. QED
    BY <2>1 DEF Stray
<1>8. QueryOpen = (Stray \/ \E b \in Caller : Active(b))
  BY DEF QueryOpen, Stray
<1>9. \A b \in Caller : Query[b] # "idle" <=> Active(b)
  <2>1. ASSUME NEW b \in Caller, Active(b)
        PROVE  Outlook(b) # "idle"
    <3>1. CASE ~overlapped[b] /\ answer[b] = "garbage"
      <4>1. current[b] \in Exchange
        BY <2>1, <3>1, Foreseen DEF Pending, Gets
      <4>2. QED
        BY <3>1, <4>1 DEF Outlook, IInv, TypeOK
    <3>2. CASE overlapped[b] \/ answer[b] # "garbage"
      BY <3>2 DEF Outlook, IInv, TypeOK
    <3>3. QED
      BY <3>1, <3>2
  <2>2. QED
    BY <2>1 DEF Query
<1>10. Query' = [d \in Caller |->
                  IF d = c
                  THEN IF Stray \/ \E b \in Caller : Query[b] # "idle" THEN "spoilt" ELSE "asked"
                  ELSE IF Query[d] # "idle" THEN "spoilt" ELSE "idle"]
  <2>1. Outlook(c)' = IF QueryOpen THEN "spoilt" ELSE "asked"
    BY <1>2, <1>3, <1>5 DEF Outlook
  <2>2. ASSUME NEW d \in Caller \ {c}, Active(d)
        PROVE  Outlook(d)' = "spoilt"
    BY <1>2, <2>2 DEF Outlook
  <2>3. QED
    BY <1>5, <1>6, <1>8, <1>9, <2>1, <2>2 DEF Query
<1>11. QED
  BY <1>2, <1>3, <1>4, <1>7, <1>9, <1>10 DEF Remote!Ask, Remote!Asking, Order, Query, Stray

\* The client's handlers.
LEMMA HandlersRemote ==
  ASSUME IInv, NEW e \in Exchange, Handlers(e)
  PROVE  [Remote!Next]_(Remote!ledVars)
<1> USE CommandsAssumption
<1>1. /\ Close(e)
      /\ UNCHANGED <<led, cached, air, current, overlapped>>
  BY HandlerDoes DEF IInv, server
<1>2. /\ request[e] # None /\ request' = [request EXCEPT ![e] = None]
      /\ \A f \in Exchange \ {e} : /\ request'[f] = request[f] /\ air'[f] = air[f]
                                  /\ cached'[f] = cached[f]
  BY <1>1 DEF Close, IInv, TypeOK
<1>3. air[e] = None \/ air[e] = request[e]
  BY <1>2 DEF IInv, Exchanged
<1>4. Order'[e] \in {Order[e], None}
  BY <1>1, <1>2, <1>3 DEF Order, Carried, IInv, TypeOK
<1>5. CASE request[e] # "get"
  <2>1. UNCHANGED <<answer, pc>>
    BY <1>5, HandlerDoes DEF IInv
  <2>2. Query' = Query
    BY <1>1, <2>1, QueryKept DEF Active
  <2>3. Stray' = Stray
    BY <1>1, <1>2, <1>5, <2>1 DEF Stray, Active, IInv, TypeOK
  <2>4. QED
    BY <1>1, <1>2, <1>4, <2>2, <2>3, ForgetRemote
<1>6. CASE request[e] = "get"
  <2>1. Order' = Order
    <3>1. Order[e] = None /\ Order'[e] = None
      BY <1>1, <1>2, <1>3, <1>6 DEF Order, Carried, IInv, TypeOK
    <3>2. Order' = [Order EXCEPT ![e] = None]
      BY <1>2, <3>1, OrderKept
    <3>3. QED
      BY <3>1, <3>2 DEF Order
  <2>2. PICK data \in Led \cup {"unread"} :
          Write(e, data) /\ (data # "unread" => data = cached[e] /\ cached[e] # None)
    BY <1>6, HandlerDoes DEF IInv
  <2>3. \A c \in Caller : Active(c)' = Active(c)
    <3>1. Give
      BY <1>6, HandlerDoes DEF IInv
    <3>2. QED
      BY <3>1 DEF Give, Active, IInv, TypeOK
  <2>4. Stray' => Stray
    BY <1>1, <1>2, <2>3 DEF Stray, IInv, TypeOK
  <2>5. CASE \A c \in Caller : Active(c) => overlapped[c]
    <3>1. Query' = Query
      BY <1>1, <2>3, <2>5 DEF Query, Outlook
    <3>2. Stray' = Stray \/ Stray' = FALSE
      BY <2>4 DEF Stray
    <3>3. CASE Stray' = FALSE
      <4>1. Remote!StrayEnds
        BY <1>1, <2>1, <3>1, <3>3 DEF Remote!StrayEnds, Order, Query, Stray
      <4>2. QED
        BY <4>1 DEF Remote!Next
    <3>4. CASE Stray' = Stray
      BY <1>1, <2>1, <3>1, <3>4 DEF Remote!ledVars, Order, Query, Stray
    <3>5. QED
      BY <3>2, <3>3, <3>4
  <2>6. CASE \E c \in Caller : Active(c) /\ ~overlapped[c]
    <3>1. PICK c \in Caller : Active(c) /\ ~overlapped[c]
      BY <2>6
    <3>2. /\ \A d \in Caller \ {c} : ~Active(d)
          /\ ~Stray /\ e \in Gets /\ e = current[c]
          /\ Pending(c) /\ answer[c] = "garbage"
      BY <1>6, <3>1, Foreseen DEF Gets, Served
    <3>3. answer'[c] = data
      BY <2>2, <3>2 DEF Write, Pending, IInv, TypeOK
    <3>4. Query[c] = IF cached[e] # None THEN cached[e] ELSE "asked"
      BY <3>1, <3>2 DEF Query, Outlook
    <3>5. Query'[c] = data
      BY <1>1, <2>3, <3>1, <3>3 DEF Query, Outlook
    <3>6. Query' = [Query EXCEPT ![c] = data]
      BY <2>3, <3>2, <3>5 DEF Query
    <3>7. Stray' = Stray
      BY <2>4, <3>2 DEF Stray
    <3>8. CASE data = "unread"
      <4>1. Query[c] \in Led \cup {"asked"}
        BY <3>4 DEF IInv, TypeOK
      <4>2. Remote!GiveUp(c)
        BY <1>1, <2>1, <3>6, <3>7, <3>8, <4>1 DEF Remote!GiveUp, Order, Query, Stray
      <4>3. QED
        BY <4>2 DEF Remote!Next
    <3>9. CASE data # "unread"
      <4>1. Query' = Query
        BY <2>2, <3>4, <3>6, <3>9 DEF Query
      <4>2. QED
        BY <1>1, <2>1, <3>7, <4>1 DEF Remote!ledVars, Order, Query, Stray
    <3>10. QED
      BY <3>8, <3>9
  <2>7. QED
    BY <2>5, <2>6
<1>7. QED
  BY <1>5, <1>6

LEMMA TakeSemRemote ==
  ASSUME IInv, NEW c \in Caller, TakeSem(c)
  PROVE  UNCHANGED Remote!ledVars
<1>1. /\ UNCHANGED <<led, cached, request, air, current, answer, overlapped>>
      /\ \A d \in Caller : Active(d)' = Active(d)
  BY DEF TakeSem, server, Active, IInv, TypeOK
<1>2. Query' = Query /\ Order' = Order /\ Stray' = Stray
  BY <1>1, QueryKept DEF Order, Carried, Stray
<1>3. QED
  BY <1>1, <1>2 DEF Remote!ledVars, Order, Query, Stray

\* A query that was not spoilt returns what it foresaw, and leaves nothing.
LEMMA ReturnRemote ==
  ASSUME IInv, NEW c \in Caller, Return(c)
  PROVE  Remote!Return(c)
<1>1. /\ pc[c] = "awake" /\ Active(c) /\ ~Active(c)'
      /\ UNCHANGED <<led, cached, request, air>>
      /\ \A d \in Caller \ {c} : /\ Active(d)' = Active(d) /\ current'[d] = current[d]
                                /\ answer'[d] = answer[d] /\ overlapped'[d] = overlapped[d]
  BY DEF Return, server, Active, IInv, TypeOK
<1>2. Order' = Order
  BY <1>1 DEF Order, Carried
<1>3. Query' = [Query EXCEPT ![c] = "idle"]
  <2>1. \A d \in Caller \ {c} : Outlook(d)' = Outlook(d)
    BY <1>1 DEF Outlook
  <2>2. QED
    BY <1>1, <2>1 DEF Query
<1>4. Stray => Stray'
  BY <1>1 DEF Stray
<1>5. CASE overlapped[c]
  <2>1. Query[c] = "spoilt"
    BY <1>1, <1>5 DEF Query, Outlook
  <2>2. Stray' \in {Stray, TRUE}
    BY <1>4 DEF Stray
  <2>3. QED
    BY <1>1, <1>2, <1>3, <2>1, <2>2 DEF Remote!Return, Order, Query, Stray
<1>6. CASE ~overlapped[c]
  <2>1. Served(c) /\ answer[c] \in Led \cup {"unread"}
    BY <1>1, <1>6, Foreseen DEF Pending
  <2>2. Query[c] = answer[c]
    BY <1>1, <1>6, <2>1 DEF Query, Outlook
  <2>3. Stray' = Stray
    BY <1>1, <2>1 DEF Served, Gets, Stray
  <2>4. QED
    BY <1>1, <1>2, <1>3, <2>1, <2>2, <2>3 DEF Remote!Return, Order, Query, Stray
<1>7. QED
  BY <1>5, <1>6

LEMMA NextRemote == IInv /\ [Next]_vars => [Remote!Next]_(Remote!ledVars)
<1> SUFFICES ASSUME IInv, [Next]_vars
             PROVE  [Remote!Next]_(Remote!ledVars)
  OBVIOUS
<1>1. CASE \E r \in Commands : SetState(r)
  BY <1>1, SetStateRemote DEF Remote!Next
<1>2. CASE \E e \in Exchange : Network(e)
  BY <1>2, NetworkRemote
<1>3. CASE \E e \in Exchange : Server(e)
  <2>1. PICK e \in Exchange : AnswerAgain(e) \/ HandleGet(e) \/ HandlePut(e)
    BY <1>3 DEF Server
  <2>2. HandlePut(e) => Remote!Next
    BY HandlePutRemote DEF Remote!Next
  <2>3. QED
    BY <2>1, <2>2, AnswerAgainRemote, HandleGetRemote
<1>4. CASE \E e \in Exchange : Handlers(e)
  BY <1>4, HandlersRemote
<1>5. CASE \E c \in Caller : GetState(c)
  BY <1>5, GetStateRemote DEF Remote!Next
<1>6. CASE \E c \in Caller : TakeSem(c)
  BY <1>6, TakeSemRemote
<1>7. CASE \E c \in Caller : Return(c)
  BY <1>7, ReturnRemote DEF Remote!Next
<1>8. CASE UNCHANGED vars \/ \E e \in Exchange : HandlerFaults(e)
  BY <1>8 DEF HandlerFaults, vars, server, caller, Remote!ledVars, Carried, Outlook, Active
<1>9. QED
  BY <1>1, <1>2, <1>3, <1>4, <1>5, <1>6, <1>7, <1>8 DEF Next

(* However requests and responses are lost, repeated and delayed, for any       *)
(* number of callers and requests: the LED changes by commands that were sent   *)
(* and are not acknowledged, and a query that overlaps with none is as good as  *)
(* one look at the LED between its call and its return.                         *)
THEOREM ImplementsRemoteLed == Spec => LedSpec
  BY Invariance, InitRemote, NextRemote, PTL DEF Spec, LedSpec, Remote!Spec
===============================================================================
