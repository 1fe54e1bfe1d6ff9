------------------------------ MODULE CoapServer ------------------------------
(* The LED resource of IoT/server and its two users: coap_led_set_state and     *)
(* coap_led_get_state, on another node of the same program. A query blocks its  *)
(* thread on led_get_sem, which all queries share, until the response handler   *)
(* has written the answer to the caller's stack. (iot_button.c has the same     *)
(* query with a semaphore of its own, and no state to set.)                     *)
(*                                                                              *)
(* OpenThread's CoAP is modelled from its use: a confirmable request is sent    *)
(* again until it is answered or given up, its handler is called once, with the *)
(* response or without a message; the server answers a repeated request with    *)
(* the response it sent before, if it sent one. Requests and responses may be   *)
(* lost and delayed. One LED; what is encoded in JSON is the LED's state.       *)
EXTENDS Naturals, FiniteSets

CONSTANTS
  Caller,       \* the threads that query
  Exchange,     \* bound: requests that the client or the network still knows
  Commands      \* the states that are set

ASSUME CommandsAssumption == Commands \subseteq {"on", "off", "toggle"}
ASSUME FiniteAssumption == IsFiniteSet(Caller) /\ IsFiniteSet(Exchange)

Led == {"on", "off"}
Request == Commands \cup {"get"}
None == "none"

VARIABLES
  led,          \* led->state
  cached,       \* the response the server has sent for each exchange
  request,      \* the requests the client waits for
  owner,        \* the caller whose stack the handler writes to
  air, back,    \* requests, and exchanges whose response is, on their way
  pc,           \* where each caller stands in coap_led_get_state
  current,      \* the exchange of its call
  answer,       \* struct json_led_get on its stack: an answer, "garbage", or
                \* what the handler reads when there is no message
  led_get_sem,
  applied,      \* history: how often a command was carried out without a failure
                \* of the pin or the response, 2 for more than once
  seen,         \* history: states of the LED since the call, while none overlaps
  overlapped,   \* history: another query was open during the call
  halted        \* the querying node has stopped in a fault

server == <<led, cached, applied>>
caller == <<pc, current, answer, led_get_sem, overlapped>>
vars == <<server, request, owner, air, back, caller, seen, halted>>

TypeOK ==
  /\ led \in Led
  /\ cached \in [Exchange -> Led \cup {None}]
  /\ request \in [Exchange -> Request \cup {None}]
  /\ owner \in [Exchange -> Caller \cup {None}]
  /\ air \in [Exchange -> Request \cup {None}]
  /\ back \subseteq Exchange
  /\ pc \in [Caller -> {"idle", "sent", "waiting", "awake"}]
  /\ current \in [Caller -> Exchange \cup {None}]
  /\ answer \in [Caller -> Led \cup {"garbage", "unread"}]
  /\ led_get_sem \in 0 .. 1
  /\ applied \in [Exchange -> 0 .. 2]
  /\ seen \in [Caller -> SUBSET Led]
  /\ overlapped \in [Caller -> BOOLEAN]
  /\ halted \in BOOLEAN

Init ==
  /\ led = "off"
  /\ cached = [e \in Exchange |-> None]
  /\ request = [e \in Exchange |-> None] /\ owner = [e \in Exchange |-> None]
  /\ air = [e \in Exchange |-> None] /\ back = {}
  /\ pc = [c \in Caller |-> "idle"] /\ current = [c \in Caller |-> None]
  /\ answer = [c \in Caller |-> "garbage"]
  /\ led_get_sem = 0
  /\ applied = [e \in Exchange |-> 0]
  /\ seen = [c \in Caller |-> {}]
  /\ overlapped = [c \in Caller |-> FALSE]
  /\ halted = FALSE

-------------------------------------------------------------------------------
(* coap_req_send. A request that cannot be sent is freed and reported to the    *)
(* caller, and nothing else changes. A message ID is not used again while the   *)
(* network or the client knows it.                                              *)
Open(e, r, c) ==
  /\ ~halted
  /\ request[e] = None /\ air[e] = None
  /\ request' = [request EXCEPT ![e] = r]
  /\ owner' = [owner EXCEPT ![e] = c]
  /\ air' = [air EXCEPT ![e] = r]
  /\ cached' = [cached EXCEPT ![e] = None]
  /\ applied' = [applied EXCEPT ![e] = 0]
  /\ UNCHANGED <<led, back, halted>>

(* coap_led_set_state: nobody waits for the response.                           *)
SetState(r) ==
  /\ \E e \in Exchange : Open(e, r, None)
  /\ UNCHANGED <<caller, seen>>

Active(c) == pc[c] # "idle"

(* A query that some call, or some forgotten call, still has open.              *)
QueryOpen == \/ \E c \in Caller : Active(c)
             \/ \E e \in Exchange : request[e] = "get"

(* coap_led_get_state up to the semaphore.                                      *)
GetState(c) ==
  /\ ~Active(c)
  /\ \E e \in Exchange : Open(e, "get", c) /\ current' = [current EXCEPT ![c] = e]
  /\ pc' = [pc EXCEPT ![c] = "sent"]
  /\ answer' = [answer EXCEPT ![c] = "garbage"]
  /\ overlapped' = [d \in Caller |-> IF d = c THEN QueryOpen ELSE Active(d)]
  /\ seen' = [d \in Caller |-> IF d = c /\ ~QueryOpen THEN {led} ELSE {}]
  /\ UNCHANGED led_get_sem

-------------------------------------------------------------------------------
(* The network, and OpenThread's retransmission.                                *)
Retransmit(e) ==
  /\ ~halted
  /\ request[e] # None /\ air[e] = None
  /\ air' = [air EXCEPT ![e] = request[e]]
  /\ UNCHANGED <<server, request, owner, back, caller, seen, halted>>

LoseRequest(e) ==
  /\ air[e] # None
  /\ air' = [air EXCEPT ![e] = None]
  /\ UNCHANGED <<server, request, owner, back, caller, seen, halted>>

LoseResponse(e) ==
  /\ e \in back
  /\ back' = back \ {e}
  /\ UNCHANGED <<server, request, owner, air, caller, seen, halted>>

-------------------------------------------------------------------------------
(* The server.                                                                  *)

Arrives(e) ==
  /\ air[e] # None
  /\ air' = [air EXCEPT ![e] = None]
  /\ UNCHANGED <<request, owner, caller, halted>>

(* A response that the client does not wait for is dropped by OpenThread when   *)
(* it arrives; here, when it is sent.                                           *)
Send(e) == back' = IF request[e] = None THEN back ELSE back \cup {e}

(* OpenThread answers a request it has answered before.                         *)
AnswerAgain(e) ==
  /\ Arrives(e)
  /\ cached[e] # None
  /\ Send(e)
  /\ UNCHANGED <<server, seen>>

(* coap_resp_send with the state v, when no step of it fails.                   *)
Respond(e, v) == cached' = [cached EXCEPT ![e] = v] /\ Send(e)

(* coap_req_handler with GET, and led_handler_get; a response that cannot be    *)
(* sent is freed.                                                               *)
HandleGet(e) ==
  /\ Arrives(e)
  /\ air[e] = "get" /\ cached[e] = None
  /\ Respond(e, led) \/ UNCHANGED <<cached, back>>
  /\ UNCHANGED <<led, applied, seen>>

(* led_handler_put: led->state.                                                 *)
NewState(r) == IF r # "toggle" THEN r ELSE IF led = "on" THEN "off" ELSE "on"

\* Fault: a command that comes again is carried out like a new one.
CarryOutAgain(e) ==
  /\ Arrives(e)
  /\ air[e] \in Commands
  /\ led' = NewState(air[e])
  /\ seen' = [c \in Caller |-> IF Active(c) /\ ~overlapped[c]
                               THEN seen[c] \cup {led'} ELSE seen[c]]

CarryOut(e) ==
  /\ Arrives(e)
  /\ air[e] \in Commands /\ cached[e] = None
  /\ led' = NewState(air[e])
  /\ seen' = [c \in Caller |-> IF Active(c) /\ ~overlapped[c]
                               THEN seen[c] \cup {led'} ELSE seen[c]]

Applied(e) == applied' = [applied EXCEPT ![e] = IF @ < 2 THEN @ + 1 ELSE @]

\* Fault: a command is not responded to.
HandlePutSilently(e) ==
  /\ CarryOut(e)
  /\ Applied(e)
  /\ UNCHANGED <<cached, back>>

(* coap_req_handler with a command. The state changes even if the pin cannot be *)
(* set, and then there is no response.                                          *)
HandlePut(e) ==
  /\ CarryOut(e)
  /\ \/ Respond(e, led') /\ Applied(e)
     \/ UNCHANGED <<cached, back, applied>>

-------------------------------------------------------------------------------
(* The client's response handlers.                                              *)

(* The exchange is over for the client, and whatever else answers it is dropped.*)
Close(e) ==
  /\ request[e] # None /\ ~halted /\ UNCHANGED halted
  /\ request' = [request EXCEPT ![e] = None]
  /\ owner' = [owner EXCEPT ![e] = None]
  /\ back' = back \ {e}

(* k_sem_give: to a caller that waits, or for the next one, once.               *)
Give ==
  \/ \E c \in Caller :
       /\ pc[c] = "waiting"
       /\ pc' = [pc EXCEPT ![c] = "awake"]
       /\ UNCHANGED led_get_sem
  \/ /\ \A c \in Caller : pc[c] # "waiting"
     /\ led_get_sem' = 1
     /\ UNCHANGED pc

(* coap_led_get_state_cb writes to the stack of the call that sent the request. *)
(* If that call has returned, the place may be that of the caller's next call.  *)
Write(e, data) ==
  LET c == owner[e]
      written == [answer EXCEPT ![c] = data]
  IN  \/ current[c] = e /\ answer' = written
      \/ current[c] # e /\ Active(c) /\ answer' = written
      \/ current[c] # e /\ UNCHANGED answer

ResponseArrives(e) ==
  /\ e \in back
  /\ Close(e)
  /\ IF request[e] = "get" THEN Write(e, cached[e]) /\ Give
                           ELSE UNCHANGED <<answer, pc, led_get_sem>>
  /\ UNCHANGED <<server, air, current, overlapped, seen>>

(* OpenThread gives up and calls the handler without a message. That of a query *)
(* asks for the length of the message nevertheless: it gets whatever lies at    *)
(* address 0 and goes on, or (HandlerFaults) the access stops the node. The     *)
(* handler of a command is empty.                                               *)
RequestTimesOut(e) ==
  /\ Close(e)
  /\ IF request[e] = "get" THEN Write(e, "unread") /\ Give
                           ELSE UNCHANGED <<answer, pc, led_get_sem>>
  /\ UNCHANGED <<server, air, current, overlapped, seen>>

HandlerFaults(e) ==
  /\ request[e] = "get" /\ ~halted
  /\ halted' = TRUE
  /\ UNCHANGED <<server, request, owner, air, back, caller, seen>>

\* Fault: what an earlier query may have left in the semaphore is dropped first.
ResetAndTake(c) ==
  /\ pc[c] = "sent" /\ ~halted
  /\ led_get_sem' = 0
  /\ pc' = [pc EXCEPT ![c] = "waiting"]
  /\ UNCHANGED <<server, request, owner, air, back, current, answer, overlapped, seen, halted>>

\* Fault: the semaphore is taken without waiting.
TakeAtOnce(c) ==
  /\ pc[c] = "sent" /\ ~halted
  /\ led_get_sem' = 0
  /\ pc' = [pc EXCEPT ![c] = "awake"]
  /\ UNCHANGED <<server, request, owner, air, back, current, answer, overlapped, seen, halted>>

(* k_sem_take without a time limit.                                             *)
TakeSem(c) ==
  /\ pc[c] = "sent" /\ ~halted
  /\ \/ led_get_sem = 1 /\ led_get_sem' = 0 /\ pc' = [pc EXCEPT ![c] = "awake"]
     \/ led_get_sem = 0 /\ pc' = [pc EXCEPT ![c] = "waiting"] /\ UNCHANGED led_get_sem
  /\ UNCHANGED <<server, request, owner, air, back, current, answer, overlapped, seen, halted>>

(* The rest of coap_led_get_state: the answer is read and its place given up.   *)
Return(c) ==
  /\ pc[c] = "awake" /\ ~halted
  /\ pc' = [pc EXCEPT ![c] = "idle"]
  /\ current' = [current EXCEPT ![c] = None]
  /\ answer' = [answer EXCEPT ![c] = "garbage"]
  /\ seen' = [seen EXCEPT ![c] = {}]
  /\ overlapped' = [overlapped EXCEPT ![c] = FALSE]
  /\ UNCHANGED <<server, request, owner, air, back, led_get_sem, halted>>

-------------------------------------------------------------------------------
Network(e) == Retransmit(e) \/ LoseRequest(e) \/ LoseResponse(e)
Server(e) == AnswerAgain(e) \/ HandleGet(e) \/ HandlePut(e)
Handlers(e) == RequestTimesOut(e) \/ ResponseArrives(e)

Next ==
  \/ \E r \in Commands : SetState(r)
  \/ \E e \in Exchange : Network(e) \/ Server(e) \/ Handlers(e) \/ HandlerFaults(e)
  \/ \E c \in Caller : GetState(c) \/ TakeSem(c) \/ Return(c)

(* OpenThread answers or gives up every request, and the callers go on, as long *)
(* as their node does. Nothing is assumed of the network or the server.         *)
Fairness ==
  /\ \A e \in Exchange : WF_vars(Handlers(e))
  /\ \A c \in Caller : WF_vars(TakeSem(c) \/ Return(c))

Spec == Init /\ [][Next]_vars /\ Fairness

-------------------------------------------------------------------------------
(* A query returns a state that the LED had during the query, however often the *)
(* request was repeated, and however late it is answered; unless OpenThread     *)
(* gave up, or queries overlapped, which then take each other's wake-ups.       *)
AnswerIsFresh ==
  \A c \in Caller :
    pc[c] = "awake" /\ ~overlapped[c] => answer[c] \in seen[c] \cup {"unread"}

(* A command is carried out once however often its request is repeated - which  *)
(* matters for "toggle" - unless its pin or its response failed: then OpenThread*)
(* does not know it.                                                            *)
CarriedOutOnce == \A e \in Exchange : applied[e] < 2

(* A query returns, even if nothing ever answers, though it waits for ever;     *)
(* unless it overlaps with another one - led_get_sem keeps one of two wake-ups -*)
(* or a query was given up and its handler stopped the node.                    *)
QueryReturns ==
  \A c \in Caller : Active(c) ~> ~Active(c) \/ overlapped[c] \/ halted

(* Seen from outside: the command an exchange carries as long as the client or  *)
(* the network knows it, and what a query will return as soon as that is settled.*)
Carried(e) ==
  IF request[e] \in Commands THEN request[e]
  ELSE IF request[e] = None /\ air[e] \in Commands THEN air[e] ELSE None

Outlook(c) ==
  IF overlapped[c] THEN "spoilt"
  ELSE IF answer[c] # "garbage" THEN answer[c]
  ELSE IF cached[current[c]] # None THEN cached[current[c]] ELSE "asked"

Remote == INSTANCE RemoteLed WITH
            order <- [e \in Exchange |-> IF Carried(e) # None /\ cached[e] # None
                                         THEN "done" ELSE Carried(e)],
            query <- [c \in Caller |-> IF Active(c) THEN Outlook(c) ELSE "idle"],
            stray <- \E e \in Exchange : /\ request[e] = "get"
                                          /\ \A c \in Caller : Active(c) => current[c] # e

(* The resource implements RemoteLed: the LED changes by the commands that were *)
(* sent and not yet acknowledged, and a query that overlaps with none is as     *)
(* good as one look at the LED between its call and its return.                 *)
LedSpec == Remote!Spec

===============================================================================
