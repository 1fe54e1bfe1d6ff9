------------------------------- MODULE RemoteLed -------------------------------
(* What the LED resource promises the nodes that use it, without requests,      *)
(* responses, repetitions, semaphore and stacks: the LED changes only by a      *)
(* command, which takes effect at one moment and not again unless it failed;    *)
(* and a query that overlaps with no other one returns the state the LED had at *)
(* one moment between call and return, or "unread" if OpenThread gave up. Two   *)
(* queries that overlap are promised nothing.                                   *)
EXTENDS Naturals

CONSTANTS
  Caller,       \* the threads that query
  Exchange,     \* the commands that can be outstanding at once
  Commands      \* the states that are set

Led == {"on", "off"}
None == "none"

VARIABLES
  led,
  order,        \* the command each exchange carries, or "done"
  query,        \* for each caller: "idle", "asked", what its query will return,
                \* or "spoilt" when it overlaps with another one
  stray         \* is a query still under way whose caller has returned?

ledVars == <<led, order, query, stray>>

Init ==
  /\ led = "off"
  /\ order = [e \in Exchange |-> None]
  /\ query = [c \in Caller |-> "idle"]
  /\ stray = FALSE

-------------------------------------------------------------------------------
Effect(r) == CASE r = "toggle" -> IF led = "on" THEN "off" ELSE "on"
               [] OTHER        -> r

Command(e, r) ==
  /\ order[e] = None
  /\ order' = [order EXCEPT ![e] = r]
  /\ UNCHANGED <<led, query, stray>>

(* If the command failed nobody knows that it was carried out, and it can be    *)
(* carried out again; if nobody waits for it, it may be forgotten at once.      *)
CarryOut(e) ==
  /\ order[e] \in Commands
  /\ led' = Effect(order[e])
  /\ order' \in {[order EXCEPT ![e] = "done"], [order EXCEPT ![e] = None], order}
  /\ UNCHANGED <<query, stray>>

(* No copy of the command is left, whether it was carried out or not.           *)
Forget(e) ==
  /\ order[e] # None
  /\ order' = [order EXCEPT ![e] = None]
  /\ UNCHANGED <<led, query, stray>>

-------------------------------------------------------------------------------
Asking(c) == query[c] # "idle"

(* A query that begins while another one is under way spoils both.              *)
Ask(c) ==
  /\ ~Asking(c)
  /\ query' = [d \in Caller |->
                 IF d = c
                 THEN IF stray \/ \E b \in Caller : Asking(b) THEN "spoilt" ELSE "asked"
                 ELSE IF Asking(d) THEN "spoilt" ELSE "idle"]
  /\ UNCHANGED <<led, order, stray>>

(* The moment of the query.                                                     *)
Look(c) ==
  /\ query[c] = "asked"
  /\ query' = [query EXCEPT ![c] = led]
  /\ UNCHANGED <<led, order, stray>>

(* The answer never came.                                                       *)
GiveUp(c) ==
  /\ query[c] \in Led \cup {"asked"}
  /\ query' = [query EXCEPT ![c] = "unread"]
  /\ UNCHANGED <<led, order, stray>>

(* A query that has neither looked nor been given up does not return, and only  *)
(* a spoilt one leaves a request behind.                                        *)
Return(c) ==
  /\ query[c] \in Led \cup {"unread", "spoilt"}
  /\ query' = [query EXCEPT ![c] = "idle"]
  /\ stray' \in IF query[c] = "spoilt" THEN {stray, TRUE} ELSE {stray}
  /\ UNCHANGED <<led, order>>

StrayEnds ==
  /\ stray' = FALSE
  /\ UNCHANGED <<led, order, query>>

-------------------------------------------------------------------------------
Next ==
  \/ StrayEnds
  \/ \E c \in Caller : Ask(c) \/ Look(c) \/ GiveUp(c) \/ Return(c)
  \/ \E e \in Exchange : (\E r \in Commands : Command(e, r)) \/ CarryOut(e) \/ Forget(e)

Spec == Init /\ [][Next]_ledVars
===============================================================================
