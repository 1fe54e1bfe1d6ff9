---------------------------- MODULE ControlPanel ----------------------------
(***************************************************************************)
(* The menu of the control panel (IoT/coap_control_board/src: main.c,      *)
(* coap_client_button.c, coap_client_oled.c).                              *)
(*                                                                         *)
(* key_thread moves oled_par.current_index along table_op, oled_thread     *)
(* draws that page when key_on asks for it; both hold i2c_mutex while they *)
(* do.  sys_thread takes no mutex: it is more urgent than both, preempts   *)
(* them anywhere and returns to MAIN_PAGE when a minute has passed without *)
(* a key.  It runs until it blocks on the I2C bus in clear_oled, so what   *)
(* it writes before is one step for the others.                            *)
(*                                                                         *)
(* Left to KeyScan: when a key acts.  The drawings are known by the page   *)
(* they show.                                                              *)
(***************************************************************************)
EXTENDS Integers, FiniteSets

CONSTANTS
  Key,      \* the values key_scan can return with a short press
  Param,    \* the parameters of oled_par
  Limit,    \* the value at which each parameter starts again from 0
  Default,  \* what draw_fatory_confirm_page's ENTER restores
  Minute    \* 60: ticks of _1min_counter after which _1min_flag is set

PanelAssumption ==
  /\ Param = {"distance", "sensitivity", "transmitted_power",
              "oled_light", "oled_close_time"}
  /\ Limit \in [Param -> Nat \ {0}]
  /\ Default \in [Param -> Nat]
  /\ \A p \in Param : Default[p] < Limit[p]
  /\ Minute \in Nat \ {0, 1}

ASSUME PanelAssumption

VARIABLES
  current_index, pre_index,  \* oled_par: the page, and the last page drawn
  key_on,                    \* oled_par: a drawing is asked for
  add_flag,                  \* oled_par: DOWN was pressed on a parameter
  param,                     \* oled_par: the parameters
  counter, flag,             \* sys_tim: _1min_counter, _1min_flag
  looked,     \* sys_thread has run since the last tick
  clearing,   \* sys_thread is inside clear_oled
  mutex,      \* the holder of i2c_mutex
  key, next,  \* key_thread: the acting key, then the page it leads to
  opc, page,  \* oled_thread: where it stands, the page whose function it runs
  screen,     \* the pages drawn since the glass was cleared, or Garbled; from
              \* Compare to Mark, what clear_oled will leave
  asked       \* history: the parameter DOWN was pressed on, "strayed" when its
              \* page may have been left before the drawing, or "none"

menuVars == <<current_index, add_flag, param, asked>>
timeVars == <<counter, flag, looked>>
keyVars == <<key, next>>
oledVars == <<opc, page, pre_index>>
vars == <<menuVars, key_on, timeVars, clearing, mutex, keyVars, oledVars, screen>>

-----------------------------------------------------------------------------
WELCOME_PAGE == 0
MAIN_PAGE == 1
SET_PAGE_1 == 2
SET_PAGE_4 == 5
SET_PAGE_5 == 6
SENSOR_PARAM_PAGE_1 == 7
SENSOR_PARAM_PAGE_3 == 9
OLED_PARAM_PAGE_1 == 10
OLED_PARAM_PAGE_2 == 11
SENSOR_PARAM_CONFIRM_PAGE == 14
OLED_PARAM_CONFIRM_PAGE == 15
FATORY_CONFIRM_PAGE == 16
MAX_INDEX == 17

Page == 0 .. MAX_INDEX - 1

SensorPage == SENSOR_PARAM_PAGE_1 .. SENSOR_PARAM_PAGE_3
OledPage == OLED_PARAM_PAGE_1 .. OLED_PARAM_PAGE_2
ParamPage == SensorPage \cup OledPage
SetPage == SET_PAGE_1 .. SET_PAGE_5
CancelPage == ParamPage \cup {SENSOR_PARAM_CONFIRM_PAGE, OLED_PARAM_CONFIRM_PAGE}

\* up, down, enter, min_page, max_page of each page.
table_rows ==
  <<<<0, 0, 1, 0, 0>>,         \* WELCOME_PAGE
    <<1, 1, 2, 1, 1>>,         \* MAIN_PAGE
    <<3, 6, 7, 2, 4>>,         \* SET_PAGE_1 ..
    <<4, 2, 10, 2, 4>>,
    <<5, 3, 12, 2, 4>>,
    <<6, 4, 16, 5, 6>>,
    <<2, 5, 13, 5, 6>>,
    <<8, 7, 14, 7, 9>>,        \* SENSOR_PARAM_PAGE_1 ..
    <<9, 8, 14, 7, 9>>,
    <<7, 9, 14, 7, 9>>,
    <<11, 10, 15, 10, 11>>,    \* OLED_PARAM_PAGE_1 ..
    <<10, 11, 15, 10, 11>>,
    <<12, 12, 4, 12, 12>>,     \* VISION_PAGE
    <<13, 13, 6, 13, 13>>,     \* PROVISIONING_URL_PAGE
    <<14, 14, 7, 14, 14>>,     \* SENSOR_PARAM_CONFIRM_PAGE
    <<15, 15, 10, 15, 15>>,    \* OLED_PARAM_CONFIRM_PAGE
    <<16, 16, 5, 16, 16>>>>    \* FATORY_CONFIRM_PAGE

table_op == [p \in Page |-> table_rows[p + 1]]

Column == [UP |-> 1, DOWN |-> 2, ENTER |-> 3]

\* The pages one drawing shows together, its arrow on one of them.
Family(p) == table_op[p][4] .. table_op[p][5]

param_names == <<"distance", "sensitivity", "transmitted_power",
                 "oled_light", "oled_close_time">>

\* The parameter that a parameter page changes.
ParamOf == [p \in ParamPage |-> param_names[p - SENSOR_PARAM_PAGE_1 + 1]]

NoKey == "none"
NoPage == MAX_INDEX

\* sys_thread and oled_thread wrote to the display at the same time. Both move
\* the one address it keeps, so words may be in wrong places and columns that
\* both meant to clear may keep what they showed, until a drawing clears the
\* glass with nobody else writing.
Garbled == {NoPage}

TypeOK ==
  /\ current_index \in Page
  /\ pre_index \in Page
  /\ key_on \in BOOLEAN
  /\ add_flag \in BOOLEAN
  /\ param \in [Param -> Nat]
  /\ counter \in 0 .. Minute - 1
  /\ flag \in BOOLEAN
  /\ looked \in BOOLEAN
  /\ clearing \in BOOLEAN
  /\ mutex \in {"none", "key", "oled"}
  /\ key \in Key \cup {NoKey}
  /\ next \in Page \cup {NoPage}
  /\ opc \in {"sleep", "dispatch", "compare", "mark", "paint", "add"}
  /\ page \in Page \cup {NoPage}
  /\ screen \in (SUBSET Page) \cup {Garbled}
  /\ asked \in Param \cup {"none", "strayed"}

\* After sys_thread's param_init and oled_thread's oled_init.
Init ==
  /\ current_index = WELCOME_PAGE
  /\ pre_index = WELCOME_PAGE
  /\ key_on = TRUE
  /\ add_flag = FALSE
  /\ param = [p \in Param |-> 0]
  /\ counter = 0
  /\ flag = FALSE
  /\ looked = FALSE
  /\ clearing = FALSE
  /\ mutex = "none"
  /\ key = NoKey
  /\ next = NoPage
  /\ opc = "sleep"
  /\ page = NoPage
  /\ screen = {}
  /\ asked = "none"

-----------------------------------------------------------------------------
(* The timer interrupt and sys_thread.                                     *)

\* Fault: the counter passes its limit before it starts again.
TickPast ==
  /\ looked
  /\ looked' = FALSE
  /\ IF counter + 1 > Minute
     THEN counter' = 0 /\ flag' = TRUE
     ELSE counter' = counter + 1 /\ UNCHANGED flag
  /\ UNCHANGED <<menuVars, key_on, clearing, mutex, keyVars, oledVars, screen>>

\* One tick of _1min_counter.  Ticks are far apart: sys_thread, which runs
\* every millisecond, looks between any two.
Tick ==
  /\ looked
  /\ looked' = FALSE
  /\ IF counter + 1 >= Minute
     THEN counter' = 0 /\ flag' = TRUE
     ELSE counter' = counter + 1 /\ UNCHANGED flag
  /\ UNCHANGED <<menuVars, key_on, clearing, mutex, keyVars, oledVars, screen>>

\* Fault: the counter runs on the first pages, too.
CounterRuns == counter

\* Fault: the counter never runs.
CounterStops == 0

\* _1min_counter as sys_thread leaves it.
CounterKept == IF current_index \in {WELCOME_PAGE, MAIN_PAGE} THEN 0 ELSE counter

SysLook ==
  /\ ~clearing
  /\ ~flag
  /\ looked' = TRUE
  /\ counter' = CounterKept
  /\ UNCHANGED <<menuVars, key_on, flag, clearing, mutex, keyVars, oledVars, screen>>

\* The page is left.
Stray == IF asked = "none" THEN "none" ELSE "strayed"

SysTimeout ==
  /\ ~clearing
  /\ flag
  /\ looked' = TRUE
  /\ counter' = CounterKept
  /\ flag' = FALSE
  /\ key_on' = TRUE
  /\ current_index' = MAIN_PAGE
  /\ clearing' = TRUE
  /\ screen' = IF opc \in {"sleep", "dispatch"} THEN screen ELSE Garbled
  /\ asked' = Stray
  /\ UNCHANGED <<add_flag, param, mutex, keyVars, oledVars>>

\* clear_oled of sys_thread is over.  It leaves an empty glass unless a drawing
\* wrote meanwhile, its words or a clear_oled of its own.
SysCleared ==
  /\ clearing
  /\ clearing' = FALSE
  /\ screen' = IF screen = Garbled THEN screen ELSE {}
  /\ UNCHANGED <<menuVars, key_on, timeVars, mutex, keyVars, oledVars>>

-----------------------------------------------------------------------------
(* key_thread.                                                             *)

Restores(k) == k = "ENTER" /\ current_index = FATORY_CONFIRM_PAGE

\* MENU takes the parameters from flash_data, which is never read.
Zeroes(k) == k = "MENU" /\ current_index \in CancelPage

\* DOWN on a parameter and combinations of keys leave the page alone.
Moves(k) ==
  \/ k \in {"UP", "ENTER", "MENU"}
  \/ k = "DOWN" /\ current_index \notin ParamPage

\* DOWN on a parameter page sets add_flag.
Adds(k) == k = "DOWN" /\ current_index \in ParamPage

\* What an acting key does before the page changes.
Effect(k) ==
  /\ add_flag' = (add_flag \/ Adds(k))
  /\ asked' = IF Adds(k) THEN ParamOf[current_index] ELSE IF Moves(k) THEN Stray ELSE asked
  /\ \/ Restores(k) /\ param' = Default
     \/ Zeroes(k) /\ param' = [p \in Param |-> 0]
     \/ ~Restores(k) /\ ~Zeroes(k) /\ UNCHANGED param

\* Fault: i2c_mutex is kept by a key that does not move.
PressKeepsMutex(k) ==
  /\ mutex = "none"
  /\ counter' = 0
  /\ key_on' = TRUE
  /\ Effect(k)
  /\ mutex' = "key"
  /\ key' = IF Moves(k) THEN k ELSE NoKey
  /\ UNCHANGED <<current_index, flag, looked, clearing, next, oledVars, screen>>

\* key_thread locks i2c_mutex and a key acts: key_status up to the page.
Press(k) ==
  /\ mutex = "none"
  /\ counter' = 0
  /\ key_on' = TRUE
  /\ Effect(k)
  /\ mutex' = IF Moves(k) THEN "key" ELSE "none"
  /\ key' = IF Moves(k) THEN k ELSE NoKey
  /\ UNCHANGED <<current_index, flag, looked, clearing, next, oledVars, screen>>

\* The page table_op or MENU leads to, from the page as it is read now.
PageAfter ==
  IF key \in DOMAIN Column THEN table_op[current_index][Column[key]] ELSE MAIN_PAGE

Lookup ==
  /\ key # NoKey
  /\ next' = PageAfter
  /\ key' = NoKey
  /\ UNCHANGED <<menuVars, key_on, timeVars, clearing, mutex, oledVars, screen>>

\* The page is written, whatever sys_thread did since it was looked up.
Store ==
  /\ next # NoPage
  /\ current_index' = next
  /\ next' = NoPage
  /\ mutex' = "none"
  /\ UNCHANGED <<add_flag, param, asked, key_on, timeVars, clearing, key, oledVars, screen>>

-----------------------------------------------------------------------------
(* oled_thread.                                                            *)

\* oled_thread locks i2c_mutex and finds key_on set.
StartDraw ==
  /\ opc = "sleep"
  /\ mutex = "none"
  /\ key_on
  /\ key_on' = FALSE
  /\ mutex' = "oled"
  /\ opc' = "dispatch"
  /\ UNCHANGED <<menuVars, timeVars, clearing, keyVars, page, pre_index, screen>>

Dispatch ==
  /\ opc = "dispatch"
  /\ page' = current_index
  /\ opc' = "compare"
  /\ UNCHANGED <<menuVars, key_on, timeVars, clearing, mutex, keyVars, pre_index, screen>>

\* Fault: the upper bound is not compared.
SpanUpwards == table_op[IF page \in ParamPage THEN page ELSE current_index][4] .. MAX_INDEX

\* The pages that can be drawn over without clearing.  The functions of the
\* parameter pages know them, the others take them from current_index.
Span == IF page \in ParamPage THEN Family(page) ELSE Family(current_index)

\* A drawing of another family than the last one begins with clear_oled, which
\* is on the bus until Mark.  It leaves an empty glass unless it meets the
\* clear_oled of sys_thread, here or in SysTimeout.
Compare ==
  /\ opc = "compare"
  /\ screen' = IF pre_index \in Span THEN screen
               ELSE IF clearing \/ page # current_index THEN Garbled ELSE {}
  /\ page' = IF page \in SetPage /\ current_index \notin SetPage THEN NoPage ELSE page
  /\ opc' = "mark"
  /\ UNCHANGED <<menuVars, key_on, timeVars, clearing, mutex, keyVars, pre_index>>

\* pre_index is set, and the words go out from here to Paint.
Mark ==
  /\ opc = "mark"
  /\ pre_index' = current_index
  /\ opc' = "paint"
  /\ screen' = IF clearing THEN Garbled ELSE screen
  /\ UNCHANGED <<menuVars, key_on, timeVars, clearing, mutex, keyVars, page>>

\* The words of the drawing, and its arrow alone on the row of current_index.
Painted ==
  IF screen = Garbled THEN Garbled
  ELSE (screen \ Family(page)) \cup {current_index}

Paint ==
  /\ opc = "paint"
  /\ screen' = Painted
  /\ IF page \in ParamPage
     THEN opc' = "add" /\ UNCHANGED <<mutex, page>>
     ELSE opc' = "sleep" /\ mutex' = "none" /\ page' = NoPage
  /\ UNCHANGED <<menuVars, key_on, timeVars, clearing, keyVars, pre_index>>

\* Fault: the limit itself is still shown.
BumpPast(p) == IF param[p] + 1 > Limit[p] THEN 0 ELSE param[p] + 1

Bump(p) == IF param[p] + 1 >= Limit[p] THEN 0 ELSE param[p] + 1

\* Fault: add_flag is not used up.
AddKeepsFlag ==
  /\ opc = "add"
  /\ param' = IF add_flag /\ current_index \in Family(page)
              THEN [param EXCEPT ![ParamOf[current_index]] = Bump(ParamOf[current_index])]
              ELSE param
  /\ asked' = "none"
  /\ opc' = "sleep"
  /\ page' = NoPage
  /\ mutex' = "none"
  /\ UNCHANGED <<add_flag, current_index, key_on, timeVars, clearing, keyVars, pre_index, screen>>

\* The parameter of the page as it is read now; add_flag is used up.
Add ==
  /\ opc = "add"
  /\ param' = IF add_flag /\ current_index \in Family(page)
              THEN [param EXCEPT ![ParamOf[current_index]] = Bump(ParamOf[current_index])]
              ELSE param
  /\ add_flag' = FALSE
  /\ asked' = "none"
  /\ opc' = "sleep"
  /\ page' = NoPage
  /\ mutex' = "none"
  /\ UNCHANGED <<current_index, key_on, timeVars, clearing, keyVars, pre_index, screen>>

-----------------------------------------------------------------------------
Sys == SysLook \/ SysTimeout \/ SysCleared
KeyMoves == Lookup \/ Store
Oled == StartDraw \/ Dispatch \/ Compare \/ Mark \/ Paint \/ Add

Next ==
  \/ Tick
  \/ Sys
  \/ \E k \in Key : Press(k)
  \/ KeyMoves
  \/ Oled

Spec == Init /\ [][Next]_vars

(* Fairness.  The timer ticks and each thread goes on; nobody need press a *)
(* key.  i2c_mutex is handed to the thread that has waited longest, so     *)
(* oled_thread gets it however often key_thread asks (SF).                 *)
Fairness ==
  /\ WF_vars(Tick)
  /\ WF_vars(Sys)
  /\ WF_vars(KeyMoves)
  /\ SF_vars(Oled)

FairSpec == Spec /\ Fairness

-----------------------------------------------------------------------------
(* Properties.                                                             *)

(* No parameter ever leaves its range: the draws wrap before the limit,    *)
(* MENU and the factory reset stay inside.                                 *)
ParamsInRange == \A p \in Param : param[p] < Limit[p]

(* A drawing advances the parameter on which DOWN was pressed, by one step  *)
(* and no other, whatever sys_thread and further keys do in between, and    *)
(* none without a press; only if the page is left before the drawing does   *)
(* another parameter advance, at some later visit, or none.                 *)
StepOf(p) == IF param[p] + 1 = Limit[p] THEN 0 ELSE param[p] + 1

AdvancesAsAsked ==
  [][opc = "add" /\ opc' = "sleep" =>
       /\ asked \in Param => param' = [param EXCEPT ![asked] = StepOf(asked)]
       /\ asked = "none" => param' = param]_vars

(* What the glass shows: between drawings, no page but the last one drawn  *)
(* is left on it, and when nothing is asked for or going on it shows the   *)
(* current page; unless sys_thread's clear_oled and a drawing overlapped.  *)
Settled == mutex = "none" /\ ~key_on /\ ~clearing

ShowsCurrentPage ==
  opc = "sleep" /\ screen # Garbled =>
    /\ screen \subseteq {pre_index}
    /\ Settled => screen = {current_index}

(* WELCOME_PAGE is shown only until the first ENTER or MENU, although a    *)
(* key stores a page that it looked up before a timeout.                   *)
WelcomeOnlyAtStart ==
  [][current_index # WELCOME_PAGE => current_index' # WELCOME_PAGE]_vars

(* Every request for a drawing is served.                                  *)
RedrawServed == key_on ~> ~key_on

(* Left alone, the panel returns to MAIN_PAGE (or never left the first     *)
(* page): either keys are pressed again and again, or MAIN_PAGE is reached.*)
IdleReturnsToMain ==
  \/ []<><<\E k \in Key : Press(k)>>_vars
  \/ <>[](current_index \in {WELCOME_PAGE, MAIN_PAGE})
=============================================================================
