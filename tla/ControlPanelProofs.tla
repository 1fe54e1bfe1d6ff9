------------------------- MODULE ControlPanelProofs -------------------------
(***************************************************************************)
(* Proofs about ControlPanel, for every Minute, Limit and set of keys.     *)
(*                                                                         *)
(* That the welcome page does not return is not inductive: it needs that   *)
(* no timeout can be due on it (WelcomeQuiet), since a timeout would let a *)
(* key store a welcome page looked up before it.  What the glass shows     *)
(* needs to be followed through the steps of a drawing (Undisturbed), and  *)
(* so does the page DOWN was pressed on (AskedHere).                       *)
(***************************************************************************)
EXTENDS ControlPanel, TLAPS

USE DEF WELCOME_PAGE, MAIN_PAGE, SET_PAGE_1, SET_PAGE_4, SET_PAGE_5,
        SENSOR_PARAM_PAGE_1, SENSOR_PARAM_PAGE_3, OLED_PARAM_PAGE_1,
        OLED_PARAM_PAGE_2, SENSOR_PARAM_CONFIRM_PAGE, OLED_PARAM_CONFIRM_PAGE,
        FATORY_CONFIRM_PAGE, MAX_INDEX, NoPage

WelcomeQuiet ==
  /\ current_index = WELCOME_PAGE => ~flag /\ counter <= (IF looked THEN 0 ELSE 1)
  /\ next = WELCOME_PAGE => current_index = WELCOME_PAGE

\* Only the functions of the parameter pages add.
AddsToParam == opc = "add" => page \in ParamPage

IInv == TypeOK /\ ParamsInRange /\ WelcomeQuiet /\ AddsToParam

-----------------------------------------------------------------------------
(* The table and the parameters.                                           *)

\* Every key of the table leads to a page, and only the welcome page leads to
\* the welcome page.
LEMMA TableLeadsToPages ==
  ASSUME NEW p \in Page, NEW c \in 1 .. 3
  PROVE  /\ table_op[p][c] \in Page
         /\ table_op[p][c] = WELCOME_PAGE => p = WELCOME_PAGE
  BY DEF table_op, table_rows, Page

\* The page after a key is a page, and the welcome page only after itself.
LEMMA PageAfterIsPage ==
  ASSUME current_index \in Page
  PROVE  /\ PageAfter \in Page
         /\ PageAfter = WELCOME_PAGE => current_index = WELCOME_PAGE
<1>1. CASE key \in DOMAIN Column
  <2>1. Column[key] \in 1 .. 3
    BY <1>1 DEF Column
  <2>2. PageAfter = table_op[current_index][Column[key]]
    BY <1>1 DEF PageAfter
  <2>3. QED
    BY <2>1, <2>2, TableLeadsToPages
<1>2. CASE key \notin DOMAIN Column
  BY <1>2 DEF PageAfter, Page
<1>3. QED
  BY <1>1, <1>2

\* A drawing leaves the parameter of its page in range.
LEMMA BumpInRange ==
  ASSUME NEW p \in Param, param \in [Param -> Nat], param[p] < Limit[p]
  PROVE  Bump(p) \in Nat /\ Bump(p) < Limit[p]
<1>1. param[p] \in Nat /\ Limit[p] \in Nat \ {0}
  BY PanelAssumption DEF PanelAssumption
<1>2. QED
  BY <1>1 DEF Bump

LEMMA ParamOfPage ==
  ASSUME NEW p \in ParamPage
  PROVE  ParamOf[p] \in Param
<1>1. p \in 7 .. 11
  BY DEF ParamPage, SensorPage, OledPage
<1>2. QED
  BY <1>1, PanelAssumption DEF ParamOf, param_names, PanelAssumption

\* The parameter pages drawn together are parameter pages.
LEMMA FamilyOfParamPage ==
  ASSUME NEW p \in ParamPage
  PROVE  Family(p) \subseteq ParamPage
<1>1. p \in 7 .. 11
  BY DEF ParamPage, SensorPage, OledPage
<1>2. /\ p \in 7 .. 9 => Family(p) = 7 .. 9
      /\ p \in 10 .. 11 => Family(p) = 10 .. 11
  BY <1>1 DEF Family, table_op, table_rows, Page
<1>3. QED
  BY <1>1, <1>2 DEF ParamPage, SensorPage, OledPage

-----------------------------------------------------------------------------
(* The inductive invariant.                                                *)

LEMMA InitEstablishes == Init => IInv
<1> SUFFICES ASSUME Init
             PROVE  IInv
  OBVIOUS
<1> USE PanelAssumption DEF PanelAssumption
<1>1. /\ key_on \in BOOLEAN /\ add_flag \in BOOLEAN /\ flag \in BOOLEAN
      /\ looked \in BOOLEAN /\ clearing \in BOOLEAN
  BY DEF Init
<1>2. /\ current_index \in Page /\ pre_index \in Page
      /\ next \in Page \cup {NoPage} /\ page \in Page \cup {NoPage}
  BY DEF Init, Page
<1>3. param \in [Param -> Nat] /\ ParamsInRange
  BY DEF Init, ParamsInRange
<1>4. /\ counter \in 0 .. Minute - 1
      /\ mutex \in {"none", "key", "oled"}
      /\ key \in Key \cup {NoKey}
      /\ opc \in {"sleep", "dispatch", "compare", "mark", "paint", "add"}
      /\ screen \in (SUBSET Page) \cup {Garbled}
      /\ asked \in Param \cup {"none", "strayed"}
  BY DEF Init
<1>5. TypeOK
  BY <1>1, <1>2, <1>3, <1>4 DEF TypeOK
<1>6. WelcomeQuiet /\ AddsToParam
  BY DEF Init, WelcomeQuiet, AddsToParam
<1>7. QED
  BY <1>3, <1>5, <1>6 DEF IInv

LEMMA NextPreserves == IInv /\ [Next]_vars => IInv'
<1> SUFFICES ASSUME IInv, [Next]_vars
             PROVE  IInv'
  OBVIOUS
<1> USE PanelAssumption DEF PanelAssumption, IInv, TypeOK, ParamsInRange, WelcomeQuiet, AddsToParam
<1>1. CASE Tick
  <2>1. counter' \in 0 .. Minute - 1
    BY <1>1 DEF Tick
  <2>2. TypeOK'
    <3>1. flag' \in BOOLEAN
      BY <1>1 DEF Tick
    <3>2. looked' = FALSE /\ UNCHANGED <<menuVars, key_on, clearing, mutex, keyVars, oledVars, screen>>
      BY <1>1 DEF Tick
    <3>3. looked' \in BOOLEAN
      BY <3>2
    <3>4. UNCHANGED <<menuVars, key_on, clearing, mutex, keyVars, oledVars, screen>>
      BY <3>2
    <3>5. QED
      BY <2>1, <3>1, <3>3, <3>4 DEF menuVars, keyVars, oledVars
  <2>3. WelcomeQuiet'
    BY <1>1 DEF Tick, menuVars, keyVars
  <2>4. QED
    BY <1>1, <2>2, <2>3 DEF Tick, menuVars, oledVars
<1>2. CASE SysLook
  BY <1>2 DEF SysLook, CounterKept, menuVars, keyVars, oledVars
<1>3. CASE SysTimeout
  <2>1. counter' \in 0 .. Minute - 1
    BY <1>3 DEF SysTimeout, CounterKept
  <2>2. screen' \in (SUBSET Page) \cup {Garbled}
    BY <1>3 DEF SysTimeout
  <2>3. TypeOK'
    <3>1. flag' \in BOOLEAN /\ key_on' \in BOOLEAN /\ clearing' \in BOOLEAN /\ looked' \in BOOLEAN
      BY <1>3 DEF SysTimeout
    <3>2. current_index' \in Page
      BY <1>3 DEF SysTimeout, Page
    <3>3. UNCHANGED <<add_flag, param, mutex, keyVars, oledVars>>
      BY <1>3 DEF SysTimeout
    <3>4. asked' \in Param \cup {"none", "strayed"}
      BY <1>3 DEF SysTimeout, Stray
    <3>5. QED
      BY <2>1, <2>2, <3>1, <3>2, <3>3, <3>4 DEF keyVars, oledVars
  <2>4. WelcomeQuiet'
    BY <1>3 DEF SysTimeout, keyVars
  <2>5. QED
    BY <1>3, <2>3, <2>4 DEF SysTimeout, oledVars
<1>4. CASE SysCleared
  <2>1. screen' \in (SUBSET Page) \cup {Garbled}
    BY <1>4 DEF SysCleared
  <2>2. clearing' \in BOOLEAN
    BY <1>4 DEF SysCleared
  <2>3. UNCHANGED <<menuVars, key_on, timeVars, mutex, keyVars, oledVars>>
    BY <1>4 DEF SysCleared
  <2>4. TypeOK'
    BY <2>1, <2>2, <2>3 DEF menuVars, timeVars, keyVars, oledVars
  <2>5. QED
    BY <2>3, <2>4 DEF menuVars, timeVars, keyVars, oledVars
<1>5. ASSUME NEW k \in Key, Press(k)
      PROVE  IInv'
  <2>1. /\ param' \in [Param -> Nat]
        /\ \A p \in Param : param'[p] < Limit[p]
        /\ add_flag' \in BOOLEAN
    BY <1>5 DEF Press, Effect, Restores, Zeroes
  <2>2. asked' \in Param \cup {"none", "strayed"}
    BY <1>5, ParamOfPage DEF Press, Effect, Adds, Stray
  <2>3. QED
    BY <1>5, <2>1, <2>2 DEF Press, oledVars
<1>6. CASE Lookup
  BY <1>6, PageAfterIsPage DEF Lookup, menuVars, timeVars, oledVars
<1>7. CASE Store
  BY <1>7 DEF Store, timeVars, oledVars, Page
<1>8. CASE StartDraw
  BY <1>8 DEF StartDraw, menuVars, timeVars, keyVars
<1>9. CASE Dispatch
  BY <1>9 DEF Dispatch, menuVars, timeVars, keyVars
<1>10. CASE Compare
  BY <1>10 DEF Compare, Garbled, menuVars, timeVars, keyVars
<1>11. CASE Mark
  BY <1>11 DEF Mark, menuVars, timeVars, keyVars
<1>12. CASE Paint
  <2>1. screen' \in (SUBSET Page) \cup {Garbled}
    BY <1>12 DEF Paint, Painted, Garbled
  <2>2. QED
    BY <1>12, <2>1 DEF Paint, menuVars, timeVars, keyVars
<1>13. CASE Add
  <2>1. ASSUME add_flag, current_index \in Family(page)
        PROVE  /\ [param EXCEPT ![ParamOf[current_index]] = Bump(ParamOf[current_index])]
                    \in [Param -> Nat]
               /\ \A p \in Param :
                    [param EXCEPT ![ParamOf[current_index]] = Bump(ParamOf[current_index])][p]
                      < Limit[p]
    <3>1. ParamOf[current_index] \in Param
      BY <1>13, <2>1, FamilyOfParamPage, ParamOfPage DEF Add
    <3>2. /\ Bump(ParamOf[current_index]) \in Nat
          /\ Bump(ParamOf[current_index]) < Limit[ParamOf[current_index]]
      BY <3>1, BumpInRange
    <3>3. QED
      BY <3>1, <3>2
  <2>2. param' \in [Param -> Nat] /\ \A p \in Param : param'[p] < Limit[p]
    BY <1>13, <2>1 DEF Add
  <2>3. QED
    BY <1>13, <2>2 DEF Add, timeVars, keyVars
<1>14. CASE UNCHANGED vars
  BY <1>14 DEF vars, menuVars, timeVars, keyVars, oledVars
<1>15. QED
  BY <1>1, <1>2, <1>3, <1>4, <1>5, <1>6, <1>7, <1>8, <1>9, <1>10, <1>11, <1>12, <1>13, <1>14
     DEF Next, Sys, KeyMoves, Oled

LEMMA Invariance == Spec => []IInv
  BY InitEstablishes, NextPreserves, PTL DEF Spec

-----------------------------------------------------------------------------
(* Every variable of the panel keeps its type: the table never leads out   *)
(* of its own pages, whatever page sys_thread puts in.                     *)
THEOREM TypeCorrect == Spec => []TypeOK
  BY Invariance, PTL DEF IInv

(* The parameters stay below their limits for every set of limits and      *)
(* defaults, in spite of additions meant for another page.                 *)
THEOREM ParameterRanges == Spec => []ParamsInRange
  BY Invariance, PTL DEF IInv

(* The welcome page does not return, for every length of the minute.       *)
THEOREM WelcomeGone == Spec => WelcomeOnlyAtStart
<1>1. IInv /\ [Next]_vars
        => [current_index # WELCOME_PAGE => current_index' # WELCOME_PAGE]_vars
  <2> SUFFICES ASSUME IInv, Next, current_index # WELCOME_PAGE
               PROVE  current_index' # WELCOME_PAGE
    OBVIOUS
  <2>1. current_index' \in {current_index, MAIN_PAGE} \/ (Store /\ current_index' = next)
    BY DEF Next, Sys, KeyMoves, Oled, Tick, SysLook, SysTimeout, SysCleared, Press,
           Lookup, Store, StartDraw, Dispatch, Compare, Mark, Paint, Add, menuVars
  <2>2. QED
    BY <2>1 DEF IInv, WelcomeQuiet
<1>2. QED
  BY Invariance, <1>1, PTL DEF Spec, WelcomeOnlyAtStart

-----------------------------------------------------------------------------
(* The glass.  While oled_thread draws and no timeout strikes, the page it *)
(* draws is the current page and nothing outside that page's family is on  *)
(* the glass; while key_thread moves, key_on is set.                       *)

MutexHeld ==
  /\ opc # "sleep" <=> mutex = "oled"
  /\ key # NoKey \/ next # NoPage => mutex = "key"
  /\ key = NoKey \/ next = NoPage
  /\ mutex = "key" => key_on

Undisturbed ==
  /\ opc \in {"compare", "mark", "paint", "add"} => page = current_index
  /\ opc \in {"sleep", "dispatch", "compare"} => screen \subseteq {pre_index}
  /\ opc \in {"mark", "paint"} => screen \subseteq Family(page)
  /\ opc = "paint" => pre_index = current_index /\ ~clearing
  /\ opc = "add" => screen = {current_index} /\ pre_index = current_index /\ ~clearing
  /\ opc = "sleep" /\ ~key_on => screen = {current_index} /\ ~clearing

GInv == MutexHeld /\ (screen # Garbled => Undisturbed)

LEMMA InitDrawing == Init => GInv
  BY DEF Init, GInv, MutexHeld, Undisturbed

LEMMA NextDrawing == GInv /\ [Next]_vars => GInv'
<1> SUFFICES ASSUME GInv, [Next]_vars
             PROVE  GInv'
  OBVIOUS
<1> USE DEF GInv, MutexHeld, Undisturbed
<1>1. CASE Tick
  BY <1>1 DEF Tick, menuVars, keyVars, oledVars, Family
<1>2. CASE SysLook
  BY <1>2 DEF SysLook, menuVars, keyVars, oledVars, Family
<1>3. CASE SysTimeout
  BY <1>3 DEF SysTimeout, keyVars, oledVars, Family
<1>4. CASE SysCleared
  BY <1>4 DEF SysCleared, menuVars, keyVars, oledVars, Family
<1>5. ASSUME NEW k \in Key, Press(k)
      PROVE  GInv'
  BY <1>5 DEF Press, oledVars, Family
<1>6. CASE Lookup
  BY <1>6 DEF Lookup, menuVars, oledVars, Family
<1>7. CASE Store
  BY <1>7 DEF Store, oledVars, Family
<1>8. CASE StartDraw
  BY <1>8 DEF StartDraw, menuVars, keyVars, Family
<1>9. CASE Dispatch
  BY <1>9 DEF Dispatch, menuVars, keyVars, Family
<1>10. CASE Compare
  <2>1. ASSUME screen' # Garbled
        PROVE  page' = current_index /\ screen' \subseteq Family(page')
    <3>1. CASE pre_index \in Span
      <4>1. page = current_index /\ screen \subseteq {pre_index}
        BY <1>10, <2>1, <3>1 DEF Compare
      <4>2. page' = page
        BY <1>10, <4>1 DEF Compare
      <4>3. Span = Family(page)
        BY <4>1 DEF Span
      <4>4. QED
        BY <1>10, <3>1, <4>1, <4>2, <4>3 DEF Compare, menuVars
    <3>2. CASE pre_index \notin Span
      BY <1>10, <2>1, <3>2 DEF Compare, menuVars
    <3>3. QED
      BY <3>1, <3>2
  <2>2. QED
    BY <1>10, <2>1 DEF Compare, menuVars, keyVars
<1>11. CASE Mark
  BY <1>11 DEF Mark, menuVars, keyVars, Family
<1>12. CASE Paint
  <2>1. ASSUME screen' # Garbled
        PROVE  /\ page = current_index
               /\ pre_index = current_index
               /\ screen' = {current_index}
               /\ ~clearing
    BY <1>12, <2>1 DEF Paint, Painted
  <2>2. QED
    BY <1>12, <2>1 DEF Paint, menuVars, keyVars
<1>13. CASE Add
  BY <1>13 DEF Add, keyVars
<1>14. CASE UNCHANGED vars
  BY <1>14 DEF vars, menuVars, timeVars, keyVars, oledVars, Family
<1>15. QED
  BY <1>1, <1>2, <1>3, <1>4, <1>5, <1>6, <1>7, <1>8, <1>9, <1>10, <1>11, <1>12, <1>13, <1>14
     DEF Next, Sys, KeyMoves, Oled

(* Whatever keys are pressed and whenever sys_thread interferes: unless    *)
(* its clear_oled and a drawing overlapped, no old page is left on the     *)
(* glass, and once nothing is asked for it shows the current page.         *)
THEOREM GlassShowsCurrentPage == Spec => []ShowsCurrentPage
<1>1. GInv => ShowsCurrentPage
  BY DEF GInv, MutexHeld, Undisturbed, ShowsCurrentPage, Settled
<1>2. QED
  BY InitDrawing, NextDrawing, <1>1, PTL DEF Spec

\* Whoever holds i2c_mutex is at a place from which it goes on to give it back.
HolderGoesOn ==
  /\ mutex = "key" => key # NoKey \/ next # NoPage
  /\ mutex = "oled" => opc # "sleep"
  /\ opc # "sleep" => mutex = "oled" /\ key = NoKey /\ next = NoPage

(* i2c_mutex is never kept by a thread that has finished with it, whatever *)
(* key acted, and a key never looks up or stores a page while another      *)
(* thread draws: what RedrawServed needs besides fairness.                 *)
THEOREM MutexGivenBack == Spec => []HolderGoesOn
<1> DEFINE Inv == MutexHeld /\ HolderGoesOn
<1>1. Init => Inv
  BY DEF Init, MutexHeld, HolderGoesOn
<1>2. IInv /\ GInv /\ GInv' /\ Inv /\ [Next]_vars => Inv'
  <2> SUFFICES ASSUME IInv, GInv', Inv, [Next]_vars
               PROVE  mutex' = "key" => key' # NoKey \/ next' # NoPage
    BY DEF GInv, MutexHeld, HolderGoesOn
  <2> USE DEF MutexHeld, HolderGoesOn
  <2>1. ASSUME NEW k \in Key, Press(k)
        PROVE  mutex' = "key" => key' # NoKey \/ next' # NoPage
    BY <2>1 DEF Press, Moves, NoKey
  <2>2. CASE Lookup
    <3>1. PageAfter \in Page
      BY PageAfterIsPage DEF IInv, TypeOK
    <3>2. QED
      BY <2>2, <3>1 DEF Lookup, Page
  <2>3. CASE Store
    BY <2>3 DEF Store
  <2>4. CASE Tick \/ Sys \/ UNCHANGED vars
    BY <2>4 DEF Tick, Sys, SysLook, SysTimeout, SysCleared, vars, keyVars
  <2>5. CASE Oled
    BY <2>5 DEF Oled, StartDraw, Dispatch, Compare, Mark, Paint, Add, keyVars
  <2>6. QED
    BY <2>1, <2>2, <2>3, <2>4, <2>5 DEF Next, KeyMoves
<1>3. QED
  BY <1>1, <1>2, Invariance, InitDrawing, NextDrawing, PTL DEF Spec

-----------------------------------------------------------------------------
(* The way home.                                                           *)

\* Not on the pages that wait for a key.
Away == current_index \notin {WELCOME_PAGE, MAIN_PAGE}

\* The ticks that are left before sys_thread goes home.
TicksLeft == IF flag THEN 0 ELSE Minute - counter

(* Away from MAIN_PAGE every tick brings the time-out closer, nothing but a *)
(* key puts it off, and once it is due it stays due until sys_thread goes   *)
(* home; and only a key's page leads away again.  sys_thread restarts       *)
(* _1min_counter in each of its turns, but on the first two pages only:     *)
(* what IdleReturnsToMain needs besides fairness.                           *)
THEOREM TimeoutComesCloser ==
  Spec => [][/\ Away /\ Away' /\ ~(\E k \in Key : Press(k)) =>
                  /\ TicksLeft' <= TicksLeft
                  /\ Tick /\ ~flag => TicksLeft' < TicksLeft
             /\ ~Away /\ Away' => next # NoPage]_vars
<1>1. ASSUME IInv, [Next]_vars, Away, Away', ~(\E k \in Key : Press(k))
      PROVE  /\ TicksLeft' <= TicksLeft
             /\ Tick /\ ~flag => TicksLeft' < TicksLeft
  <2>1. Minute \in Nat \ {0, 1} /\ counter \in 0 .. Minute - 1 /\ flag \in BOOLEAN
    BY <1>1, PanelAssumption DEF IInv, TypeOK, PanelAssumption
  <2>2. CASE Tick
    BY <2>1, <2>2 DEF Tick, TicksLeft
  <2>3. ASSUME ~Tick
        PROVE  UNCHANGED <<counter, flag>>
    <3>1. CASE SysLook
      BY <1>1, <3>1 DEF SysLook, CounterKept, Away
    <3>2. CASE SysTimeout
      BY <1>1, <3>2 DEF SysTimeout, Away
    <3>3. CASE SysCleared
      BY <3>3 DEF SysCleared, timeVars
    <3>4. CASE KeyMoves
      BY <3>4 DEF KeyMoves, Lookup, Store, timeVars
    <3>5. CASE Oled
      BY <3>5 DEF Oled, StartDraw, Dispatch, Compare, Mark, Paint, Add, timeVars
    <3>6. CASE UNCHANGED vars
      BY <3>6 DEF vars, timeVars
    <3>7. QED
      BY <1>1, <2>3, <3>1, <3>2, <3>3, <3>4, <3>5, <3>6 DEF Next, Sys
  <2>4. QED
    BY <2>1, <2>2, <2>3 DEF TicksLeft
<1>2. ASSUME [Next]_vars, ~Away, Away'
      PROVE  next # NoPage
  <2>1. CASE Store
    BY <2>1 DEF Store
  <2>2. CASE SysTimeout
    BY <1>2, <2>2 DEF SysTimeout, Away
  <2>3. ASSUME ~Store, ~SysTimeout
        PROVE  UNCHANGED current_index
    BY <1>2, <2>3 DEF Next, Tick, Sys, SysLook, SysCleared, Press, KeyMoves, Lookup, Oled,
                      StartDraw, Dispatch, Compare, Mark, Paint, Add, vars, menuVars
  <2>4. QED
    BY <1>2, <2>1, <2>2, <2>3 DEF Away
<1>3. QED
  BY <1>1, <1>2, Invariance, PTL DEF Spec

-----------------------------------------------------------------------------
(* add_flag.  As long as the page on which DOWN was pressed is not left,   *)
(* no key is on its way to another page and a drawing is one of that page. *)

AskedHere ==
  /\ add_flag <=> asked # "none"
  /\ asked \in Param =>
       /\ current_index \in ParamPage
       /\ ParamOf[current_index] = asked
       /\ key = NoKey /\ next = NoPage
       /\ opc \in {"compare", "mark", "paint", "add"} => page = current_index

AInv == MutexHeld /\ AskedHere

\* What the history says besides a parameter is none.
LEMMA NoParam == "none" \notin Param /\ "strayed" \notin Param
  BY PanelAssumption DEF PanelAssumption

LEMMA StrayIsNoParam ==
  /\ Stray \notin Param
  /\ Stray # "none" <=> asked # "none"
  BY NoParam DEF Stray

LEMMA InitAsked == Init => AInv
  BY NoParam DEF Init, AInv, MutexHeld, AskedHere

LEMMA NextAsked == GInv /\ AInv /\ [Next]_vars => AInv'
<1> SUFFICES ASSUME GInv, AInv, [Next]_vars
             PROVE  AInv'
  OBVIOUS
<1>0. MutexHeld'
  BY NextDrawing DEF GInv
<1> SUFFICES AskedHere'
  BY <1>0 DEF AInv
<1> USE DEF AInv, AskedHere
<1>1. CASE Tick
  BY <1>1 DEF Tick, menuVars, keyVars, oledVars
<1>2. CASE SysLook
  BY <1>2 DEF SysLook, menuVars, keyVars, oledVars
<1>3. CASE SysTimeout
  BY <1>3, StrayIsNoParam DEF SysTimeout
<1>4. CASE SysCleared
  BY <1>4 DEF SysCleared, menuVars, keyVars, oledVars
<1>5. ASSUME NEW k \in Key, Press(k)
      PROVE  AskedHere'
  <2>1. /\ opc = "sleep" /\ next = NoPage /\ key = NoKey
        /\ UNCHANGED <<current_index, next, opc, page>>
    BY <1>5 DEF Press, oledVars, MutexHeld
  <2>2. CASE Adds(k)
    <3>1. /\ add_flag' = TRUE /\ asked' = ParamOf[current_index]
          /\ key' = NoKey /\ current_index \in ParamPage
      BY <1>5, <2>2 DEF Press, Effect, Adds, Moves
    <3>2. asked' # "none"
      BY <3>1, ParamOfPage, NoParam
    <3>3. QED
      BY <2>1, <3>1, <3>2
  <2>3. CASE ~Adds(k) /\ Moves(k)
    BY <1>5, <2>3, StrayIsNoParam DEF Press, Effect
  <2>4. CASE ~Adds(k) /\ ~Moves(k)
    BY <1>5, <2>1, <2>4 DEF Press, Effect
  <2>5. QED
    BY <2>2, <2>3, <2>4
<1>6. CASE Lookup
  BY <1>6 DEF Lookup, menuVars
<1>7. CASE Store
  BY <1>7 DEF Store
<1>8. CASE StartDraw
  BY <1>8 DEF StartDraw, menuVars, keyVars
<1>9. CASE Dispatch
  BY <1>9 DEF Dispatch, menuVars, keyVars
<1>10. CASE Compare
  BY <1>10 DEF Compare, menuVars, keyVars
<1>11. CASE Mark
  BY <1>11 DEF Mark, menuVars, keyVars
<1>12. CASE Paint
  BY <1>12 DEF Paint, menuVars, keyVars
<1>13. CASE Add
  BY <1>13, NoParam DEF Add
<1>14. CASE UNCHANGED vars
  BY <1>14 DEF vars, menuVars, keyVars, oledVars
<1>15. QED
  BY <1>1, <1>2, <1>3, <1>4, <1>5, <1>6, <1>7, <1>8, <1>9, <1>10, <1>11, <1>12, <1>13, <1>14
     DEF Next, Sys, KeyMoves, Oled

\* A parameter page is drawn among its own.
LEMMA OwnFamily ==
  ASSUME NEW p \in ParamPage
  PROVE  p \in Family(p)
<1>1. p \in 7 .. 11
  BY DEF ParamPage, SensorPage, OledPage
<1>2. /\ p \in 7 .. 9 => Family(p) = 7 .. 9
      /\ p \in 10 .. 11 => Family(p) = 10 .. 11
  BY <1>1 DEF Family, table_op, table_rows, Page
<1>3. QED
  BY <1>1, <1>2

\* In range, the draw's wrap is one step.
LEMMA BumpIsOneStep ==
  ASSUME NEW p \in Param, param \in [Param -> Nat], param[p] < Limit[p]
  PROVE  Bump(p) = StepOf(p)
<1>1. param[p] \in Nat /\ Limit[p] \in Nat
  BY PanelAssumption DEF PanelAssumption
<1>2. QED
  BY <1>1 DEF Bump, StepOf

(* Whatever keys follow and whenever the minute passes: a drawing advances *)
(* the parameter DOWN was pressed on by one step, unless its page was left *)
(* before, and without a press none.                                       *)
THEOREM AddsWhatWasAsked == Spec => AdvancesAsAsked
<1>1. IInv /\ AInv /\ [Next]_vars
        => [opc = "add" /\ opc' = "sleep" =>
              /\ asked \in Param => param' = [param EXCEPT ![asked] = StepOf(asked)]
              /\ asked = "none" => param' = param]_vars
  <2> SUFFICES ASSUME IInv, AInv, Next, opc = "add", opc' = "sleep"
               PROVE  /\ asked \in Param => param' = [param EXCEPT ![asked] = StepOf(asked)]
                      /\ asked = "none" => param' = param
    OBVIOUS
  <2>1. Add
    BY DEF Next, Sys, KeyMoves, Oled, Tick, SysLook, SysTimeout, SysCleared, Press,
           Lookup, Store, StartDraw, Dispatch, Compare, Mark, Paint, oledVars
  <2>2. ASSUME asked \in Param
        PROVE  param' = [param EXCEPT ![asked] = StepOf(asked)]
    <3>1. add_flag /\ page = current_index /\ current_index \in ParamPage
      BY <2>2, NoParam DEF AInv, AskedHere
    <3>2. current_index \in Family(page) /\ ParamOf[current_index] = asked
      BY <2>2, <3>1, OwnFamily DEF AInv, AskedHere
    <3>3. Bump(asked) = StepOf(asked)
      BY <2>2, BumpIsOneStep DEF IInv, TypeOK, ParamsInRange
    <3>4. QED
      BY <2>1, <3>1, <3>2, <3>3 DEF Add
  <2>3. ASSUME asked = "none"
        PROVE  param' = param
    BY <2>1, <2>3 DEF Add, AInv, AskedHere
  <2>4. QED
    BY <2>2, <2>3
<1>2. QED
  BY Invariance, InitDrawing, NextDrawing, InitAsked, NextAsked, <1>1, PTL
     DEF Spec, AdvancesAsAsked
=============================================================================
