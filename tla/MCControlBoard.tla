---------------------------- MODULE MCControlBoard ----------------------------
(* The three parts of the control board for TLC: KeyScan, ControlPanel and      *)
(* ParamStore. They share no state; a behaviour is one of a single part, and in *)
(* those of the other two the panel draws its first page and rests.             *)
EXTENDS KeyScan, ControlPanel, ParamStore

\* ENTER_KEY, DOWN_KEY and both keys together.
NoKeyEnterDownBoth == {0, 1, 2, 3}

\* One parameter counts up to 2, from a default that is not 0; the other four,
\* which the same code treats alike, have the limit 1.
MCLimit == [p \in Param |-> IF p = "distance" THEN 2 ELSE 1]
MCDefault == [p \in Param |-> IF p = "distance" THEN 1 ELSE 0]

VARIABLE part  \* the part a behaviour is one of

boardVars == <<vars, scanVars, storeVars, part>>

BoardInit == ScanInit /\ Init /\ StoreInit /\ part \in {"keys", "panel", "store"}

FirstPageDrawn == opc = "sleep" /\ ~key_on

PanelDoes(step) == step /\ UNCHANGED <<scanVars, storeVars, part>>

KeysGo == part = "keys" /\ FirstPageDrawn /\ ScanNext /\ UNCHANGED <<vars, storeVars, part>>
StoreGoes == part = "store" /\ FirstPageDrawn /\ StoreNext /\ UNCHANGED <<vars, scanVars, part>>
PanelGoes == PanelDoes(IF part = "panel" THEN Next ELSE Oled)

(* ControlPanel's fairness, for the part that is it.                            *)
PanelFairness ==
  /\ SF_boardVars(PanelDoes(Oled))
  /\ part = "panel" =>
       /\ WF_boardVars(PanelDoes(Tick))
       /\ WF_boardVars(PanelDoes(Sys))
       /\ WF_boardVars(PanelDoes(KeyMoves))

BoardSpec ==
  BoardInit /\ [][KeysGo \/ PanelGoes \/ StoreGoes]_boardVars /\ PanelFairness
===============================================================================
