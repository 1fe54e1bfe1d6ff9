------------------------------ MODULE KeyScan ------------------------------
(***************************************************************************)
(* The key automaton of the control panel: key_scan and the part of        *)
(* key_status that decides when a key acts                                 *)
(* (IoT/coap_control_board/src/coap_client_button.c).                      *)
(*                                                                         *)
(* One step is one turn of key_thread: key_scan samples the four keys into *)
(* key_bit and advances the automaton, then key_status lets the key act    *)
(* when the automaton is back in KEY_CHECK.  What the key does is in       *)
(* ControlPanel.                                                           *)
(***************************************************************************)
EXTENDS Integers

CONSTANTS
  KeyBits,   \* the values key_bit takes, one bit for each key
  LongCount  \* 100: equal samples after which a press is long

KeyAssumption ==
  /\ KeyBits \subseteq Nat
  /\ 0 \in KeyBits
  /\ LongCount \in Nat /\ LongCount >= 20

ASSUME KeyAssumption

VARIABLES
  state, action,    \* key_op
  time_cnt, lock,   \* statics of key_scan
  current_key_bit,  \* the key whose press is being timed
  performed,        \* the key that acted in the last turn (0: none)
  sample, run, gap  \* history: the last sample, how long it has lasted, and
                    \* how long all keys were up before it

opVars == <<state, action, performed>>
pressVars == <<time_cnt, lock>>
scanVars == <<opVars, pressVars, current_key_bit, sample, run, gap>>

KEY_STATE == {"KEY_CHECK", "KEY_COMFIRM", "KEY_RELEASE"}
KEY_ACTION == {"KEY_NULL", "KEY_SHORT", "KEY_LONG"}

\* The history counts no further than this.
MaxRun == LongCount + 2

ScanTypeOK ==
  /\ state \in KEY_STATE
  /\ action \in KEY_ACTION
  /\ time_cnt \in 0 .. LongCount
  /\ lock \in BOOLEAN
  /\ current_key_bit \in KeyBits
  /\ performed \in KeyBits
  /\ sample \in KeyBits
  /\ run \in 1 .. MaxRun
  /\ gap \in 0 .. 2

ScanInit ==
  /\ state = "KEY_CHECK"
  /\ action = "KEY_NULL"
  /\ time_cnt = 0
  /\ lock = FALSE
  /\ current_key_bit = 0
  /\ performed = 0
  /\ sample = 0
  /\ run = 1
  /\ gap = 0

\* History of the samples.  gap is how many of them were 0 just before the
\* current run of a key.
Observe(key_bit) ==
  /\ sample' = key_bit
  /\ run' = IF key_bit # sample THEN 1 ELSE IF run < MaxRun THEN run + 1 ELSE run
  /\ gap' = IF key_bit = 0 \/ key_bit = sample THEN gap
            ELSE IF sample # 0 THEN 0 ELSE IF run < 2 THEN run ELSE 2

\* Fault: the action is not used up.
KeyStatusKeeps(act) ==
  /\ performed' = IF state' = "KEY_CHECK" /\ act = "KEY_SHORT" THEN current_key_bit' ELSE 0
  /\ action' = act

\* key_status after key_scan left the action act: in KEY_CHECK a short press
\* acts, and every action is cleared.
KeyStatus(act) ==
  IF state' = "KEY_CHECK"
  THEN /\ performed' = IF act = "KEY_SHORT" THEN current_key_bit' ELSE 0
       /\ action' = "KEY_NULL"
  ELSE /\ performed' = 0
       /\ action' = act

\* Fault: the count and the lock of the last press are kept.
CheckKeepsCount(key_bit) ==
  /\ state = "KEY_CHECK"
  /\ IF key_bit # 0
     THEN state' = "KEY_COMFIRM" /\ current_key_bit' = key_bit
     ELSE UNCHANGED <<state, current_key_bit>>
  /\ UNCHANGED pressVars
  /\ KeyStatus(action)
  /\ Observe(key_bit)

Check(key_bit) ==
  /\ state = "KEY_CHECK"
  /\ IF key_bit # 0
     THEN state' = "KEY_COMFIRM" /\ current_key_bit' = key_bit
     ELSE UNCHANGED <<state, current_key_bit>>
  /\ time_cnt' = 0
  /\ lock' = FALSE
  /\ KeyStatus(action)
  /\ Observe(key_bit)

\* Fault: the count is tested before it is advanced.
HoldTooLong(key_bit) ==
  /\ state = "KEY_COMFIRM"
  /\ key_bit # 0
  /\ key_bit = current_key_bit
  /\ UNCHANGED current_key_bit
  /\ IF time_cnt > LongCount
     THEN /\ state' = "KEY_RELEASE"
          /\ time_cnt' = 0
          /\ lock' = FALSE
          /\ KeyStatus("KEY_LONG")
     ELSE /\ UNCHANGED state
          /\ time_cnt' = time_cnt + 1
          /\ lock' = TRUE
          /\ KeyStatus(action)
  /\ Observe(key_bit)

\* The same key is down in the next sample.
Hold(key_bit) ==
  /\ state = "KEY_COMFIRM"
  /\ key_bit # 0
  /\ key_bit = current_key_bit
  /\ UNCHANGED current_key_bit
  /\ IF time_cnt + 1 > LongCount
     THEN /\ state' = "KEY_RELEASE"
          /\ time_cnt' = 0
          /\ lock' = FALSE
          /\ KeyStatus("KEY_LONG")
     ELSE /\ UNCHANGED state
          /\ time_cnt' = time_cnt + 1
          /\ lock' = TRUE
          /\ KeyStatus(action)
  /\ Observe(key_bit)

\* Another key joined or replaced the first one.
ChangeKey(key_bit) ==
  /\ state = "KEY_COMFIRM"
  /\ key_bit \notin {0, current_key_bit}
  /\ state' = "KEY_CHECK"
  /\ UNCHANGED <<pressVars, current_key_bit>>
  /\ KeyStatus(action)
  /\ Observe(key_bit)

\* Fault: one sample is enough for a press.
LetGoUnlocked(key_bit) ==
  /\ state = "KEY_COMFIRM"
  /\ key_bit = 0
  /\ state' = "KEY_RELEASE"
  /\ UNCHANGED <<pressVars, current_key_bit>>
  /\ KeyStatus("KEY_SHORT")
  /\ Observe(key_bit)

\* The key is up: a short press, or a bounce when it was seen only once.
LetGo(key_bit) ==
  /\ state = "KEY_COMFIRM"
  /\ key_bit = 0
  /\ UNCHANGED <<pressVars, current_key_bit>>
  /\ IF lock
     THEN state' = "KEY_RELEASE" /\ KeyStatus("KEY_SHORT")
     ELSE state' = "KEY_CHECK" /\ KeyStatus(action)
  /\ Observe(key_bit)

Release(key_bit) ==
  /\ state = "KEY_RELEASE"
  /\ state' = IF key_bit = 0 \/ action = "KEY_LONG" THEN "KEY_CHECK" ELSE state
  /\ UNCHANGED <<pressVars, current_key_bit>>
  /\ KeyStatus(action)
  /\ Observe(key_bit)

ScanNext == \E key_bit \in KeyBits :
          Check(key_bit) \/ Hold(key_bit) \/ ChangeKey(key_bit)
            \/ LetGo(key_bit) \/ Release(key_bit)

ScanSpec == ScanInit /\ [][ScanNext]_scanVars

-----------------------------------------------------------------------------
(* Properties.                                                             *)

TakesShort == action # "KEY_SHORT" /\ action' = "KEY_SHORT"

(* No bounce acts: a short press is taken only when its key was seen alone *)
(* in at least two samples in a row and was then seen up (key_scan's lock).*)
ShortIsDebounced ==
  [][TakesShort => sample' = 0 /\ sample = current_key_bit /\ run >= 2]_scanVars

(* The comment at key_scan: 6 to 20 samples, 60 ms to 200 ms, are a short  *)
(* press.                                                                  *)
ShortPress == 6 .. 20

(* No short press is lost: a key pressed after all keys were up for two    *)
(* samples and held alone for as long as the comment says is taken when it *)
(* is let go, whatever was pressed before.                                 *)
PressIsTaken ==
  [][sample # 0 /\ gap = 2 /\ run \in ShortPress /\ sample' = 0
       => TakesShort]_scanVars

(* A taken press acts once, with all keys up: the turn in which it acts    *)
(* uses it up, and while any key is down the menu does not move.           *)
ActsWhenUp ==
  [][performed' # 0
       => sample' = 0 /\ action = "KEY_SHORT" /\ action' = "KEY_NULL"]_scanVars

(* The comment at KEY_RELEASE: all keys are 0, the key was released, back  *)
(* to the first state.                                                     *)
CheckMeansReleased ==
  [][state = "KEY_RELEASE" /\ state' = "KEY_CHECK" => sample' = 0]_scanVars
=============================================================================
