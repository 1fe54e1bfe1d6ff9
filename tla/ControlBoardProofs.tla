------------------------ MODULE ControlBoardProofs ------------------------
(***************************************************************************)
(* Proofs about two parts of the control board that share no state: its    *)
(* keys (KeyScan, for every LongCount and every set of key bits) and its   *)
(* parameter store (ParamStore).                                           *)
(*                                                                         *)
(* What the automaton knows about a press is compared with the history of  *)
(* the contacts (Timed): it is in KEY_CHECK after two samples without a    *)
(* key, and while a press is timed its count is the length of the run.     *)
(*                                                                         *)
(* The store is followed through a start: what flash holds between two of  *)
(* the three writes (Written), and what the RAM copies hold at the end     *)
(* (Copied).                                                               *)
(***************************************************************************)
EXTENDS KeyScan, ParamStore, TLAPS

\* An action is pending only until KEY_CHECK is reached.
Pending ==
  /\ state \in {"KEY_CHECK", "KEY_COMFIRM"} => action = "KEY_NULL"
  /\ state = "KEY_RELEASE" => action \in {"KEY_SHORT", "KEY_LONG"}

Timed ==
  /\ state = "KEY_COMFIRM" => sample = current_key_bit /\ sample # 0 /\ (lock = TRUE => run >= 2)
  /\ sample = 0 /\ run >= 2 => state = "KEY_CHECK"
  /\ sample # 0 /\ gap = 2 /\ run <= LongCount + 1 =>
       /\ state = "KEY_COMFIRM"
       /\ time_cnt = run - 1
       /\ run >= 2 => lock = TRUE

IInv == ScanTypeOK /\ Pending /\ Timed

LEMMA InitEstablishes == ScanInit => IInv
<1> SUFFICES ASSUME ScanInit
             PROVE  IInv
  OBVIOUS
<1> USE KeyAssumption DEF KeyAssumption, ScanInit
<1>1. ScanTypeOK
  <2>1. lock \in BOOLEAN /\ state \in KEY_STATE /\ action \in KEY_ACTION
    BY DEF KEY_STATE, KEY_ACTION
  <2>2. /\ time_cnt \in 0 .. LongCount /\ run \in 1 .. MaxRun /\ gap \in 0 .. 2
        /\ current_key_bit \in KeyBits /\ performed \in KeyBits /\ sample \in KeyBits
    BY DEF MaxRun
  <2>3. QED
    BY <2>1, <2>2 DEF ScanTypeOK
<1>2. Pending
  BY DEF Pending
<1>3. Timed
  BY DEF Timed
<1>4. QED
  BY <1>1, <1>2, <1>3 DEF IInv

\* The history of one sample.
LEMMA Observed ==
  ASSUME ScanTypeOK, NEW key_bit \in KeyBits, Observe(key_bit)
  PROVE  /\ sample' \in KeyBits /\ run' \in 1 .. MaxRun /\ gap' \in 0 .. 2
         /\ key_bit # sample => run' = 1
         /\ key_bit = sample => run' >= 2 /\ gap' = gap /\ (run <= LongCount + 1 => run' = run + 1)
         /\ key_bit = sample /\ run' <= LongCount + 1 => run <= LongCount
         /\ key_bit # 0 /\ key_bit # sample /\ gap' = 2 => sample = 0 /\ run >= 2
  BY KeyAssumption DEF KeyAssumption, ScanTypeOK, Observe, MaxRun

LEMMA NextPreserves == IInv /\ [ScanNext]_scanVars => IInv'
<1> SUFFICES ASSUME IInv, [ScanNext]_scanVars
             PROVE  IInv'
  OBVIOUS
<1> USE KeyAssumption DEF KeyAssumption, IInv, KEY_STATE, KEY_ACTION
<1>1. ASSUME NEW b \in KeyBits, Check(b)
      PROVE  IInv'
  <2>1. ScanTypeOK'
    <3>1. /\ state' \in KEY_STATE /\ action' \in KEY_ACTION
          /\ current_key_bit' \in KeyBits /\ performed' \in KeyBits
      BY <1>1 DEF Check, KeyStatus, ScanTypeOK
    <3>2. lock' \in BOOLEAN
      BY <1>1 DEF Check
    <3>3. time_cnt' \in 0 .. LongCount
      BY <1>1 DEF Check, ScanTypeOK
    <3>4. sample' \in KeyBits /\ run' \in 1 .. MaxRun /\ gap' \in 0 .. 2
      BY <1>1, Observed DEF Check
    <3>5. QED
      BY <3>1, <3>2, <3>3, <3>4 DEF ScanTypeOK
  <2>2. Pending'
    BY <1>1 DEF Check, KeyStatus, Pending
  <2>3. Timed'
    <3>1. /\ state = "KEY_CHECK" /\ time_cnt' = 0 /\ lock' = FALSE /\ sample' = b
          /\ b = 0 => state' = state
          /\ b # 0 => state' = "KEY_COMFIRM" /\ current_key_bit' = b
      BY <1>1 DEF Check, Observe
    <3>2. b # sample => run' = 1
      BY <1>1, Observed DEF Check
    <3>3. b # 0 /\ gap' = 2 => b # sample \/ run' > LongCount + 1
      BY <1>1, <3>1, Observed DEF Check, Timed, ScanTypeOK, MaxRun
    <3>4. run' \in 1 .. MaxRun
      BY <1>1, Observed DEF Check
    <3>5. QED
      BY <3>1, <3>2, <3>3, <3>4 DEF Timed, MaxRun
  <2>4. QED
    BY <2>1, <2>2, <2>3
<1>2. ASSUME NEW b \in KeyBits, Hold(b)
      PROVE  IInv'
  <2>1. ScanTypeOK'
    <3>1. /\ state' \in KEY_STATE /\ action' \in KEY_ACTION
          /\ current_key_bit' \in KeyBits /\ performed' \in KeyBits
      BY <1>2 DEF Hold, KeyStatus, ScanTypeOK
    <3>2. lock' \in BOOLEAN
      BY <1>2 DEF Hold
    <3>3. time_cnt' \in 0 .. LongCount
      BY <1>2 DEF Hold, ScanTypeOK
    <3>4. sample' \in KeyBits /\ run' \in 1 .. MaxRun /\ gap' \in 0 .. 2
      BY <1>2, Observed DEF Hold
    <3>5. QED
      BY <3>1, <3>2, <3>3, <3>4 DEF ScanTypeOK
  <2>2. Pending'
    BY <1>2 DEF Hold, KeyStatus, Pending
  <2>3. Timed'
    <3>1. /\ state = "KEY_COMFIRM" /\ b # 0 /\ b = current_key_bit /\ b = sample
          /\ sample' = b /\ current_key_bit' = b
      BY <1>2 DEF Hold, Observe, Timed
    <3>2. /\ run' >= 2 /\ gap' = gap /\ run \in 1 .. MaxRun /\ run' \in 1 .. MaxRun
          /\ run <= LongCount + 1 => run' = run + 1
          /\ run' <= LongCount + 1 => run <= LongCount
      BY <1>2, <3>1, Observed DEF Hold, ScanTypeOK
    <3>3. time_cnt \in 0 .. LongCount
      BY DEF ScanTypeOK
    <3>4. CASE time_cnt + 1 > LongCount
      <4>1. state' = "KEY_RELEASE" /\ lock' = FALSE
        BY <1>2, <3>4 DEF Hold
      <4>2. gap = 2 => run > LongCount
        BY <3>1, <3>2, <3>3, <3>4 DEF Timed, MaxRun
      <4>3. gap' = 2 => run' > LongCount + 1
        BY <3>2, <4>2 DEF MaxRun
      <4>4. QED
        BY <3>1, <3>2, <4>1, <4>3 DEF Timed, MaxRun
    <3>5. CASE ~(time_cnt + 1 > LongCount)
      <4>1. state' = state /\ time_cnt' = time_cnt + 1 /\ lock' = TRUE
        BY <1>2, <3>5 DEF Hold
      <4>2. ASSUME gap' = 2, run' <= LongCount + 1
            PROVE  time_cnt' = run' - 1
        <5>1. gap = 2 /\ sample # 0 /\ run <= LongCount + 1 /\ run \in Nat /\ run' = run + 1
          BY <3>1, <3>2, <4>2 DEF MaxRun
        <5>2. time_cnt = run - 1
          BY <5>1 DEF Timed
        <5>3. time_cnt' = time_cnt + 1
          BY <4>1
        <5>4. QED
          BY <5>1, <5>2, <5>3
      <4>3. QED
        BY <3>1, <3>2, <4>1, <4>2 DEF Timed
    <3>6. QED
      BY <3>4, <3>5
  <2>4. QED
    BY <2>1, <2>2, <2>3
<1>3. ASSUME NEW b \in KeyBits, ChangeKey(b)
      PROVE  IInv'
  <2>1. ScanTypeOK'
    BY <1>3, Observed DEF ChangeKey, KeyStatus, ScanTypeOK, pressVars
  <2>2. Pending'
    BY <1>3 DEF ChangeKey, KeyStatus, Pending
  <2>3. Timed'
    BY <1>3, Observed DEF ChangeKey, Timed, ScanTypeOK, Observe, pressVars
  <2>4. QED
    BY <2>1, <2>2, <2>3
<1>4. ASSUME NEW b \in KeyBits, LetGo(b)
      PROVE  IInv'
  <2>1. ScanTypeOK'
    BY <1>4, Observed DEF LetGo, KeyStatus, ScanTypeOK, pressVars
  <2>2. Pending'
    BY <1>4 DEF LetGo, KeyStatus, Pending
  <2>3. Timed'
    BY <1>4, Observed DEF LetGo, Timed, ScanTypeOK, Observe, pressVars
  <2>4. QED
    BY <2>1, <2>2, <2>3
<1>5. ASSUME NEW b \in KeyBits, Release(b)
      PROVE  IInv'
  <2>1. ScanTypeOK'
    BY <1>5, Observed DEF Release, KeyStatus, ScanTypeOK, pressVars
  <2>2. Pending'
    BY <1>5 DEF Release, KeyStatus, Pending
  <2>3. Timed'
    BY <1>5, Observed DEF Release, Timed, ScanTypeOK, Observe, pressVars
  <2>4. QED
    BY <2>1, <2>2, <2>3
<1>6. CASE UNCHANGED scanVars
  BY <1>6 DEF scanVars, opVars, pressVars, ScanTypeOK, Pending, Timed, MaxRun
<1>7. QED
  BY <1>1, <1>2, <1>3, <1>4, <1>5, <1>6 DEF ScanNext

LEMMA Invariance == ScanSpec => []IInv
  BY InitEstablishes, NextPreserves, PTL DEF ScanSpec

-----------------------------------------------------------------------------
(* The count stops at LongCount, and every other variable keeps its type.  *)
THEOREM TypeCorrect == ScanSpec => []ScanTypeOK
  BY Invariance, PTL DEF IInv

(* However the contacts bounce and the keys overlap: no short press is     *)
(* taken of a key that was not seen alone in two samples in a row.         *)
THEOREM Debounced == ScanSpec => ShortIsDebounced
<1>1. IInv /\ [ScanNext]_scanVars
        => [TakesShort => sample' = 0 /\ sample = current_key_bit /\ run >= 2]_scanVars
  <2> SUFFICES ASSUME IInv, ScanNext, TakesShort
               PROVE  sample' = 0 /\ sample = current_key_bit /\ run >= 2
    OBVIOUS
  <2>1. PICK b \in KeyBits : LetGo(b) /\ lock
    BY DEF ScanNext, Check, Hold, ChangeKey, LetGo, Release, KeyStatus, TakesShort
  <2>2. QED
    BY <2>1 DEF LetGo, Observe, IInv, Timed
<1>2. QED
  BY Invariance, <1>1, PTL DEF ScanSpec, ShortIsDebounced

(* A press held alone for 6 to 20 samples, after two samples without a     *)
(* key, is taken whatever was pressed before.                              *)
THEOREM NoPressLost == ScanSpec => PressIsTaken
<1>1. IInv /\ [ScanNext]_scanVars
        => [sample # 0 /\ gap = 2 /\ run \in ShortPress /\ sample' = 0
              => TakesShort]_scanVars
  <2> SUFFICES ASSUME IInv, ScanNext, sample # 0, gap = 2, run \in ShortPress, sample' = 0
               PROVE  TakesShort
    OBVIOUS
  <2>1. state = "KEY_COMFIRM" /\ lock /\ action = "KEY_NULL"
    BY KeyAssumption DEF KeyAssumption, IInv, Timed, Pending, ShortPress
  <2>2. LetGo(0)
    BY <2>1 DEF ScanNext, Check, Hold, ChangeKey, LetGo, Release, Observe
  <2>3. QED
    BY <2>1, <2>2 DEF LetGo, KeyStatus, TakesShort
<1>2. QED
  BY Invariance, <1>1, PTL DEF ScanSpec, PressIsTaken

(* A taken press acts with all keys up, and the turn in which it acts uses *)
(* it up.                                                                  *)
THEOREM ActsOnceUp == ScanSpec => ActsWhenUp
<1>1. IInv /\ [ScanNext]_scanVars
        => [performed' # 0
              => sample' = 0 /\ action = "KEY_SHORT" /\ action' = "KEY_NULL"]_scanVars
  <2> SUFFICES ASSUME IInv, ScanNext, performed' # 0
               PROVE  sample' = 0 /\ action = "KEY_SHORT" /\ action' = "KEY_NULL"
    OBVIOUS
  <2>1. PICK b \in KeyBits : Release(b)
    BY DEF ScanNext, Check, Hold, ChangeKey, LetGo, Release, KeyStatus, IInv, Pending
  <2>2. QED
    BY <2>1 DEF Release, KeyStatus, Observe
<1>2. QED
  BY Invariance, <1>1, PTL DEF ScanSpec, ActsWhenUp
-----------------------------------------------------------------------------
(* The parameter store.                                                    *)

FLAG == "FIRST_USAGE_FLAG_ID"
OLED == "OLED_CONFIG_ID"
LIST == "NVS_ID_FULL_WHITELIST"

\* As long as nothing went wrong the three records are in flash together,
\* except between the writes of the first start.
Written ==
  /\ pc = "save_flag" /\ mounted => FLAG \notin flash \/ start = "misread"
  /\ start # "first" => FLAG \in flash
  /\ pc \in {"mount", "load"} => start = IF FLAG \in flash THEN "later" ELSE "first"
  /\ ~cut /\ ~failed =>
       \/ flash = {} \/ flash = Id
       \/ pc = "save_oled" /\ mounted /\ flash = {FLAG}
       \/ pc = "save_list" /\ mounted /\ flash = {FLAG, OLED}
  /\ ~cut /\ ~failed /\ pc \in {"save_oled", "save_list"} /\ mounted => flash # {}
  /\ pc = "save_list" /\ mounted /\ ~failed => OLED \in flash

\* The parameters are in RAM if this start took itself for the first.
Copied ==
  /\ pc \in {"off", "mount"} => ~mounted
  /\ pc \in Writing /\ mounted => start # "later"
  /\ pc = "save_list" => g_par = Id
  /\ pc = "show" =>
       IF start = "later" /\ mounted
       THEN g_par = {FLAG} /\ (flash = Id \/ cut \/ failed)
       ELSE g_par = Id

StoreInv == StoreTypeOK /\ Written /\ Copied /\ ParametersNotLoaded

LEMMA InitStoreInv == StoreInit => StoreInv
  BY DEF StoreInit, StoreInv, StoreTypeOK, Written, Copied, ParametersNotLoaded,
         Pc, Writing

LEMMA NextStoreInv == StoreInv /\ [StoreNext]_storeVars => StoreInv'
<1> SUFFICES ASSUME StoreInv, [StoreNext]_storeVars
             PROVE  StoreInv'
  OBVIOUS
<1> USE DEF StoreInv, StoreTypeOK, Written, Copied, ParametersNotLoaded, Pc,
            Writing, Id, Parameters, history, FLAG, OLED, LIST
<1>1. CASE PowerOn
  BY <1>1 DEF PowerOn
<1>2. CASE PowerOff
  BY <1>2 DEF PowerOff
<1>3. CASE InitListStorage
  BY <1>3 DEF InitListStorage
<1>4. CASE PoweronReadParam
  BY <1>4 DEF PoweronReadParam, Misread
<1>5. CASE FirstUse
  <2>1. CASE pc = "save_flag"
    BY <1>5, <2>1 DEF FirstUse, Saves, SaveParameter
  <2>2. CASE pc = "save_oled"
    BY <1>5, <2>2 DEF FirstUse, Saves, SaveParameter
  <2>3. CASE pc = "save_list"
    BY <1>5, <2>3 DEF FirstUse, Saves, SaveParameter
  <2>4. QED
    BY <1>5, <2>1, <2>2, <2>3 DEF FirstUse, Saves
<1>6. CASE ReadOledLight
  BY <1>6 DEF ReadOledLight
<1>7. CASE UNCHANGED storeVars
  BY <1>7 DEF storeVars
<1>8. QED
  BY <1>1, <1>2, <1>3, <1>4, <1>5, <1>6, <1>7 DEF StoreNext

(* Every variable of the parameter store keeps its type; in particular     *)
(* read_oled_light finds no record that is not a parameter.                *)
THEOREM StoreTypeCorrect == StoreSpec => []StoreTypeOK
<1>1. StoreInv => StoreTypeOK
  BY DEF StoreInv
<1>2. QED
  BY <1>1, InitStoreInv, NextStoreInv, PTL DEF StoreSpec

(* The flag of the first use stands for records that are not there only    *)
(* after a power failure between two of the three writes or a write that   *)
(* failed, however often the board is restarted.                           *)
THEOREM HarmNeedsInterruption == StoreSpec => []BrokenOnlyIfInterrupted
<1>1. StoreInv => BrokenOnlyIfInterrupted
  BY DEF StoreInv, Written, BrokenOnlyIfInterrupted, Broken, Writing, FLAG
<1>2. QED
  BY <1>1, InitStoreInv, NextStoreInv, PTL DEF StoreSpec

(* No start that reads the flag writes the missing records: only one that  *)
(* fails to read it takes itself for the first and writes.                 *)
THEOREM HarmStays == StoreSpec => OnlyMisreadingRepairs
<1>1. StoreNext => (Broken => flash' = flash /\ (Broken' \/ start' = "misread"))
  BY DEF StoreNext, Broken, PowerOn, PowerOff, InitListStorage,
         PoweronReadParam, Misread, FirstUse, Saves, SaveParameter,
         ReadOledLight, Writing, history
<1>2. QED
  BY <1>1, PTL DEF StoreSpec, OnlyMisreadingRepairs

(* In a later start that reads the flag g_par holds no parameters, whether *)
(* the store has them or not; in any other it holds them all.              *)
THEOREM LaterStartsLoadNothing == StoreSpec => []ParametersNotLoaded
<1>1. StoreInv => ParametersNotLoaded
  BY DEF StoreInv
<1>2. QED
  BY <1>1, InitStoreInv, NextStoreInv, PTL DEF StoreSpec
=============================================================================
