------------------------------ MODULE ParamStore ------------------------------
(* user_nvs.c and its place in the main of the control board: three records in  *)
(* flash, written with their defaults at the first start, and the copy of them  *)
(* in g_par. The power may go at any time; a read or a write may fail, and is   *)
(* only reported; so may the mount, and main goes on. NVS is modelled from its  *)
(* use: one write is atomic, a failed read leaves the buffer as it was, and     *)
(* without a mount it refuses both.                                             *)
(* Only defaults are ever written, so a record, in flash or in RAM, holds its   *)
(* default or is not there (RAM: zero).                                         *)

Id == {"FIRST_USAGE_FLAG_ID", "OLED_CONFIG_ID", "NVS_ID_FULL_WHITELIST"}
Parameters == Id \ {"FIRST_USAGE_FLAG_ID"}

(* The states of main: without power, then init_list_storage, then              *)
(* poweron_read_param: its read, its three writes; read_oled_light; its loop.   *)
Writing == {"save_flag", "save_oled", "save_list"}
Pc == {"off", "mount", "load", "show", "loop"} \cup Writing

VARIABLES
  pc,
  mounted,
  flash,          \* the records stored
  g_par,          \* the members of g_par that hold their default
  shown,          \* the records read_oled_light has found
  cut,            \* history: the power has gone between two of the three writes
  failed,         \* history: a write to a mounted store has failed
  start           \* history: this start found no flag in flash, found it, or
                  \* failed to read the flag that the mounted store has

history == <<cut, failed, start>>
storeVars == <<pc, mounted, flash, g_par, shown, history>>

StoreTypeOK ==
  /\ pc \in Pc
  /\ mounted \in BOOLEAN
  /\ flash \subseteq Id /\ g_par \subseteq Id /\ shown \subseteq Parameters
  /\ cut \in BOOLEAN /\ failed \in BOOLEAN
  /\ start \in {"first", "later", "misread"}

(* A board that has never been started.                                         *)
StoreInit ==
  /\ pc = "off" /\ mounted = FALSE
  /\ flash = {} /\ g_par = {} /\ shown = {}
  /\ cut = FALSE /\ failed = FALSE /\ start = "first"

-------------------------------------------------------------------------------
PowerOn ==
  /\ pc = "off"
  /\ pc' = "mount"
  /\ start' = IF "FIRST_USAGE_FLAG_ID" \in flash THEN "later" ELSE "first"
  /\ UNCHANGED <<mounted, flash, g_par, shown, cut, failed>>

PowerOff ==
  /\ pc # "off"
  /\ pc' = "off"
  /\ mounted' = FALSE /\ g_par' = {} /\ shown' = {}
  /\ cut' = (cut \/ pc \in {"save_oled", "save_list"})
  /\ UNCHANGED <<flash, failed, start>>

(* init_list_storage, whose result main ignores.                                *)
InitListStorage ==
  /\ pc = "mount"
  /\ mounted' \in BOOLEAN
  /\ pc' = "load"
  /\ UNCHANGED <<flash, g_par, shown, history>>

(* The flag that the mounted store has cannot be read: it looks absent.         *)
Misread == start' = IF mounted /\ "FIRST_USAGE_FLAG_ID" \in flash THEN "misread" ELSE start

\* Fault: all three records are looked at.
LoadAll ==
  /\ pc = "load"
  /\ \/ /\ mounted /\ flash = Id
        /\ g_par' = {"FIRST_USAGE_FLAG_ID"} /\ pc' = "show" /\ UNCHANGED start
     \/ /\ flash # Id
        /\ g_par' = {"FIRST_USAGE_FLAG_ID", "OLED_CONFIG_ID"} /\ pc' = "save_flag"
        /\ UNCHANGED start
     \/ /\ g_par' = {"FIRST_USAGE_FLAG_ID", "OLED_CONFIG_ID"} /\ pc' = "save_flag"
        /\ Misread
  /\ UNCHANGED <<mounted, flash, shown, cut, failed>>

\* Fault: if the flag is set the parameters are loaded.
LoadParameters ==
  /\ pc = "load"
  /\ \/ /\ mounted /\ "FIRST_USAGE_FLAG_ID" \in flash
        /\ g_par' = flash /\ pc' = "show" /\ UNCHANGED start
     \/ /\ g_par' = {"FIRST_USAGE_FLAG_ID", "OLED_CONFIG_ID"} /\ pc' = "save_flag"
        /\ Misread
  /\ UNCHANGED <<mounted, flash, shown, cut, failed>>

(* poweron_read_param up to its first write: the flag alone decides, and if it  *)
(* is read as set nothing else is read.                                         *)
PoweronReadParam ==
  /\ pc = "load"
  /\ \/ /\ mounted /\ "FIRST_USAGE_FLAG_ID" \in flash
        /\ g_par' = {"FIRST_USAGE_FLAG_ID"} /\ pc' = "show" /\ UNCHANGED start
     \/ /\ g_par' = {"FIRST_USAGE_FLAG_ID", "OLED_CONFIG_ID"} /\ pc' = "save_flag"
        /\ Misread
  /\ UNCHANGED <<mounted, flash, shown, cut, failed>>

(* save_parameter.                                                              *)
SaveParameter(id) ==
  \/ mounted /\ flash' = flash \cup {id} /\ UNCHANGED failed
  \/ mounted /\ failed' = TRUE /\ UNCHANGED flash
  \/ ~mounted /\ UNCHANGED <<flash, failed>>

\* Fault: the white list is written first.
SavesListFirst ==
  \/ pc = "save_flag" /\ SaveParameter("NVS_ID_FULL_WHITELIST") /\ pc' = "save_oled" /\ UNCHANGED g_par
  \/ pc = "save_oled" /\ SaveParameter("FIRST_USAGE_FLAG_ID") /\ pc' = "show" /\ g_par' = Id

(* The three writes, the flag first; the white list is set in RAM before the    *)
(* third.                                                                       *)
Saves ==
  \/ pc = "save_flag" /\ SaveParameter("FIRST_USAGE_FLAG_ID") /\ pc' = "save_oled" /\ UNCHANGED g_par
  \/ pc = "save_oled" /\ SaveParameter("OLED_CONFIG_ID") /\ pc' = "save_list" /\ g_par' = Id
  \/ pc = "save_list" /\ SaveParameter("NVS_ID_FULL_WHITELIST") /\ pc' = "show" /\ UNCHANGED g_par

FirstUse ==
  /\ Saves
  /\ UNCHANGED <<mounted, shown, cut, start>>

\* Fault: whatever is stored is shown, the flag too.
ReadEverything ==
  /\ pc = "show"
  /\ shown' \in SUBSET (IF mounted THEN flash ELSE {})
  /\ pc' = "loop"
  /\ UNCHANGED <<mounted, flash, g_par, history>>

(* read_oled_light: what is not there or cannot be read stays zero, in buffers  *)
(* of its own.                                                                  *)
ReadOledLight ==
  /\ pc = "show"
  /\ shown' \in SUBSET (IF mounted THEN flash \cap Parameters ELSE {})
  /\ pc' = "loop"
  /\ UNCHANGED <<mounted, flash, g_par, history>>

StoreNext ==
  \/ PowerOn \/ PowerOff
  \/ InitListStorage \/ PoweronReadParam \/ FirstUse \/ ReadOledLight

StoreSpec == StoreInit /\ [][StoreNext]_storeVars

-------------------------------------------------------------------------------
(* The flag stands for records that are not there, and nobody is writing them.  *)
Broken ==
  /\ "FIRST_USAGE_FLAG_ID" \in flash /\ flash # Id
  /\ pc \in Writing => ~mounted

(* That takes a power failure between two of the three writes, or a write that  *)
(* failed: restarts at any other time and starts without a mount do no harm.    *)
BrokenOnlyIfInterrupted == Broken => cut \/ failed

(* No start that reads the flag writes the missing records, however often the   *)
(* board is started: only one that fails to read it does, by taking itself for  *)
(* the first.                                                                   *)
OnlyMisreadingRepairs ==
  [][Broken => flash' = flash /\ (Broken' \/ start' = "misread")]_storeVars

(* In a later start that reads the flag g_par stays without parameters, whether *)
(* the store has them or lost them to a cut or a failed write; poweron_read_-   *)
(* param fills g_par only in a start that takes itself for the first.           *)
ParametersNotLoaded ==
  pc = "loop" =>
    IF start = "later" /\ mounted
    THEN g_par \cap Parameters = {} /\ (flash = Id \/ cut \/ failed)
    ELSE g_par = Id

===============================================================================
