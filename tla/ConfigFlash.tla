---------------------------- MODULE ConfigFlash ----------------------------
(***************************************************************************)
(* The persistent configuration, firmware/config.c and cfgflash.c: one     *)
(* flash sector, erased and then programmed word by word while the         *)
(* firmware waits, and validated when the board boots.  Of the parameters  *)
(* only the two the firmware writes are kept, the PTP addend and the media *)
(* clock's rate; a None stands for a cleared valid flag.  The checksum is  *)
(* the tuple of what it covers.                                            *)
(***************************************************************************)
EXTENDS Integers, FiniteSets

CONSTANTS
  None,      \* a parameter whose valid flag is not set
  Erased,    \* a word of erased flash
  CFG_MAGIC

ASSUME ConfigFlashAssumption == Erased \notin {None, CFG_MAGIC}

VARIABLES
  g_cfg,     \* the live configuration
  flash,     \* the sector's words: header, addend, rate, checksum
  saving,    \* Idle, Erasing, or the next word to program
  stored     \* history: the configuration the sector holds when no save runs

config == <<g_cfg, flash, saving, stored>>

Words    == 1..4
Idle     == 0
Erasing  == 5
Defaults == [ptp_addend |-> None, mclk_ppb |-> None]

cfg_crc(header, addend, ppb) == <<header, addend, ppb>>

(* The blob cfg_save programs for a configuration.                          *)
Blob(c) == <<CFG_MAGIC, c.ptp_addend, c.mclk_ppb, cfg_crc(CFG_MAGIC, c.ptp_addend, c.mclk_ppb)>>

(* Mutant: the checksum is not compared. *)
ValidHeaderOnly(f) == f[1] = CFG_MAGIC

Valid(f) == f[1] = CFG_MAGIC /\ f[4] = cfg_crc(f[1], f[2], f[3])

cfg_load(f) == IF Valid(f) THEN [ptp_addend |-> f[2], mclk_ppb |-> f[3]] ELSE Defaults

(* A handler stores c and calls cfg_save, which returns when saving is idle *)
(* again.                                                                   *)
cfg_save(c) ==
  /\ g_cfg' = c /\ saving' = Erasing
  /\ UNCHANGED <<flash, stored>>

(* Mutant: programming does not wait for the erase to end. *)
EraseNotAwaited ==
  /\ saving = Erasing
  /\ \E w \in SUBSET Words :
       /\ w # {}
       /\ flash' = [i \in Words |-> IF i \in w THEN Erased ELSE flash[i]]
  /\ saving' = 1
  /\ UNCHANGED <<g_cfg, stored>>

(* The erase proceeds; in between any part of the sector may be left.       *)
Erase ==
  /\ saving = Erasing
  /\ \E w \in SUBSET Words :
       /\ w # {}
       /\ flash' = [i \in Words |-> IF i \in w THEN Erased ELSE flash[i]]
  /\ saving' = IF \A i \in Words : flash'[i] = Erased THEN 1 ELSE Erasing
  /\ UNCHANGED <<g_cfg, stored>>

Program ==
  /\ saving \in Words
  /\ flash' = [flash EXCEPT ![saving] = Blob(g_cfg)[saving]]
  /\ saving' = IF saving = 4 THEN Idle ELSE saving + 1
  /\ stored' = IF saving = 4 THEN g_cfg ELSE stored
  /\ UNCHANGED g_cfg

ConfigInit ==
  /\ flash = [i \in Words |-> Erased] /\ g_cfg = Defaults
  /\ saving = Idle /\ stored = Defaults

(* "Old/blank/corrupt blobs fail validation -> defaults are used (never     *)
(* corrupts)": a boot between saves finds exactly what was saved last, and  *)
(* one in the middle of a save finds the old configuration, the new one or  *)
(* the defaults, never a mixture.                                           *)
ConfigWhole ==
  IF saving = Idle THEN cfg_load(flash) = stored
                   ELSE cfg_load(flash) \in {stored, g_cfg, Defaults}

Store == INSTANCE ConfigStore
         WITH live <- g_cfg, kept <- cfg_load(flash), busy <- saving # Idle

(* What a boot would find changes only as the abstract store allows: the    *)
(* erase of a save may lose it for the defaults, only the last word of the  *)
(* save replaces it, at once and whole, and a lost one never reappears, in  *)
(* whatever order saves of the two parameters and power losses come.        *)
ImplementsStore == Store!Spec
=============================================================================
