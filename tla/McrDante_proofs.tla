--------------------------- MODULE McrDante_proofs ---------------------------
(***************************************************************************)
(* Safety of the media clock and of its flash copy, for any limits, rates  *)
(* and addends, and with a power loss between any two words of a save.     *)
(***************************************************************************)
EXTENDS McrDante, TLAPS

CfgVals == [ptp_addend : AddendVals, mclk_ppb : PpbVals]

(* Every word of the sector is erased or was written by some save.          *)
FlashWords(f) ==
  /\ f = [i \in Words |-> f[i]]
  /\ f[1] \in {Erased, CFG_MAGIC}
  /\ f[2] \in AddendVals \cup {Erased}
  /\ f[3] \in PpbVals \cup {Erased}
  /\ f[4] = Erased \/ \E a \in AddendVals, p \in PpbVals : f[4] = cfg_crc(CFG_MAGIC, a, p)

(* How far a save has got.                                                  *)
SaveProgress ==
  /\ saving = Idle => cfg_load(flash) = stored
  /\ saving = Erasing => cfg_load(flash) \in {stored, Defaults}
  /\ saving \in Words =>
       \A i \in Words : flash[i] = IF i < saving THEN Blob(g_cfg)[i] ELSE Erased

FlashInv ==
  /\ saving \in 0..5
  /\ g_cfg \in CfgVals /\ stored \in CfgVals
  /\ FlashWords(flash)
  /\ SaveProgress

Good(c) == c.mclk_ppb = None \/ c.mclk_ppb \in converged

(* A disarmed clock is at nominal, and the cache knows the register.        *)
NcoInv ==
  /\ AppliedIsNco
  /\ last_written_inc = nco
  /\ ~enabled => applied_ppb = 0

McrInv == TypeOK /\ FlashInv /\ NcoInv /\ Good(g_cfg) /\ Good(stored)
-----------------------------------------------------------------------------
(* An erased word anywhere makes the sector invalid: the board boots with   *)
(* the defaults.                                                            *)
LEMMA ErasedInvalid ==
  ASSUME NEW f, FlashWords(f), NEW i \in Words, f[i] = Erased
  PROVE  cfg_load(f) = Defaults
<1>1. CASE f[1] = Erased
  BY <1>1, ConfigFlashAssumption DEF cfg_load, Valid
<1>2. CASE f[1] # Erased /\ f[4] = Erased
  <2>1. f[1] = CFG_MAGIC
    BY <1>2 DEF FlashWords
  <2>2. f[4] # cfg_crc(f[1], f[2], f[3])
    BY <1>2, <2>1, McrAssumption DEF FlashWords
  <2>. QED
    BY <2>2 DEF cfg_load, Valid
<1>3. CASE f[4] # Erased /\ (f[2] = Erased \/ f[3] = Erased)
  <2>1. PICK a \in AddendVals, p \in PpbVals : f[4] = cfg_crc(CFG_MAGIC, a, p)
    BY <1>3 DEF FlashWords
  <2>2. a # Erased /\ p # Erased
    BY McrAssumption
  <2>3. f[4] # cfg_crc(f[1], f[2], f[3])
    BY <1>3, <2>1, <2>2 DEF cfg_crc
  <2>. QED
    BY <2>3 DEF cfg_load, Valid
<1>. QED
  BY <1>1, <1>2, <1>3 DEF Words

(* A completed save is what the next boot loads.                            *)
LEMMA BlobLoads ==
  ASSUME NEW c \in CfgVals, NEW f, \A i \in Words : f[i] = Blob(c)[i]
  PROVE  cfg_load(f) = c
<1>1. /\ f[1] = CFG_MAGIC /\ f[2] = c.ptp_addend /\ f[3] = c.mclk_ppb
      /\ f[4] = cfg_crc(CFG_MAGIC, c.ptp_addend, c.mclk_ppb)
  BY DEF Blob, Words
<1>. QED
  BY <1>1 DEF cfg_load, Valid, CfgVals

LEMMA DefaultsType == Defaults \in CfgVals
BY DEF Defaults, CfgVals, AddendVals, PpbVals

LEMMA LoadType ==
  ASSUME NEW f, FlashWords(f)
  PROVE  cfg_load(f) \in CfgVals
<1>1. CASE Valid(f)
  <2>1. \A i \in Words : f[i] # Erased
    <3> SUFFICES ASSUME NEW i \in Words, f[i] = Erased PROVE FALSE
      OBVIOUS
    <3>1. cfg_load(f) = Defaults
      BY ErasedInvalid
    <3>2. f[2] = None /\ f[3] = None
      BY <3>1, <1>1 DEF cfg_load, Defaults
    <3>3. f[1] = CFG_MAGIC /\ f[4] = cfg_crc(CFG_MAGIC, None, None)
      BY <1>1, <3>2 DEF Valid
    <3>4. Erased # None /\ Erased # CFG_MAGIC
      BY ConfigFlashAssumption
    <3>5. f[4] # Erased
      BY <3>3, McrAssumption DEF AddendVals, PpbVals
    <3>. QED
      BY <3>2, <3>3, <3>4, <3>5 DEF Words
  <2>2. f[2] \in AddendVals /\ f[3] \in PpbVals
    BY <2>1 DEF FlashWords, Words
  <2>. QED
    BY <1>1, <2>2 DEF cfg_load, CfgVals
<1>2. CASE ~Valid(f)
  BY <1>2, DefaultsType DEF cfg_load
<1>. QED
  BY <1>1, <1>2
-----------------------------------------------------------------------------
(* Starting a save, and each step of one, keep the flash invariant.         *)
LEMMA SaveFlash ==
  ASSUME FlashInv, saving = Idle, NEW c \in CfgVals, cfg_save(c)
  PROVE  FlashInv'
<1>1. saving' = Erasing /\ g_cfg' = c /\ flash' = flash /\ stored' = stored
  BY DEF cfg_save
<1>2. SaveProgress'
  BY <1>1 DEF FlashInv, SaveProgress, Idle, Erasing, Words, cfg_load, Valid, cfg_crc, Defaults
<1>. QED
  BY <1>1, <1>2 DEF FlashInv, FlashWords, Erasing, Words, cfg_crc

LEMMA EraseFlash ==
  ASSUME FlashInv, Erase
  PROVE  FlashInv'
<1>1. PICK w \in SUBSET Words :
        /\ w # {}
        /\ flash' = [i \in Words |-> IF i \in w THEN Erased ELSE flash[i]]
  BY DEF Erase
<1>2. FlashWords(flash')
  <2>1. flash' = [i \in Words |-> flash'[i]]
    BY <1>1
  <2>2. \A i \in Words : flash'[i] \in {Erased, flash[i]}
    BY <1>1
  <2>. QED
    BY <2>1, <2>2 DEF FlashWords, FlashInv, Words
<1>3. cfg_load(flash') = Defaults
  <2>1. PICK i \in Words : i \in w
    BY <1>1
  <2>2. flash'[i] = Erased
    BY <1>1, <2>1
  <2>. QED
    BY <1>2, <2>2, ErasedInvalid
<1>4. saving' \in {1, Erasing} /\ (saving' = 1 => \A i \in Words : flash'[i] = Erased)
  BY DEF Erase, Erasing
<1>5. SaveProgress'
  <2>1. saving' = Erasing => cfg_load(flash') \in {stored', Defaults}
    BY <1>3
  <2>2. saving' \in Words =>
          \A i \in Words : flash'[i] = IF i < saving' THEN Blob(g_cfg')[i] ELSE Erased
    BY <1>4 DEF Words, Erasing
  <2>3. saving' # Idle
    BY <1>4 DEF Idle, Erasing
  <2>. QED
    BY <2>1, <2>2, <2>3 DEF SaveProgress, cfg_load, Valid, cfg_crc, Defaults, Blob
<1>6. g_cfg' \in CfgVals /\ stored' \in CfgVals /\ saving' \in 0..5
  BY <1>4 DEF FlashInv, Erase, Erasing
<1>. QED
  BY <1>2, <1>5, <1>6 DEF FlashInv, FlashWords, cfg_crc

LEMMA ProgramFlash ==
  ASSUME FlashInv, Program
  PROVE  FlashInv' /\ stored' \in {stored, g_cfg}
<1>1. /\ saving \in Words /\ g_cfg' = g_cfg
      /\ flash' = [flash EXCEPT ![saving] = Blob(g_cfg)[saving]]
      /\ saving' = IF saving = 4 THEN Idle ELSE saving + 1
      /\ stored' = IF saving = 4 THEN g_cfg ELSE stored
  BY DEF Program
<1>2. flash = [i \in Words |-> flash[i]]
  BY DEF FlashInv, FlashWords
<1>3. \A i \in Words : flash[i] = IF i < saving THEN Blob(g_cfg)[i] ELSE Erased
  BY <1>1 DEF FlashInv, SaveProgress
<1>4. \A i \in Words : flash'[i] = IF i <= saving THEN Blob(g_cfg)[i] ELSE Erased
  BY <1>1, <1>2, <1>3 DEF Words
<1>5. /\ Blob(g_cfg)[1] = CFG_MAGIC /\ Blob(g_cfg)[2] \in AddendVals
      /\ Blob(g_cfg)[3] \in PpbVals
      /\ \E a \in AddendVals, p \in PpbVals : Blob(g_cfg)[4] = cfg_crc(CFG_MAGIC, a, p)
  BY DEF FlashInv, CfgVals, Blob
<1>6. FlashWords(flash')
  <2>1. flash' = [i \in Words |-> flash'[i]]
    BY <1>1, <1>2
  <2>2. \A i \in Words : flash'[i] \in {Erased, Blob(g_cfg)[i]}
    BY <1>4
  <2>3. /\ flash'[1] \in {Erased, Blob(g_cfg)[1]} /\ flash'[2] \in {Erased, Blob(g_cfg)[2]}
        /\ flash'[3] \in {Erased, Blob(g_cfg)[3]} /\ flash'[4] \in {Erased, Blob(g_cfg)[4]}
    BY <2>2 DEF Words
  <2>. QED
    BY <2>1, <2>3, <1>5 DEF FlashWords
<1>7. saving' = Idle => cfg_load(flash') = stored'
  <2> SUFFICES ASSUME saving' = Idle PROVE cfg_load(flash') = stored'
    OBVIOUS
  <2>1. saving = 4
    BY <1>1 DEF Words, Idle
  <2>2. \A i \in Words : flash'[i] = Blob(g_cfg)[i]
    BY <2>1, <1>4 DEF Words
  <2>3. cfg_load(flash') = g_cfg
    BY <2>2, BlobLoads DEF FlashInv
  <2>. QED
    BY <2>1, <2>3, <1>1
<1>8. saving' \in Words =>
        \A i \in Words : flash'[i] = IF i < saving' THEN Blob(g_cfg')[i] ELSE Erased
  <2> SUFFICES ASSUME saving' \in Words, NEW i \in Words
               PROVE  flash'[i] = IF i < saving' THEN Blob(g_cfg')[i] ELSE Erased
    OBVIOUS
  <2>1. saving' = saving + 1
    BY <1>1 DEF Words, Idle
  <2>2. (i < saving') <=> (i <= saving)
    BY <2>1, <1>1 DEF Words
  <2>3. Blob(g_cfg') = Blob(g_cfg)
    BY <1>1
  <2>. QED
    BY <2>2, <2>3, <1>4
<1>9. SaveProgress'
  <2>1. saving' # Erasing
    BY <1>1 DEF Words, Idle, Erasing
  <2>. QED
    BY <2>1, <1>7, <1>8 DEF SaveProgress, cfg_load, Valid, cfg_crc, Defaults, Blob
<1>10. g_cfg' \in CfgVals /\ stored' \in CfgVals /\ saving' \in 0..5
  BY <1>1 DEF FlashInv, Words, Idle
<1>. QED
  BY <1>1, <1>6, <1>9, <1>10 DEF FlashInv, FlashWords, cfg_crc
-----------------------------------------------------------------------------
LEMMA FlashUnchanged ==
  ASSUME FlashInv, UNCHANGED config
  PROVE  FlashInv'
BY DEF FlashInv, config, SaveProgress, FlashWords, cfg_load, Valid, cfg_crc, Defaults, Blob

(* The nominal rate is the base increment.                                  *)
LEMMA IncZero == inc_for_ppb(0) = 0
BY McrAssumption DEF inc_for_ppb

LEMMA IncType ==
  ASSUME NEW ppb \in Int
  PROVE  inc_for_ppb(ppb) \in Int
BY McrAssumption DEF inc_for_ppb

LEMMA ClampType ==
  ASSUME NEW v \in Int, NEW lim \in Nat
  PROVE  Clamp(v, lim) \in -lim..lim
BY DEF Clamp

(* A slew step never leaves the range of the target.                        *)
LEMMA SlewedType ==
  ASSUME TypeOK, NEW target \in -MAX_PPB..MAX_PPB
  PROVE  Slewed(target) \in -MAX_PPB..MAX_PPB
BY McrAssumption DEF Slewed, Clamp, TypeOK

(* The two outcomes of Persist.                                             *)
LEMMA PersistCases ==
  ASSUME TypeOK, NEW ppb \in -MAX_PPB..MAX_PPB, NEW target, Persist(ppb, target)
  PROVE  /\ nv_wait' \in 0..NV_SAVE
         /\ \/ UNCHANGED config
            \/ /\ ppb = target
               /\ cfg_save([g_cfg EXCEPT !.mclk_ppb = ppb])
<1>1. CASE SaveDue(ppb, target)
  BY <1>1, McrAssumption DEF Persist, SaveDue, NoSave
<1>2. CASE ~SaveDue(ppb, target)
  BY <1>2, McrAssumption DEF Persist, NvTime, NoSave, TypeOK
<1>. QED
  BY <1>1, <1>2

(* What the slewing part of a poll leaves behind.                           *)
LEMMA DisciplineStep ==
  ASSUME McrInv, saving = Idle, NEW target \in -MAX_PPB..MAX_PPB, Discipline(target),
         enabled' = enabled
  PROVE  /\ applied_ppb' \in -MAX_PPB..MAX_PPB /\ nv_wait' \in 0..NV_SAVE
         /\ last_written_inc' \in Int /\ nco' \in Int
         /\ saving' \in 0..5
         /\ NcoInv' /\ FlashInv' /\ Good(g_cfg)' /\ Good(stored)'
<1>1. CASE ~locked \/ ~enabled
  <2>1. /\ UNCHANGED <<last_written_inc, nco, converged>> /\ NvTime /\ UNCHANGED config
        /\ applied_ppb' = applied_ppb \/ (~enabled /\ applied_ppb' = 0)
    BY <1>1 DEF Discipline, NoSave
  <2>2. applied_ppb' = applied_ppb
    BY <2>1 DEF McrInv, NcoInv
  <2>3. FlashInv'
    BY <2>1, FlashUnchanged DEF McrInv
  <2>4. Good(g_cfg)' /\ Good(stored)'
    BY <2>1 DEF McrInv, Good, config
  <2>5. NcoInv'
    BY <2>1, <2>2 DEF McrInv, NcoInv, AppliedIsNco
  <2>6. nv_wait' \in 0..NV_SAVE
    BY <2>1, McrAssumption DEF McrInv, TypeOK, NvTime
  <2>. QED
    BY <2>1, <2>2, <2>3, <2>4, <2>5, <2>6 DEF McrInv, TypeOK, config
<1>2. CASE locked /\ enabled
  <2> DEFINE ppb == Slewed(target)
  <2>1. /\ applied_ppb' = ppb /\ last_written_inc' = inc_for_ppb(ppb)
        /\ nco' = IF inc_for_ppb(ppb) # last_written_inc THEN inc_for_ppb(ppb) ELSE nco
        /\ converged' = IF ppb = target THEN converged \cup {ppb} ELSE converged
        /\ Persist(ppb, target)
    BY <1>2 DEF Discipline
  <2>2. ppb \in -MAX_PPB..MAX_PPB
    BY SlewedType DEF McrInv
  <2>3. nco' = inc_for_ppb(ppb)
    BY <2>1 DEF McrInv, NcoInv
  <2>4. NcoInv'
    <3>1. AppliedIsNco'
      BY <2>1, <2>3 DEF AppliedIsNco, inc_for_ppb
    <3>2. (~enabled => applied_ppb = 0)'
      BY <1>2
    <3>. QED
      BY <3>1, <3>2, <2>1, <2>3 DEF NcoInv
  <2>5. inc_for_ppb(ppb) \in Int
    BY <2>2, IncType
  <2> HIDE DEF ppb
  <2>6. nv_wait' \in 0..NV_SAVE
    BY <2>1, <2>2, PersistCases DEF McrInv
  <2>7. FlashInv' /\ Good(g_cfg)' /\ Good(stored)'
    <3>1. CASE UNCHANGED config
      <4>1. FlashInv'
        BY <3>1, FlashUnchanged DEF McrInv
      <4>2. Good(g_cfg)' /\ Good(stored)'
        BY <3>1, <2>1 DEF McrInv, Good, config
      <4>. QED
        BY <4>1, <4>2
    <3>2. CASE ppb = target /\ cfg_save([g_cfg EXCEPT !.mclk_ppb = ppb])
      <4>1. g_cfg \in CfgVals
        BY DEF McrInv, FlashInv
      <4>2. ppb \in PpbVals
        BY <2>2 DEF PpbVals
      <4>3. [g_cfg EXCEPT !.mclk_ppb = ppb] \in CfgVals
        BY <4>1, <4>2 DEF CfgVals
      <4>4. FlashInv'
        BY <3>2, <4>3, SaveFlash DEF McrInv
      <4>5. g_cfg'.mclk_ppb = ppb /\ stored' = stored
        BY <3>2, <4>1 DEF cfg_save, CfgVals
      <4>6. ppb \in converged' /\ converged \subseteq converged'
        BY <2>1, <3>2
      <4>7. Good(g_cfg)' /\ Good(stored)'
        BY <4>5, <4>6 DEF Good, McrInv
      <4>. QED
        BY <4>4, <4>7
    <3>. QED
      BY <3>1, <3>2, <2>1, <2>2, PersistCases DEF McrInv
  <2>8. saving' \in 0..5
    BY <2>7 DEF FlashInv
  <2>. QED
    BY <2>1, <2>2, <2>3, <2>4, <2>5, <2>6, <2>7, <2>8
<1>. QED
  BY <1>1, <1>2

(* The escape hatch puts register, cache and belief back together.          *)
LEMMA DisableStep ==
  ASSUME Disable
  PROVE  NcoInv' /\ applied_ppb' = 0 /\ nco' = 0 /\ last_written_inc' = 0 /\ enabled' = FALSE
<1>1. applied_ppb' = 0 /\ nco' = 0 /\ last_written_inc' = 0 /\ enabled' = FALSE
  BY DEF Disable
<1>2. AppliedIsNco'
  BY <1>1, IncZero DEF AppliedIsNco, inc_for_ppb
<1>. QED
  BY <1>1, <1>2 DEF NcoInv
-----------------------------------------------------------------------------
LEMMA McrInvInit == Init => McrInv
<1> SUFFICES ASSUME Init PROVE McrInv
  OBVIOUS
<1>1. TypeOK
  <2>1. /\ locked \in BOOLEAN /\ enabled \in BOOLEAN /\ phase_enabled \in BOOLEAN
        /\ setpoint_valid \in BOOLEAN /\ anchored \in BOOLEAN /\ steady \in BOOLEAN
    BY DEF Init
  <2>2. /\ saving = 0 /\ rate_ppb \in Rates /\ applied_ppb = 0 /\ target_ppb = 0
        /\ last_written_inc = 0 /\ nco = 0 /\ trip_streak = 0 /\ setpoint_wait = 0
        /\ nv_wait = NV_SAVE
    BY DEF Init, ConfigInit, Idle
  <2>. QED
    BY <2>1, <2>2, McrAssumption DEF TypeOK
<1>2. FlashInv
  <2>1. flash = [i \in Words |-> Erased] /\ saving = Idle /\ stored = Defaults /\ g_cfg = Defaults
    BY DEF Init, ConfigInit
  <2>2. FlashWords(flash)
    BY <2>1 DEF FlashWords, Words
  <2>3. cfg_load(flash) = Defaults
    <3>1. flash[1] = Erased /\ 1 \in Words
      BY <2>1 DEF Words
    <3>. QED
      BY <2>2, <3>1, ErasedInvalid
  <2>4. SaveProgress
    BY <2>1, <2>3 DEF SaveProgress, Idle, Erasing, Words
  <2>. QED
    BY <2>1, <2>2, <2>4, DefaultsType DEF FlashInv, Idle
<1>3. NcoInv
  BY IncZero DEF Init, NcoInv, AppliedIsNco
<1>4. Good(g_cfg) /\ Good(stored)
  BY DEF Init, ConfigInit, Good, Defaults
<1>. QED
  BY <1>1, <1>2, <1>3, <1>4 DEF McrInv

(* A boot, whatever a power loss left in the flash.                         *)
LEMMA PowerCycleInv ==
  ASSUME McrInv, PowerCycle
  PROVE  McrInv'
<1> DEFINE c == cfg_load(flash)
<1>1. /\ g_cfg' = c /\ stored' = c /\ saving' = Idle /\ flash' = flash
      /\ mcr_dante_init(c)
      /\ locked' = FALSE /\ rate_ppb' \in Rates /\ anchored' = FALSE
      /\ converged' = converged /\ steady' = steady
  BY DEF PowerCycle
<1>2. FlashWords(flash) /\ SaveProgress
  BY DEF McrInv, FlashInv
<1>3. c \in CfgVals
  BY <1>2, LoadType
<1>4. c \in {stored, g_cfg, Defaults}
  <2>1. CASE saving = Idle \/ saving = Erasing
    BY <2>1, <1>2 DEF SaveProgress
  <2>2. CASE saving \in Words
    <3>1. 4 \in Words /\ flash[4] = Erased
      BY <2>2, <1>2 DEF SaveProgress, Words
    <3>. QED
      BY <3>1, <1>2, ErasedInvalid
  <2>. QED
    BY <2>1, <2>2 DEF McrInv, TypeOK, Idle, Erasing, Words
<1>5. Good(c)
  BY <1>4 DEF McrInv, Good, Defaults
<1>6. FlashInv'
  <2>1. cfg_load(flash') = c
    BY <1>1
  <2>2. SaveProgress'
    BY <1>1, <2>1 DEF SaveProgress, Idle, Erasing, Words, cfg_load, Valid, cfg_crc, Defaults
  <2>3. FlashWords(flash')
    BY <1>1, <1>2
  <2>. QED
    BY <1>1, <1>3, <2>2, <2>3 DEF FlashInv, Idle, FlashWords, cfg_crc
<1> DEFINE warm == c.mclk_ppb # None /\ Abs(c.mclk_ppb) < MAX_PPB
           ppb  == IF warm THEN c.mclk_ppb ELSE 0
<1>7. /\ enabled' = warm /\ applied_ppb' = ppb /\ target_ppb' = 0
      /\ nco' = inc_for_ppb(ppb) /\ last_written_inc' = inc_for_ppb(ppb)
      /\ trip_streak' = 0 /\ phase_enabled' = FALSE
      /\ setpoint_valid' = FALSE /\ setpoint_wait' = 0 /\ nv_wait' = NV_SAVE
  BY <1>1 DEF mcr_dante_init
<1>8. ppb \in -MAX_PPB..MAX_PPB
  BY <1>3, McrAssumption DEF CfgVals, PpbVals
<1>9. enabled' \in BOOLEAN /\ (~enabled' => applied_ppb' = 0)
  BY <1>7
<1>10. Good(g_cfg)' /\ Good(stored)'
  BY <1>1, <1>5 DEF Good
<1> HIDE DEF c, warm, ppb
<1>11. NcoInv'
  <2>1. AppliedIsNco'
    BY <1>7 DEF AppliedIsNco, inc_for_ppb
  <2>. QED
    BY <2>1, <1>7, <1>9 DEF NcoInv
<1>12. inc_for_ppb(ppb) \in Int
  BY <1>8, IncType
<1>13. TypeOK'
  <2>1. saving' \in 0..5 /\ locked' \in BOOLEAN /\ rate_ppb' \in Rates
    <3>1. saving' = 0 /\ locked' = FALSE /\ rate_ppb' \in Rates
      BY <1>1 DEF Idle
    <3>2. locked' \in BOOLEAN
      BY <3>1
    <3>. QED
      BY <3>1, <3>2
  <2>2. /\ applied_ppb' \in -MAX_PPB..MAX_PPB /\ target_ppb' \in -MAX_PPB..MAX_PPB
        /\ last_written_inc' \in Int /\ nco' \in Int
        /\ trip_streak' \in 0..(TRIP_STREAK - 1)
        /\ setpoint_wait' \in 0..SETPOINT_SETTLE /\ nv_wait' \in 0..NV_SAVE
    BY <1>7, <1>8, <1>12, McrAssumption
  <2>3. /\ phase_enabled' \in BOOLEAN /\ setpoint_valid' \in BOOLEAN
        /\ anchored' \in BOOLEAN /\ steady' \in BOOLEAN
    BY <1>1, <1>7 DEF McrInv, TypeOK
  <2>. QED
    BY <2>1, <2>2, <2>3, <1>9 DEF TypeOK
<1>. QED
  BY <1>6, <1>10, <1>11, <1>13 DEF McrInv

LEMMA PollInv ==
  ASSUME McrInv, NEW partial \in BOOLEAN, NEW talker \in BOOLEAN, NEW term \in PhaseTerms,
         mcr_dante_poll(partial, talker, term)
  PROVE  McrInv'
<1> DEFINE streak == IF enabled /\ partial THEN trip_streak + 1 ELSE 0
           target == Clamp(rate_ppb + PhasePpb(term), MAX_PPB)
<1>1. saving = Idle /\ UNCHANGED <<phase_enabled, locked, rate_ppb, steady>>
  BY DEF mcr_dante_poll, Running
<1>2. TypeOK /\ FlashInv
  BY DEF McrInv
<1>3. CASE streak >= TRIP_STREAK
  <2>1. /\ trip_streak' = 0 /\ Disable /\ NvTime /\ UNCHANGED config
        /\ setpoint_wait' = IF setpoint_wait > 0 THEN setpoint_wait - 1 ELSE 0
        /\ UNCHANGED <<target_ppb, setpoint_valid, anchored, converged>>
    BY <1>3 DEF mcr_dante_poll, NoSave
  <2>2. /\ NcoInv' /\ applied_ppb' = 0 /\ nco' = 0 /\ last_written_inc' = 0 /\ enabled' = FALSE
    BY <2>1, DisableStep
  <2>3. FlashInv'
    BY <1>2, <2>1, FlashUnchanged
  <2>4. Good(g_cfg)' /\ Good(stored)'
    BY <2>1 DEF McrInv, Good, config
  <2>5. TypeOK'
    <3>1. nv_wait' \in 0..NV_SAVE /\ setpoint_wait' \in 0..SETPOINT_SETTLE
      BY <1>2, <2>1, McrAssumption DEF TypeOK, NvTime
    <3>2. 0 \in -MAX_PPB..MAX_PPB /\ 0 \in 0..(TRIP_STREAK - 1)
      BY McrAssumption
    <3>3. /\ enabled' \in BOOLEAN /\ phase_enabled' \in BOOLEAN /\ locked' \in BOOLEAN
          /\ setpoint_valid' \in BOOLEAN /\ anchored' \in BOOLEAN /\ steady' \in BOOLEAN
      BY <1>1, <1>2, <2>1, <2>2 DEF TypeOK
    <3>4. /\ saving' \in 0..5 /\ rate_ppb' \in Rates /\ target_ppb' \in -MAX_PPB..MAX_PPB
      BY <1>1, <1>2, <2>1 DEF TypeOK, config
    <3>5. /\ applied_ppb' \in -MAX_PPB..MAX_PPB /\ last_written_inc' \in Int /\ nco' \in Int
          /\ trip_streak' \in 0..(TRIP_STREAK - 1)
      BY <2>1, <2>2, <3>2
    <3>. QED
      BY <3>1, <3>3, <3>4, <3>5 DEF TypeOK
  <2>. QED
    BY <2>2, <2>3, <2>4, <2>5 DEF McrInv
<1>4. CASE ~(streak >= TRIP_STREAK)
  <2>1. /\ trip_streak' = streak /\ Setpoint(talker) /\ target_ppb' = target
        /\ Discipline(target) /\ enabled' = enabled
    BY <1>4 DEF mcr_dante_poll
  <2>2. streak \in 0..(TRIP_STREAK - 1)
    BY <1>2, <1>4, McrAssumption DEF TypeOK
  <2>3. target \in -MAX_PPB..MAX_PPB
    <3>1. PhasePpb(term) \in Int
      BY McrAssumption DEF PhasePpb
    <3>2. rate_ppb + PhasePpb(term) \in Int
      BY <3>1, <1>2, McrAssumption DEF TypeOK
    <3>. QED
      BY <3>2, ClampType, McrAssumption
  <2> HIDE DEF streak, target
  <2>4. /\ applied_ppb' \in -MAX_PPB..MAX_PPB /\ nv_wait' \in 0..NV_SAVE
        /\ last_written_inc' \in Int /\ nco' \in Int /\ saving' \in 0..5
        /\ NcoInv' /\ FlashInv' /\ Good(g_cfg)' /\ Good(stored)'
    BY <1>1, <2>1, <2>3, DisciplineStep
  <2>5. /\ anchored' \in BOOLEAN /\ setpoint_valid' \in BOOLEAN
        /\ setpoint_wait' \in 0..SETPOINT_SETTLE
    <3>1. anchored' \in BOOLEAN /\ setpoint_valid' \in BOOLEAN
      BY <1>2, <2>1 DEF Setpoint, TypeOK
    <3>2. setpoint_wait' \in 0..SETPOINT_SETTLE
      BY <1>2, <2>1, McrAssumption DEF Setpoint, TypeOK
    <3>. QED
      BY <3>1, <3>2
  <2>6. TypeOK'
    BY <1>1, <1>2, <2>1, <2>2, <2>3, <2>4, <2>5 DEF TypeOK
  <2>. QED
    BY <2>4, <2>6 DEF McrInv
<1>. QED
  BY <1>3, <1>4

LEMMA SetEnabledInv ==
  ASSUME McrInv, NEW on \in BOOLEAN, mcr_dante_set_enabled(on)
  PROVE  McrInv'
<1>1. /\ UNCHANGED config
      /\ UNCHANGED <<target_ppb, trip_streak, phase_enabled, setpoint_valid, setpoint_wait,
                     nv_wait, locked, rate_ppb, anchored, converged, steady>>
  BY DEF mcr_dante_set_enabled, NoSave
<1>2. /\ NcoInv' /\ enabled' \in BOOLEAN /\ applied_ppb' \in -MAX_PPB..MAX_PPB
      /\ nco' \in Int /\ last_written_inc' \in Int
  <2>1. CASE ~on
    <3>1. Disable
      BY <2>1 DEF mcr_dante_set_enabled
    <3>2. 0 \in -MAX_PPB..MAX_PPB
      BY McrAssumption
    <3>. QED
      BY <3>1, <3>2, DisableStep
  <2>2. CASE on
    <3>1. /\ enabled' = TRUE /\ applied_ppb' = applied_ppb
          /\ nco' = inc_for_ppb(applied_ppb) /\ last_written_inc' = inc_for_ppb(applied_ppb)
      BY <2>2 DEF mcr_dante_set_enabled, Enable
    <3>2. applied_ppb \in -MAX_PPB..MAX_PPB
      BY DEF McrInv, TypeOK
    <3>3. inc_for_ppb(applied_ppb) \in Int
      BY <3>2, IncType
    <3>4. AppliedIsNco'
      BY <3>1 DEF AppliedIsNco, inc_for_ppb
    <3>. QED
      BY <3>1, <3>2, <3>3, <3>4 DEF NcoInv
  <2>. QED
    BY <2>1, <2>2
<1>3. FlashInv'
  BY <1>1, FlashUnchanged DEF McrInv
<1>4. Good(g_cfg)' /\ Good(stored)'
  BY <1>1 DEF McrInv, Good, config
<1>5. TypeOK'
  BY <1>1, <1>2 DEF McrInv, TypeOK, config
<1>. QED
  BY <1>2, <1>3, <1>4, <1>5 DEF McrInv

(* The steps that leave the clock's registers alone.                        *)
LEMMA QuietInv ==
  ASSUME McrInv,
         UNCHANGED <<enabled, applied_ppb, target_ppb, last_written_inc, nco, trip_streak,
                     setpoint_valid, setpoint_wait, nv_wait, converged>>,
         phase_enabled' \in BOOLEAN, locked' \in BOOLEAN, rate_ppb' \in Rates,
         anchored' \in BOOLEAN, steady' \in BOOLEAN,
         FlashInv', Good(g_cfg)', Good(stored)'
  PROVE  McrInv'
<1>1. TypeOK'
  BY DEF McrInv, TypeOK, FlashInv
<1>2. NcoInv'
  BY DEF McrInv, NcoInv, AppliedIsNco
<1>. QED
  BY <1>1, <1>2 DEF McrInv

LEMMA McrInvNext == McrInv /\ [Next]_vars => McrInv'
<1> SUFFICES ASSUME McrInv, [Next]_vars PROVE McrInv'
  OBVIOUS
<1>t. TypeOK /\ FlashInv /\ Good(g_cfg) /\ Good(stored)
  BY DEF McrInv
<1>g. ASSUME UNCHANGED config, converged' = converged
      PROVE  FlashInv' /\ Good(g_cfg)' /\ Good(stored)'
  BY <1>t, <1>g, FlashUnchanged DEF Good, config
<1>1. CASE AnyPoll
  BY <1>1, PollInv DEF AnyPoll
<1>2. CASE AnyLock
  <2>1. PICK addend \in Addends : PtpLock(addend)
    BY <1>2 DEF AnyLock
  <2>2. /\ UNCHANGED <<enabled, applied_ppb, target_ppb, last_written_inc, nco, trip_streak,
                     setpoint_valid, setpoint_wait, nv_wait, converged>>
        /\ phase_enabled' \in BOOLEAN /\ locked' \in BOOLEAN /\ rate_ppb' \in Rates
        /\ anchored' \in BOOLEAN /\ steady' \in BOOLEAN
    BY <2>1, <1>t DEF PtpLock, mcr, TypeOK
  <2>3. FlashInv' /\ Good(g_cfg)' /\ Good(stored)'
    <3>1. CASE UNCHANGED config
      BY <3>1, <2>2, <1>g
    <3>2. CASE cfg_save([g_cfg EXCEPT !.ptp_addend = addend])
      <4>1. g_cfg \in CfgVals /\ saving = Idle
        BY <1>t, <2>1 DEF FlashInv, PtpLock, Running
      <4>2. addend \in AddendVals
        BY DEF AddendVals
      <4>3. [g_cfg EXCEPT !.ptp_addend = addend] \in CfgVals
        BY <4>1, <4>2 DEF CfgVals
      <4>4. FlashInv'
        BY <3>2, <4>1, <4>3, <1>t, SaveFlash
      <4>5. g_cfg'.mclk_ppb = g_cfg.mclk_ppb /\ stored' = stored
        BY <3>2, <4>1 DEF cfg_save, CfgVals
      <4>. QED
        BY <4>4, <4>5, <2>2, <1>t DEF Good
    <3>. QED
      BY <2>1, <3>1, <3>2 DEF PtpLock, NoSave
  <2>. QED
    BY <2>2, <2>3, QuietInv
<1>3. CASE \E on \in BOOLEAN : mcr_dante_set_enabled(on)
  BY <1>3, SetEnabledInv
<1>4. CASE \E on \in BOOLEAN : mcr_dante_set_phase_enabled(on)
  <2>1. PICK on \in BOOLEAN : mcr_dante_set_phase_enabled(on)
    BY <1>4
  <2>2. /\ UNCHANGED config /\ converged' = converged
        /\ UNCHANGED <<enabled, applied_ppb, target_ppb, last_written_inc, nco, trip_streak,
                     setpoint_valid, setpoint_wait, nv_wait, converged>>
        /\ phase_enabled' \in BOOLEAN /\ locked' \in BOOLEAN /\ rate_ppb' \in Rates
        /\ anchored' \in BOOLEAN /\ steady' \in BOOLEAN
    BY <2>1, <1>t DEF mcr_dante_set_phase_enabled, NoSave, TypeOK
  <2>. QED
    BY <2>2, <1>g, QuietInv
<1>5. CASE PtpUnlock \/ RateMoves \/ Anchor \/ BecomesSteady
  <2>2. /\ UNCHANGED config /\ converged' = converged
        /\ UNCHANGED <<enabled, applied_ppb, target_ppb, last_written_inc, nco, trip_streak,
                     setpoint_valid, setpoint_wait, nv_wait, converged>>
        /\ phase_enabled' \in BOOLEAN /\ locked' \in BOOLEAN /\ rate_ppb' \in Rates
        /\ anchored' \in BOOLEAN /\ steady' \in BOOLEAN
    BY <1>5, <1>t DEF PtpUnlock, RateMoves, Anchor, BecomesSteady, NoSave, mcr, TypeOK
  <2>. QED
    BY <2>2, <1>g, QuietInv
<1>6. CASE FlashStep
  <2>1. /\ UNCHANGED <<enabled, applied_ppb, target_ppb, last_written_inc, nco, trip_streak,
                     setpoint_valid, setpoint_wait, nv_wait, converged>>
        /\ phase_enabled' \in BOOLEAN /\ locked' \in BOOLEAN /\ rate_ppb' \in Rates
        /\ anchored' \in BOOLEAN /\ steady' \in BOOLEAN
    BY <1>6, <1>t DEF FlashStep, mcr, TypeOK
  <2>2. FlashInv' /\ g_cfg' = g_cfg /\ stored' \in {stored, g_cfg}
    <3>1. CASE Erase
      <4>1. g_cfg' = g_cfg /\ stored' = stored
        BY <3>1 DEF Erase
      <4>. QED
        BY <3>1, <4>1, <1>t, EraseFlash
    <3>2. CASE Program
      <4>1. g_cfg' = g_cfg
        BY <3>2 DEF Program
      <4>. QED
        BY <3>2, <4>1, <1>t, ProgramFlash
    <3>. QED
      BY <1>6, <3>1, <3>2 DEF FlashStep
  <2>3. Good(g_cfg)' /\ Good(stored)'
    BY <2>1, <2>2, <1>t DEF Good
  <2>. QED
    BY <2>1, <2>2, <2>3, QuietInv
<1>7. CASE PowerCycle
  BY <1>7, PowerCycleInv
<1>8. CASE UNCHANGED vars
  <2>1. /\ UNCHANGED config /\ converged' = converged
        /\ UNCHANGED <<enabled, applied_ppb, target_ppb, last_written_inc, nco, trip_streak,
                     setpoint_valid, setpoint_wait, nv_wait, converged>>
        /\ phase_enabled' \in BOOLEAN /\ locked' \in BOOLEAN /\ rate_ppb' \in Rates
        /\ anchored' \in BOOLEAN /\ steady' \in BOOLEAN
    BY <1>8, <1>t DEF vars, mcr, TypeOK
  <2>. QED
    BY <2>1, <1>g, QuietInv
<1>. QED
  BY <1>1, <1>2, <1>3, <1>4, <1>5, <1>6, <1>7, <1>8 DEF Next

LEMMA SafeMcr == Spec => []McrInv
BY McrInvInit, McrInvNext, PTL DEF Spec
-----------------------------------------------------------------------------
(* Every poll, operator switch, flash step and boot keeps the rates within  *)
(* MAX_PPB and the timers within their bounds.                              *)
THEOREM TypeCorrect == Spec => []TypeOK
<1>1. McrInv => TypeOK
  BY DEF McrInv
<1>. QED
  BY <1>1, SafeMcr, PTL

(* The NCO is always set to the rate the firmware believes it applied,      *)
(* though mcr_dante_poll skips the write whenever its cache says so.        *)
THEOREM NcoIsApplied == Spec => []AppliedIsNco
<1>1. McrInv => AppliedIsNco
  BY DEF McrInv, NcoInv
<1>. QED
  BY <1>1, SafeMcr, PTL

(* cfg_load never mixes two configurations, wherever cfg_save was cut off.  *)
THEOREM ConfigAtomic == Spec => []ConfigWhole
<1>1. McrInv => ConfigWhole
  <2> SUFFICES ASSUME McrInv PROVE ConfigWhole
    OBVIOUS
  <2>1. saving \in 0..5 /\ FlashWords(flash) /\ SaveProgress
    BY DEF McrInv, FlashInv
  <2>2. CASE saving = Idle \/ saving = Erasing
    BY <2>1, <2>2 DEF SaveProgress, ConfigWhole, Idle, Erasing
  <2>3. CASE saving \in Words
    <3>1. 4 \in Words /\ flash[4] = Erased
      BY <2>3, <2>1 DEF SaveProgress, Words
    <3>2. cfg_load(flash) = Defaults
      BY <3>1, <2>1, ErasedInvalid
    <3>. QED
      BY <3>2, <2>3 DEF ConfigWhole, Idle, Words
  <2>. QED
    BY <2>1, <2>2, <2>3 DEF Idle, Erasing, Words
<1>. QED
  BY <1>1, SafeMcr, PTL

(* mcr_dante_init starts warm only with a rate the slew once reached under  *)
(* lock, whatever saves and power losses lie in between.                    *)
THEOREM WarmStartConverged == Spec => []RestoresConverged
<1>1. McrInv => RestoresConverged
  BY DEF McrInv, Good, RestoresConverged
<1>. QED
  BY <1>1, SafeMcr, PTL
-----------------------------------------------------------------------------
(* Division by LSB, as far as a slew step needs it.                         *)
LEMMA DivBounds ==
  ASSUME NEW n \in Nat
  PROVE  /\ n \div LSB \in Nat
         /\ LSB * (n \div LSB) <= n /\ n < LSB * (n \div LSB) + LSB
BY McrAssumption

LEMMA Cancel ==
  ASSUME NEW q \in Int, NEW k \in Int, LSB * q < LSB * k
  PROVE  q < k
<1> SUFFICES ASSUME k <= q PROVE FALSE
  OBVIOUS
<1>1. LSB * k <= LSB * q
  BY McrAssumption
<1>. QED
  BY <1>1, McrAssumption

LEMMA DivStep ==
  ASSUME NEW a \in Nat, NEW b \in Nat, NEW s \in Nat, a <= b, b - a <= s
  PROVE  a \div LSB <= b \div LSB /\ b \div LSB <= a \div LSB + s \div LSB + 1
<1> DEFINE p == a \div LSB
           q == b \div LSB
           t == s \div LSB
<1>1. /\ p \in Nat /\ LSB * p <= a /\ a < LSB * p + LSB
      /\ q \in Nat /\ LSB * q <= b /\ b < LSB * q + LSB
      /\ t \in Nat /\ LSB * t <= s /\ s < LSB * t + LSB
  BY DivBounds
<1> HIDE DEF p, q, t
<1>2. LSB * (q + 1) = LSB * q + LSB /\ LSB * (p + t + 2) = LSB * p + LSB * t + 2 * LSB
  BY <1>1, McrAssumption
<1>3. LSB * p \in Int /\ LSB * q \in Int /\ LSB * t \in Int /\ LSB \in Nat
  BY <1>1, McrAssumption
<1>4. LSB * p < LSB * (q + 1) /\ LSB * q < LSB * (p + t + 2)
  BY <1>1, <1>2, <1>3
<1>5. p < q + 1 /\ q < p + t + 2
  BY <1>1, <1>4, Cancel
<1>6. p <= q /\ q <= p + t + 1
  BY <1>5, <1>1
<1>. QED
  BY <1>6 DEF p, q, t

LEMMA DivSum ==
  ASSUME NEW a \in Nat, NEW b \in Nat, NEW s \in Nat, a + b <= s
  PROVE  a \div LSB + b \div LSB <= s \div LSB
<1> DEFINE p == a \div LSB
           q == b \div LSB
           t == s \div LSB
<1>1. /\ p \in Nat /\ LSB * p <= a
      /\ q \in Nat /\ LSB * q <= b
      /\ t \in Nat /\ s < LSB * t + LSB
  BY DivBounds
<1> HIDE DEF p, q, t
<1>2. LSB * (p + q) = LSB * p + LSB * q /\ LSB * (t + 1) = LSB * t + LSB
  BY <1>1, McrAssumption
<1>3. LSB * p \in Int /\ LSB * q \in Int /\ LSB * t \in Int /\ LSB \in Nat
  BY <1>1, McrAssumption
<1>4. LSB * (p + q) < LSB * (t + 1)
  BY <1>1, <1>2, <1>3
<1>5. p + q < t + 1
  BY <1>1, <1>4, Cancel
<1>6. p + q <= t
  BY <1>5, <1>1
<1>. QED
  BY <1>6 DEF p, q, t

(* A step of at most s ppb moves the increment by s \div LSB + 1 at most,   *)
(* also across the nominal rate, where C division changes direction.        *)
LEMMA IncStep ==
  ASSUME NEW a \in Int, NEW b \in Int, NEW s \in Nat, b - a <= s, a - b <= s
  PROVE  Abs(inc_for_ppb(b) - inc_for_ppb(a)) <= s \div LSB + 1
<1>0. s \div LSB \in Nat
  BY DivBounds
<1>1. CASE a >= 0 /\ b >= 0
  <2>1. a \in Nat /\ b \in Nat /\ a \div LSB \in Nat /\ b \div LSB \in Nat
    BY <1>1, DivBounds
  <2>2. inc_for_ppb(a) = a \div LSB /\ inc_for_ppb(b) = b \div LSB
    BY <1>1 DEF inc_for_ppb
  <2>3. CASE a <= b
    <3>1. a \div LSB <= b \div LSB /\ b \div LSB <= a \div LSB + s \div LSB + 1
      BY <2>1, <2>3, DivStep
    <3>. QED
      BY <3>1, <2>1, <2>2, <1>0 DEF Abs
  <2>4. CASE b <= a
    <3>1. b \div LSB <= a \div LSB /\ a \div LSB <= b \div LSB + s \div LSB + 1
      BY <2>1, <2>4, DivStep
    <3>. QED
      BY <3>1, <2>1, <2>2, <1>0 DEF Abs
  <2>. QED
    BY <2>3, <2>4
<1>2. CASE a < 0 /\ b < 0
  <2>1. -a \in Nat /\ -b \in Nat /\ (-a) \div LSB \in Nat /\ (-b) \div LSB \in Nat
    BY <1>2, DivBounds
  <2>2. inc_for_ppb(a) = -((-a) \div LSB) /\ inc_for_ppb(b) = -((-b) \div LSB)
    BY <1>2 DEF inc_for_ppb
  <2>3. CASE -a <= -b
    <3>0. -b - (-a) <= s
      BY <2>3
    <3>1. (-a) \div LSB <= (-b) \div LSB /\ (-b) \div LSB <= (-a) \div LSB + s \div LSB + 1
      BY <2>1, <2>3, <3>0, DivStep
    <3>. QED
      BY <3>1, <2>1, <2>2, <1>0 DEF Abs
  <2>4. CASE -b <= -a
    <3>0. -a - (-b) <= s
      BY <2>4
    <3>1. (-b) \div LSB <= (-a) \div LSB /\ (-a) \div LSB <= (-b) \div LSB + s \div LSB + 1
      BY <2>1, <2>4, <3>0, DivStep
    <3>. QED
      BY <3>1, <2>1, <2>2, <1>0 DEF Abs
  <2>. QED
    BY <2>3, <2>4
<1>3. CASE a < 0 /\ b >= 0
  <2>1. -a \in Nat /\ b \in Nat /\ (-a) \div LSB \in Nat /\ b \div LSB \in Nat
    BY <1>3, DivBounds
  <2>2. inc_for_ppb(a) = -((-a) \div LSB) /\ inc_for_ppb(b) = b \div LSB
    BY <1>3 DEF inc_for_ppb
  <2>3. -a + b <= s
    BY <2>1
  <2>4. (-a) \div LSB + b \div LSB <= s \div LSB
    BY <2>1, <2>3, DivSum
  <2>. QED
    BY <2>1, <2>2, <2>4, <1>0 DEF Abs
<1>4. CASE a >= 0 /\ b < 0
  <2>1. a \in Nat /\ -b \in Nat /\ a \div LSB \in Nat /\ (-b) \div LSB \in Nat
    BY <1>4, DivBounds
  <2>2. inc_for_ppb(a) = a \div LSB /\ inc_for_ppb(b) = -((-b) \div LSB)
    BY <1>4 DEF inc_for_ppb
  <2>3. a + (-b) <= s
    BY <2>1
  <2>4. a \div LSB + (-b) \div LSB <= s \div LSB
    BY <2>1, <2>3, DivSum
  <2>. QED
    BY <2>1, <2>2, <2>4, <1>0 DEF Abs
<1>. QED
  BY <1>1, <1>2, <1>3, <1>4

(* Only the slew of a poll moves the NCO to a rate other than nominal.      *)
LEMMA NcoStep ==
  ASSUME McrInv, Next, nco' # nco, nco' # 0, ~PowerCycle
  PROVE  Abs(nco' - nco) <= SLEW_PPB \div LSB + 1
<1>1. PICK partial \in BOOLEAN, talker \in BOOLEAN, term \in PhaseTerms :
        mcr_dante_poll(partial, talker, term)
  <2>1. ASSUME NEW on \in BOOLEAN, mcr_dante_set_enabled(on) PROVE FALSE
    BY <2>1 DEF mcr_dante_set_enabled, Enable, Disable, McrInv, NcoInv, AppliedIsNco
  <2>2. ~(\E addend \in Addends : PtpLock(addend))
    BY DEF PtpLock, mcr
  <2>3. ~(PtpUnlock \/ RateMoves \/ Anchor \/ FlashStep \/ BecomesSteady)
    BY DEF PtpUnlock, RateMoves, Anchor, FlashStep, BecomesSteady, mcr
  <2>4. ~(\E on \in BOOLEAN : mcr_dante_set_phase_enabled(on))
    BY DEF mcr_dante_set_phase_enabled
  <2>. QED
    BY <2>1, <2>2, <2>3, <2>4 DEF Next, AnyPoll, AnyLock
<1> DEFINE target == Clamp(rate_ppb + PhasePpb(term), MAX_PPB)
<1>2. Discipline(target)
  BY <1>1 DEF mcr_dante_poll, Disable
<1>3. target \in -MAX_PPB..MAX_PPB
  <2>1. PhasePpb(term) \in Int
    BY McrAssumption DEF PhasePpb
  <2>2. rate_ppb + PhasePpb(term) \in Int
    BY <2>1, McrAssumption DEF McrInv, TypeOK
  <2>. QED
    BY <2>2, ClampType, McrAssumption
<1> HIDE DEF target
<1>4. nco' = inc_for_ppb(Slewed(target))
  BY <1>2 DEF Discipline
<1>5. nco = inc_for_ppb(applied_ppb) /\ applied_ppb \in Int
  BY DEF McrInv, NcoInv, AppliedIsNco, TypeOK
<1>6. /\ Slewed(target) \in Int
      /\ Slewed(target) - applied_ppb <= SLEW_PPB /\ applied_ppb - Slewed(target) <= SLEW_PPB
  BY <1>3, <1>5, McrAssumption DEF Slewed, Clamp
<1>7. SLEW_PPB \in Nat
  BY McrAssumption
<1>. QED
  BY <1>4, <1>5, <1>6, <1>7, IncStep

(* The NCO moves by slew steps, for every step size and every resolution of *)
(* its increment register.                                                  *)
THEOREM NcoNeverJumps == Spec => NcoSlews
<1>1. McrInv /\ [Next]_vars =>
        [(nco' # nco /\ nco' # 0 /\ ~PowerCycle) =>
           Abs(nco' - nco) <= SLEW_PPB \div LSB + 1]_vars
  BY NcoStep
<1>. QED
  BY <1>1, SafeMcr, PTL DEF Spec, NcoSlews

(* Rates, timers and flash words stay in their ranges, and cfg_load never   *)
(* mixes two configurations, wherever cfg_save was cut off.                 *)
THEOREM StoreIsSound == Spec => []StoreSound
BY TypeCorrect, ConfigAtomic, PTL DEF StoreSound
-----------------------------------------------------------------------------
(* The refinement: cfg_save and the flash operations under it implement the *)
(* abstract store.                                                          *)
LEMMA KeptNext == (cfg_load(flash))' = cfg_load(flash')
BY DEF cfg_load, Valid, cfg_crc, Defaults

(* A handler that stores one parameter begins an abstract save.             *)
LEMMA SaveImplements ==
  ASSUME FlashInv, saving = Idle, NEW p \in {"ptp_addend", "mclk_ppb"}, NEW v,
         cfg_save([g_cfg EXCEPT ![p] = v])
  PROVE  Store!Save
<1>1. /\ g_cfg' = [g_cfg EXCEPT ![p] = v] /\ saving' = Erasing /\ flash' = flash
  BY DEF cfg_save
<1>2. g_cfg \in CfgVals /\ DOMAIN g_cfg = {"ptp_addend", "mclk_ppb"}
  BY DEF FlashInv, CfgVals
<1>3. \E q \in DOMAIN g_cfg : g_cfg' = [g_cfg EXCEPT ![q] = g_cfg'[q]]
  <2>1. g_cfg'[p] = v
    BY <1>1, <1>2
  <2>. QED
    BY <1>1, <1>2, <2>1
<1>4. (cfg_load(flash))' = cfg_load(flash)
  BY <1>1, KeptNext
<1>5. ~(saving # Idle) /\ (saving' # Idle)
  BY <1>1 DEF Idle, Erasing
<1>. QED
  BY <1>3, <1>4, <1>5 DEF Store!Save, Idle

(* Erasing any word loses the kept configuration.                           *)
LEMMA EraseImplements ==
  ASSUME FlashInv, Erase
  PROVE  Store!Lose
<1>1. PICK w \in SUBSET Words :
        /\ w # {}
        /\ flash' = [i \in Words |-> IF i \in w THEN Erased ELSE flash[i]]
  BY DEF Erase
<1>2. PICK i \in Words : i \in w
  BY <1>1
<1>3. flash'[i] = Erased
  BY <1>1, <1>2
<1>4. FlashWords(flash')
  BY EraseFlash DEF FlashInv, FlashWords, cfg_crc
<1>5. cfg_load(flash') = Defaults
  BY <1>2, <1>3, <1>4, ErasedInvalid
<1>6. g_cfg' = g_cfg /\ (saving # Idle) /\ (saving' # Idle)
  BY DEF Erase, Idle, Erasing
<1>. QED
  BY <1>5, <1>6, KeptNext DEF Store!Lose, Idle

(* The last word makes the save whole; the words before it change nothing   *)
(* a boot could see.                                                        *)
LEMMA ProgramImplements ==
  ASSUME FlashInv, Program
  PROVE  \/ Store!Finish
         \/ UNCHANGED <<g_cfg, cfg_load(flash), saving # Idle>>
<1>1. /\ saving \in Words /\ g_cfg' = g_cfg
      /\ flash' = [flash EXCEPT ![saving] = Blob(g_cfg)[saving]]
      /\ saving' = IF saving = 4 THEN Idle ELSE saving + 1
      /\ stored' = IF saving = 4 THEN g_cfg ELSE stored
  BY DEF Program
<1>2. FlashWords(flash') /\ (saving' = Idle => cfg_load(flash') = stored')
  BY ProgramFlash DEF FlashInv, FlashWords, SaveProgress, cfg_load, Valid, cfg_crc, Defaults
<1>3. CASE saving = 4
  <2>1. saving' = Idle /\ saving # Idle /\ cfg_load(flash') = g_cfg
    BY <1>1, <1>2, <1>3 DEF Idle
  <2>. QED
    BY <1>1, <2>1, KeptNext DEF Store!Finish, Idle
<1>4. CASE saving # 4
  <2>1. flash = [i \in Words |-> flash[i]] /\ flash[4] = Erased /\ 4 \in Words
    BY <1>1, <1>4 DEF FlashInv, FlashWords, SaveProgress, Words
  <2>2. flash'[4] = Erased
    BY <1>1, <1>4, <2>1
  <2>3. cfg_load(flash) = Defaults
    BY <2>1, ErasedInvalid DEF FlashInv
  <2>4. cfg_load(flash') = Defaults
    BY <1>2, <2>1, <2>2, ErasedInvalid
  <2>5. saving # Idle /\ saving' # Idle
    BY <1>1, <1>4 DEF Words, Idle
  <2>. QED
    BY <1>1, <2>3, <2>4, <2>5, KeptNext DEF Idle
<1>. QED
  BY <1>3, <1>4

LEMMA BootImplements ==
  ASSUME PowerCycle
  PROVE  Store!Boot
<1>1. g_cfg' = cfg_load(flash) /\ saving' = Idle /\ flash' = flash
  BY DEF PowerCycle
<1>2. ~(saving' # Idle)
  BY <1>1
<1>. QED
  BY <1>1, <1>2, KeptNext DEF Store!Boot, Idle

LEMMA IdleImplements ==
  ASSUME UNCHANGED config
  PROVE  UNCHANGED <<g_cfg, cfg_load(flash), saving # Idle>>
<1>1. g_cfg' = g_cfg /\ flash' = flash /\ saving' = saving
  BY DEF config
<1>. QED
  BY <1>1, KeptNext DEF Idle

LEMMA StoreStep ==
  McrInv /\ [Next]_vars => [Store!Next]_<<g_cfg, cfg_load(flash), saving # Idle>>
<1> SUFFICES ASSUME McrInv, [Next]_vars
             PROVE  Store!Next \/ UNCHANGED <<g_cfg, cfg_load(flash), saving # Idle>>
  OBVIOUS
<1>t. TypeOK /\ FlashInv
  BY DEF McrInv
<1>1. CASE AnyPoll
  <2>1. PICK partial \in BOOLEAN, talker \in BOOLEAN, term \in PhaseTerms :
          mcr_dante_poll(partial, talker, term)
    BY <1>1 DEF AnyPoll
  <2> DEFINE target == Clamp(rate_ppb + PhasePpb(term), MAX_PPB)
             ppb    == Slewed(target)
  <2>2. saving = Idle
    BY <2>1 DEF mcr_dante_poll, Running
  <2>3. UNCHANGED config \/ cfg_save([g_cfg EXCEPT !.mclk_ppb = ppb])
    BY <2>1 DEF mcr_dante_poll, Discipline, Persist, NoSave
  <2>4. CASE UNCHANGED config
    BY <2>4, IdleImplements
  <2>5. CASE cfg_save([g_cfg EXCEPT !.mclk_ppb = ppb])
    BY <1>t, <2>2, <2>5, SaveImplements DEF Store!Next
  <2>. QED
    BY <2>3, <2>4, <2>5
<1>2. CASE AnyLock
  <2>1. PICK addend \in Addends : PtpLock(addend)
    BY <1>2 DEF AnyLock
  <2>2. CASE UNCHANGED config
    BY <2>2, IdleImplements
  <2>3. CASE cfg_save([g_cfg EXCEPT !.ptp_addend = addend])
    <3>1. saving = Idle
      BY <2>1 DEF PtpLock, Running
    <3>. QED
      BY <1>t, <2>3, <3>1, SaveImplements DEF Store!Next
  <2>. QED
    BY <2>1, <2>2, <2>3 DEF PtpLock, NoSave
<1>3. CASE \E on \in BOOLEAN : mcr_dante_set_enabled(on) \/ mcr_dante_set_phase_enabled(on)
  <2>1. UNCHANGED config
    BY <1>3 DEF mcr_dante_set_enabled, mcr_dante_set_phase_enabled, NoSave
  <2>. QED
    BY <2>1, IdleImplements
<1>4. CASE PtpUnlock \/ RateMoves \/ Anchor \/ BecomesSteady
  <2>1. UNCHANGED config
    BY <1>4 DEF PtpUnlock, RateMoves, Anchor, BecomesSteady, NoSave
  <2>. QED
    BY <2>1, IdleImplements
<1>5. CASE FlashStep
  BY <1>t, <1>5, EraseImplements, ProgramImplements DEF FlashStep, Store!Next
<1>6. CASE PowerCycle
  BY <1>6, BootImplements DEF Store!Next
<1>7. CASE UNCHANGED vars
  <2>1. UNCHANGED config
    BY <1>7 DEF vars
  <2>. QED
    BY <2>1, IdleImplements
<1>. QED
  BY <1>1, <1>2, <1>3, <1>4, <1>5, <1>6, <1>7 DEF Next

(* cfg_save, the flash driver and cfg_load implement the abstract store for *)
(* every rate and addend, whichever words an erase has reached and whenever *)
(* power fails.                                                             *)
THEOREM FlashImplementsStore == Spec => ImplementsStore
<1>1. Init => Store!Init
  <2> SUFFICES ASSUME Init PROVE Store!Init
    OBVIOUS
  <2>1. FlashInv /\ saving = Idle /\ stored = Defaults /\ g_cfg = Defaults
    BY McrInvInit DEF McrInv, Init, ConfigInit
  <2>2. cfg_load(flash) = Defaults
    BY <2>1 DEF FlashInv, SaveProgress
  <2>. QED
    BY <2>1, <2>2 DEF Store!Init
<1>. QED
  BY <1>1, StoreStep, SafeMcr, McrInvNext, PTL DEF Spec, ImplementsStore, Store!Spec
=============================================================================
