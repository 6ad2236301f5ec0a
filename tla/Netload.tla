------------------------------ MODULE Netload ------------------------------
(***************************************************************************)
(* Pushing an application image into coderam over raw Ethernet: the host   *)
(* side, tools/netload.py, and the boot loader, firmware/loader/loader.c.  *)
(* Frames travel in order (one link, no routing) but may be lost, and a    *)
(* DATA frame may be accepted with a damaged payload.  An answer may come  *)
(* after the host has timed out and stays in its socket until it is read.  *)
(***************************************************************************)
EXTENDS Integers, Sequences

CONSTANTS
  Images,       \* the images an operator may push
  Size,         \* Size[i], the length of image i
  CODERAM_SIZE, \* the loader refuses longer images
  CHUNK,        \* payload bytes of a DATA frame
  Retries,      \* --retries
  PASSES,       \* PASSES of netload.py
  Sessions,     \* how often the operator starts the tool (a bound)
  LinkCap,      \* frames buffered in one direction; more are lost (a bound)
  Lossy,        \* whether frames may be lost
  Damaging,     \* whether payloads may be damaged
  Damaged,      \* the content of a damaged byte
  Blank,        \* coderam content before anything was written
  NoImage

ASSUME NetloadAssumption ==
  /\ \A i \in Images : Size[i] \in Nat
  /\ CODERAM_SIZE \in Nat /\ CHUNK \in Nat \ {0}
  /\ Retries \in Nat \ {0} /\ PASSES \in Nat \ {0}
  /\ Sessions \in Nat /\ LinkCap \in Nat
  /\ Lossy \in BOOLEAN /\ Damaging \in BOOLEAN
  /\ NoImage \notin Images

VARIABLES
  pc,         \* the host: what it does next
  image,      \* the image this session pushes
  off,        \* host's offset
  attempt,    \* attempts left for the current frame
  pass,       \* passes left
  sessions,   \* sessions left
  toLoader,   \* frames on the way to the loader
  toHost,     \* replies on the way to, or unread in, the host's socket
  boot,       \* the loader: off, netload, flash, running, halted
  started, img_len, img_crc, next_off,
  coderam,
  fresh       \* history: the offsets stored since the last START acted on

host    == <<pc, image, off, attempt, pass, sessions>>
loader  == <<boot, started, img_len, img_crc, next_off, coderam, fresh>>
vars    == <<host, toLoader, toHost, loader>>

(* The content of byte i of an image, and its CRC, which is taken to tell   *)
(* images apart.                                                            *)
Byte(img, i) == <<img, i>>
crc32(img)   == img

(* crc32 over coderam: the image it holds in full, if there is one.         *)
CrcOfCoderam(len) ==
  IF \E img \in Images : Size[img] = len /\ \A i \in 0..(len - 1) : coderam[i] = Byte(img, i)
    THEN CHOOSE img \in Images :
           Size[img] = len /\ \A i \in 0..(len - 1) : coderam[i] = Byte(img, i)
    ELSE NoImage

(* What a link does with a frame it is given.                               *)
Carried(link, frames) ==
  {Append(link, m) : m \in IF Len(link) < LinkCap THEN frames ELSE {}}
    \cup (IF Lossy \/ Len(link) >= LinkCap THEN {link} ELSE {})

Min2(a, b) == IF a < b THEN a ELSE b

START(img)    == [op |-> "START", len |-> Size[img], crc |-> crc32(img)]
DATA(img, o)  == LET n == Min2(CHUNK, Size[img] - o)
                 IN  [op |-> "DATA", off |-> o, payload |-> [k \in 0..(n - 1) |-> Byte(img, o + k)], n |-> n]
DamagedDATA(img, o) ==
  LET n == Min2(CHUNK, Size[img] - o)
  IN  [op |-> "DATA", off |-> o, payload |-> [k \in 0..(n - 1) |-> Damaged], n |-> n]
EXEC          == [op |-> "EXEC"]
ACK(o)        == [op |-> "ACK", off |-> o]
NAK(o)        == [op |-> "NAK", off |-> o]

-----------------------------------------------------------------------------
(* The host.  A frame is sent in states start, data and exec; the answer is *)
(* awaited in waitStart, waitData and waitExec.                             *)

(* The operator runs the tool, the first time or again after it ended.      *)
(* Opening the socket discards what earlier sessions did not read.          *)
RunTool(img) ==
  /\ pc \in {"idle", "done", "failed"} /\ sessions > 0
  /\ Size[img] > 0 /\ Size[img] <= CODERAM_SIZE
  /\ sessions' = sessions - 1
  /\ pc' = "start" /\ image' = img /\ off' = 0
  /\ attempt' = Retries /\ pass' = PASSES
  /\ toHost' = <<>>
  /\ UNCHANGED <<toLoader, loader>>

(* The operator interrupts the tool (or its host crashes). *)
Interrupt ==
  /\ pc \notin {"idle", "done", "failed"} /\ sessions > 0
  /\ pc' = "failed"
  /\ UNCHANGED <<image, off, attempt, pass, sessions, toLoader, toHost, loader>>

SendStart ==
  /\ pc = "start"
  /\ toLoader' \in Carried(toLoader, {START(image)})
  /\ pc' = "waitStart"
  /\ UNCHANGED <<image, off, attempt, pass, sessions, toHost, loader>>

SendData ==
  /\ pc = "data"
  /\ toLoader' \in Carried(toLoader, {DATA(image, off)} \cup
                                     IF Damaging THEN {DamagedDATA(image, off)} ELSE {})
  /\ pc' = "waitData"
  /\ UNCHANGED <<image, off, attempt, pass, sessions, toHost, loader>>

SendExec ==
  /\ pc = "exec"
  /\ toLoader' \in Carried(toLoader, {EXEC})
  /\ pc' = "waitExec"
  /\ UNCHANGED <<image, off, attempt, pass, sessions, toHost, loader>>

(* one_pass returned False: another pass, or the tool exits with an error.  *)
PassFailed ==
  /\ pass' = pass - 1
  /\ pc' = IF pass > 1 THEN "start" ELSE "failed"
  /\ off' = 0 /\ attempt' = Retries

(* The host moves to an offset: the next chunk, or EXEC after the last.     *)
MoveTo(o) ==
  /\ off' = o /\ attempt' = Retries
  /\ pc' = IF o < Size[image] THEN "data" ELSE "exec"
  /\ UNCHANGED pass

(* Mutant: a timed-out frame is sent again without counting the attempt. *)
RetryUncounted(next) ==
  /\ pc' = next
  /\ UNCHANGED <<off, attempt, pass>>

(* The same frame again, until the attempts are used up.                    *)
Retry(next) ==
  IF attempt > 1
    THEN /\ attempt' = attempt - 1 /\ pc' = next
         /\ UNCHANGED <<off, pass>>
    ELSE PassFailed

Answer == Head(toHost)

RecvStart ==
  /\ pc = "waitStart" /\ toHost # <<>>
  /\ IF Answer.op = "ACK" THEN MoveTo(0)
                          ELSE pc' = "start" /\ UNCHANGED <<off, attempt, pass>>
  /\ toHost' = Tail(toHost)
  /\ UNCHANGED <<image, sessions, toLoader, loader>>

(* A NAK ends the pass; the current offset means a resend; any other offset *)
(* is where the loader says it is.                                          *)
RecvData ==
  /\ pc = "waitData" /\ toHost # <<>>
  /\ IF Answer.op = "NAK" THEN PassFailed
     ELSE IF Answer.off # off THEN MoveTo(Answer.off)
     ELSE Retry("data")
  /\ toHost' = Tail(toHost)
  /\ UNCHANGED <<image, sessions, toLoader, loader>>

RecvExec ==
  /\ pc = "waitExec" /\ toHost # <<>>
  /\ IF Answer.op = "ACK" THEN pc' = "done" /\ UNCHANGED <<off, attempt, pass>>
                          ELSE PassFailed
  /\ toHost' = Tail(toHost)
  /\ UNCHANGED <<image, sessions, toLoader, loader>>

(* No answer within --timeout (20 ms for START).                            *)
TimeoutStart ==
  /\ pc = "waitStart" /\ pc' = "start"
  /\ UNCHANGED <<image, off, attempt, pass, sessions, toLoader, toHost, loader>>

TimeoutData ==
  /\ pc = "waitData" /\ Retry("data")
  /\ UNCHANGED <<image, sessions, toLoader, toHost, loader>>

TimeoutExec ==
  /\ pc = "waitExec" /\ Retry("exec")
  /\ UNCHANGED <<image, sessions, toLoader, toHost, loader>>

(* The START deadline: the tool exits on the first pass, and gives the pass *)
(* up on a later one.                                                       *)
StartDeadline ==
  /\ pc = "start"
  /\ IF pass = PASSES THEN pc' = "failed" /\ UNCHANGED <<off, attempt, pass>>
                      ELSE PassFailed
  /\ UNCHANGED <<image, sessions, toLoader, toHost, loader>>

-----------------------------------------------------------------------------
(* The loader.                                                              *)
Reply(m) == toHost' \in Carried(toHost, {m})

PowerOn ==
  /\ boot = "off"
  /\ boot' = "netload" /\ started' = FALSE
  /\ UNCHANGED <<img_len, img_crc, next_off, coderam, fresh, toLoader, toHost, host>>

Frame(op) == /\ boot = "netload" /\ toLoader # <<>> /\ Head(toLoader).op = op
             /\ toLoader' = Tail(toLoader)

LoaderStart ==
  /\ Frame("START")
  /\ LET f == Head(toLoader) IN
       IF f.len = 0 \/ f.len > CODERAM_SIZE
         THEN /\ Reply(NAK(0))
              /\ UNCHANGED <<started, img_len, img_crc, next_off, fresh>>
         ELSE /\ img_len' = f.len /\ img_crc' = f.crc
              /\ next_off' = 0 /\ started' = TRUE /\ fresh' = {}
              /\ Reply(ACK(0))
  /\ UNCHANGED <<boot, coderam, host>>

(* Mutant: only frames from before the expected offset are refused. *)
AcceptsAhead(f) == f.n > 0 /\ f.off >= next_off /\ f.off + f.n <= img_len

(* A DATA frame is stored only at the offset the loader expects.            *)
Accepts(f) == f.n > 0 /\ f.off = next_off /\ f.off + f.n <= img_len

LoaderData ==
  /\ Frame("DATA")
  /\ LET f == Head(toLoader) IN
       IF ~started THEN UNCHANGED <<next_off, coderam, fresh, toHost>>
       ELSE IF Accepts(f)
         THEN /\ coderam' = [i \in DOMAIN coderam |->
                   IF i \in f.off..(f.off + f.n - 1) THEN f.payload[i - f.off] ELSE coderam[i]]
              /\ next_off' = f.off + f.n
              /\ fresh' = fresh \cup f.off..(f.off + f.n - 1)
              /\ Reply(ACK(f.off + f.n))
         ELSE Reply(ACK(next_off)) /\ UNCHANGED <<next_off, coderam, fresh>>
  /\ UNCHANGED <<boot, started, img_len, img_crc, host>>

(* Mutant: the CRC is not compared. *)
VerifiedLengthOnly == next_off = img_len

Verified == CrcOfCoderam(img_len) = img_crc

(* EXEC: refused while the image is incomplete, refused and forgotten when  *)
(* the CRC differs, otherwise acknowledged and the firmware is entered.     *)
LoaderExec ==
  /\ Frame("EXEC")
  /\ IF ~started THEN UNCHANGED <<boot, started, toHost>>
     ELSE IF next_off # img_len THEN Reply(NAK(next_off)) /\ UNCHANGED <<boot, started>>
     ELSE IF Verified THEN Reply(ACK(img_len)) /\ boot' = "running" /\ UNCHANGED started
     ELSE Reply(NAK(next_off)) /\ started' = FALSE /\ UNCHANGED boot
  /\ UNCHANGED <<img_len, img_crc, next_off, coderam, fresh, host>>

(* The window closes only while no transfer has started; flash is next, and *)
(* holds a valid image or does not.                                         *)
WindowExpires ==
  /\ boot = "netload" /\ ~started
  /\ boot' \in {"flash", "halted"}
  /\ UNCHANGED <<started, img_len, img_crc, next_off, coderam, fresh, toLoader, toHost, host>>

(* The firmware and a halted loader do not answer the protocol.             *)
Unheard ==
  /\ boot # "netload" /\ toLoader # <<>>
  /\ toLoader' = Tail(toLoader)
  /\ UNCHANGED <<loader, toHost, host>>

-----------------------------------------------------------------------------
Init ==
  /\ pc = "idle" /\ image = NoImage /\ off = 0 /\ attempt = 0 /\ pass = 0
  /\ sessions = Sessions
  /\ toLoader = <<>> /\ toHost = <<>>
  /\ boot = "off" /\ started = FALSE
  /\ img_len = 0 /\ img_crc = NoImage /\ next_off = 0
  /\ coderam = [i \in 0..(CODERAM_SIZE - 1) |-> Blank]
  /\ fresh = {}

HostStep ==
  \/ SendStart \/ SendData \/ SendExec
  \/ RecvStart \/ RecvData \/ RecvExec
  \/ TimeoutStart \/ TimeoutData \/ TimeoutExec
  \/ StartDeadline

LoaderStep == LoaderStart \/ LoaderData \/ LoaderExec

Next ==
  \/ \E img \in Images : RunTool(img)
  \/ Interrupt
  \/ HostStep
  \/ PowerOn \/ LoaderStep \/ WindowExpires \/ Unheard

(* The host's monotonic deadlines pass and its loop runs; the loader polls. *)
Spec == /\ Init /\ [][Next]_vars
        /\ WF_vars(HostStep)
        /\ SF_vars(StartDeadline)
        /\ WF_vars(PowerOn \/ LoaderStep \/ Unheard)
        /\ WF_vars(WindowExpires)
-----------------------------------------------------------------------------
Offsets == 0..CODERAM_SIZE

(* The type invariant: the host's attempts and passes never run below zero  *)
(* and the loader's offsets stay within coderam.                            *)
TypeOK ==
  /\ pc \in {"idle", "start", "waitStart", "data", "waitData", "exec", "waitExec", "done", "failed"}
  /\ image \in Images \cup {NoImage} /\ off \in Offsets
  /\ attempt \in 0..Retries /\ pass \in 0..PASSES /\ sessions \in 0..Sessions
  /\ Len(toLoader) <= LinkCap /\ Len(toHost) <= LinkCap
  /\ boot \in {"off", "netload", "flash", "running", "halted"} /\ started \in BOOLEAN
  /\ fresh \subseteq Offsets
  /\ img_len \in Offsets /\ img_crc \in Images \cup {NoImage} /\ next_off \in Offsets

(* However late, lost or repeated the frames and answers of this and of     *)
(* earlier passes, the loader's offset counts what was really stored: it    *)
(* stays within the length announced by the START it acted on, the bytes    *)
(* below it are exactly those written since that START, and each of them is *)
(* the byte some image has at that place, or arrived damaged.               *)
InPlace(i) == coderam[i] = Damaged \/ \E img \in Images : coderam[i] = Byte(img, i)
PrefixAssembled == (boot = "netload" /\ started) =>
  /\ next_off <= img_len /\ fresh = 0..(next_off - 1)
  /\ \A i \in fresh : InPlace(i)

(* The loader enters the firmware only with one whole undamaged image in    *)
(* coderam, the one announced by the START it acted on, even when the host  *)
(* took the answer to an earlier session's START for its own and sent the   *)
(* chunks of another image.                                                 *)
RunsAnnouncedImage ==
  boot = "running" =>
    /\ img_len = Size[img_crc]
    /\ \A i \in 0..(img_len - 1) : coderam[i] = Byte(img_crc, i)

(* "A lost or duplicated DATA frame already self-corrects": resends and     *)
(* resynchronisation never go round in circles, so the tool ends.           *)
HostEnds == pc \notin {"idle", "done", "failed"} ~> pc \in {"done", "failed"}

(* The loader's image: offsets in coderam and within the announced length,  *)
(* and below the offset bytes that were stored since START, each in its     *)
(* place.  (Whose image they are of is settled by the CRC at EXEC.)         *)
LoaderSound == TypeOK /\ PrefixAssembled
=============================================================================
