--------------------------- MODULE Netload_proofs ---------------------------
(***************************************************************************)
(* Safety of the image transfer for any images, chunk size, retry counts   *)
(* and link capacity, over links that lose and damage frames.              *)
(***************************************************************************)
EXTENDS Netload, TLAPS

(* What may be on the two links.                                            *)
ToLoader ==
  {START(i) : i \in Images} \cup {EXEC}
    \cup {DATA(i, o) : i \in Images, o \in Offsets}
    \cup {DamagedDATA(i, o) : i \in Images, o \in Offsets}
ToHost == [op : {"ACK", "NAK"}, off : Offsets]

Active == pc \notin {"idle", "done", "failed"}

(* The host: a running session has an image and passes left, and what it is *)
(* about to send lies within the image.                                     *)
HostInv ==
  /\ pc \in {"idle", "start", "waitStart", "data", "waitData", "exec", "waitExec", "done", "failed"}
  /\ image \in Images \cup {NoImage} /\ off \in Offsets
  /\ attempt \in 0..Retries /\ pass \in 0..PASSES /\ sessions \in 0..Sessions
  /\ Active => image \in Images /\ pass > 0

LinkInv ==
  /\ toLoader \in Seq(ToLoader) /\ Len(toLoader) <= LinkCap
  /\ toHost \in Seq(ToHost) /\ Len(toHost) <= LinkCap

(* The loader: once started, what was announced is one of the images, and   *)
(* the offset counts the bytes stored since, each in its place.             *)
LoaderInv ==
  /\ boot \in {"off", "netload", "flash", "running", "halted"} /\ started \in BOOLEAN
  /\ img_len \in Offsets /\ img_crc \in Images \cup {NoImage} /\ next_off \in Offsets
  /\ started => img_crc \in Images /\ img_len = Size[img_crc]
  /\ fresh \subseteq Offsets
  /\ PrefixAssembled
  /\ DOMAIN coderam = 0..(CODERAM_SIZE - 1)
  /\ RunsAnnouncedImage

NetloadInv == HostInv /\ LinkInv /\ LoaderInv

-----------------------------------------------------------------------------
LEMMA ConstantTypes ==
  /\ CODERAM_SIZE \in Nat /\ CHUNK \in Nat /\ CHUNK > 0
  /\ Retries \in Nat /\ Retries > 0 /\ PASSES \in Nat /\ PASSES > 0
  /\ Sessions \in Nat /\ LinkCap \in Nat /\ NoImage \notin Images
  /\ \A i \in Images : Size[i] \in Nat
BY NetloadAssumption

LEMMA TailFacts ==
  ASSUME NEW S, NEW s \in Seq(S), s # <<>>
  PROVE  /\ Tail(s) \in Seq(S) /\ Len(Tail(s)) = Len(s) - 1 /\ Len(s) \in Nat
         /\ Head(s) \in S
OBVIOUS

LEMMA AppendFacts ==
  ASSUME NEW S, NEW s \in Seq(S), NEW e \in S
  PROVE  Append(s, e) \in Seq(S) /\ Len(Append(s, e)) = Len(s) + 1 /\ Len(s) \in Nat
OBVIOUS

(* A link delivers what it was given or nothing, within its capacity.       *)
LEMMA CarriedFacts ==
  ASSUME NEW S, NEW link \in Seq(S), Len(link) <= LinkCap,
         NEW frames \in SUBSET S, NEW next \in Carried(link, frames)
  PROVE  next \in Seq(S) /\ Len(next) <= LinkCap
<1>1. CASE next = link
  BY <1>1
<1>2. ASSUME NEW m \in frames, Len(link) < LinkCap, next = Append(link, m)
      PROVE  next \in Seq(S) /\ Len(next) <= LinkCap
  <2>1. m \in S
    OBVIOUS
  <2>2. next \in Seq(S) /\ Len(next) = Len(link) + 1 /\ Len(link) \in Nat
    BY <1>2, <2>1, AppendFacts
  <2>. QED
    BY <1>2, <2>2, ConstantTypes
<1>3. next = link \/ \E m \in frames : Len(link) < LinkCap /\ next = Append(link, m)
  BY DEF Carried
<1>. QED
  BY <1>1, <1>2, <1>3

LEMMA TailLink ==
  ASSUME NEW S, NEW link \in Seq(S), Len(link) <= LinkCap, link # <<>>
  PROVE  Tail(link) \in Seq(S) /\ Len(Tail(link)) <= LinkCap /\ Head(link) \in S
BY TailFacts, ConstantTypes

(* Byte k of a DATA frame is the one that belongs k after its offset, or is *)
(* damaged.                                                                 *)
InFrame(f, k) ==
  f.payload[k] = Damaged \/ \E img \in Images : f.payload[k] = Byte(img, f.off + k)

(* What the loader reads from a frame.                                      *)
LEMMA FrameFacts ==
  ASSUME NEW f \in ToLoader
  PROVE  /\ f.op = "START" => f.crc \in Images /\ f.len = Size[f.crc]
         /\ f.op = "DATA" => /\ f.off \in Offsets /\ f.n \in Int
                             /\ \A k \in 0..(f.n - 1) : InFrame(f, k)
<1>1. ASSUME NEW i \in Images, f = START(i)
      PROVE  f.op = "START" /\ f.crc \in Images /\ f.len = Size[f.crc]
  BY <1>1 DEF START, crc32
<1>2. CASE f = EXEC
  BY <1>2 DEF EXEC
<1>3. ASSUME NEW i \in Images, NEW o \in Offsets, f = DATA(i, o) \/ f = DamagedDATA(i, o)
      PROVE  /\ f.op = "DATA" /\ f.off \in Offsets /\ f.n \in Int
             /\ \A k \in 0..(f.n - 1) : InFrame(f, k)
  <2>1. Min2(CHUNK, Size[i] - o) \in Int
    BY ConstantTypes DEF Min2, Offsets
  <2>2. f.op = "DATA" /\ f.off = o /\ f.n = Min2(CHUNK, Size[i] - o)
    BY <1>3 DEF DATA, DamagedDATA
  <2>3. \A k \in 0..(f.n - 1) : f.payload[k] = Damaged \/ f.payload[k] = Byte(i, o + k)
    <3>1. CASE f = DATA(i, o)
      <4>1. f.payload = [k \in 0..(f.n - 1) |-> Byte(i, o + k)]
        BY <3>1, <2>2 DEF DATA
      <4>. QED
        BY <4>1
    <3>2. CASE f = DamagedDATA(i, o)
      <4>1. f.payload = [k \in 0..(f.n - 1) |-> Damaged]
        BY <3>2, <2>2 DEF DamagedDATA
      <4>. QED
        BY <4>1
    <3>. QED
      BY <1>3, <3>1, <3>2
  <2>. QED
    BY <2>1, <2>2, <2>3 DEF InFrame
<1>4. \/ \E i \in Images : f = START(i)
      \/ f = EXEC
      \/ \E i \in Images, o \in Offsets : f = DATA(i, o) \/ f = DamagedDATA(i, o)
  BY DEF ToLoader
<1>. QED
  BY <1>1, <1>2, <1>3, <1>4

LEMMA InitNetload == Init => NetloadInv
<1> SUFFICES ASSUME Init PROVE NetloadInv
  OBVIOUS
<1>1. HostInv
  BY ConstantTypes DEF Init, HostInv, Active, Offsets
<1>2. LinkInv
  BY ConstantTypes DEF Init, LinkInv
<1>3. LoaderInv
  <2>1. /\ boot = "off" /\ started = FALSE /\ img_len = 0 /\ img_crc = NoImage
        /\ next_off = 0 /\ fresh = {}
    BY DEF Init
  <2>2. 0 \in Offsets
    BY ConstantTypes DEF Offsets
  <2>. QED
    BY <2>1, <2>2 DEF LoaderInv, RunsAnnouncedImage, PrefixAssembled, InPlace, Init
<1>. QED
  BY <1>1, <1>2, <1>3 DEF NetloadInv

-----------------------------------------------------------------------------
(* The host's steps.                                                        *)
LEMMA PassFailedKeeps ==
  ASSUME HostInv, Active, PassFailed, UNCHANGED <<image, sessions>>
  PROVE  HostInv'
<1>1. pass \in Nat /\ pass > 0 /\ pass <= PASSES /\ image \in Images
  BY ConstantTypes DEF HostInv
<1>2. pass' \in 0..PASSES /\ (pc' = "start" => pass' > 0) /\ pc' \in {"start", "failed"}
  BY <1>1, ConstantTypes DEF PassFailed
<1>3. off' \in Offsets /\ attempt' \in 0..Retries
  BY ConstantTypes DEF PassFailed, Offsets
<1>. QED
  BY <1>1, <1>2, <1>3 DEF HostInv, Active

LEMMA MoveToKeeps ==
  ASSUME HostInv, Active, NEW o \in Offsets, MoveTo(o), UNCHANGED <<image, sessions>>
  PROVE  HostInv'
<1>1. off' \in Offsets /\ attempt' \in 0..Retries /\ pass' = pass /\ pc' \in {"data", "exec"}
  BY ConstantTypes DEF MoveTo
<1>. QED
  BY <1>1 DEF HostInv, Active

LEMMA RetryKeeps ==
  ASSUME HostInv, Active, NEW next \in {"data", "exec"}, Retry(next), UNCHANGED <<image, sessions>>
  PROVE  HostInv'
<1>1. CASE attempt > 1
  <2>1. attempt' \in 0..Retries /\ pc' = next /\ UNCHANGED <<off, pass>>
    BY <1>1, ConstantTypes DEF Retry, HostInv
  <2>. QED
    BY <2>1 DEF HostInv, Active
<1>2. CASE ~(attempt > 1)
  BY <1>2, PassFailedKeeps DEF Retry
<1>. QED
  BY <1>1, <1>2

(* A step that only moves the host between sending and waiting.             *)
LEMMA SamePassKeeps ==
  ASSUME HostInv, Active, UNCHANGED <<image, off, attempt, pass, sessions>>,
         pc' \in {"start", "waitStart", "data", "waitData", "exec", "waitExec", "done", "failed"}
  PROVE  HostInv'
BY DEF HostInv, Active

LEMMA SendKeeps ==
  ASSUME HostInv, LinkInv, SendStart \/ SendData \/ SendExec
  PROVE  HostInv' /\ LinkInv'
<1>1. Active /\ image \in Images /\ off \in Offsets
  BY DEF HostInv, Active, SendStart, SendData, SendExec
<1>2. HostInv'
  BY <1>1, SamePassKeeps DEF SendStart, SendData, SendExec
<1>3. \E frames \in SUBSET ToLoader : toLoader' \in Carried(toLoader, frames)
  <2>1. CASE SendStart
    <3>1. {START(image)} \in SUBSET ToLoader
      BY <1>1 DEF ToLoader
    <3>. QED
      BY <2>1, <3>1 DEF SendStart
  <2>2. CASE SendData
    <3> DEFINE fs == {DATA(image, off)} \cup IF Damaging THEN {DamagedDATA(image, off)} ELSE {}
    <3>1. fs \in SUBSET ToLoader
      BY <1>1 DEF ToLoader
    <3>2. toLoader' \in Carried(toLoader, fs)
      BY <2>2 DEF SendData
    <3> HIDE DEF fs
    <3>. QED
      BY <3>1, <3>2
  <2>3. CASE SendExec
    <3>1. {EXEC} \in SUBSET ToLoader
      BY DEF ToLoader
    <3>. QED
      BY <2>3, <3>1 DEF SendExec
  <2>. QED
    BY <2>1, <2>2, <2>3
<1>4. toLoader' \in Seq(ToLoader) /\ Len(toLoader') <= LinkCap
  BY <1>3, CarriedFacts DEF LinkInv
<1>5. toHost' = toHost
  BY DEF SendStart, SendData, SendExec
<1>. QED
  BY <1>2, <1>4, <1>5 DEF LinkInv

LEMMA RecvKeeps ==
  ASSUME HostInv, LinkInv, RecvStart \/ RecvData \/ RecvExec
  PROVE  HostInv' /\ LinkInv'
<1>1. /\ Active /\ toHost # <<>> /\ toHost' = Tail(toHost)
      /\ UNCHANGED <<image, sessions, toLoader>>
  BY DEF Active, RecvStart, RecvData, RecvExec
<1>2. toHost' \in Seq(ToHost) /\ Len(toHost') <= LinkCap /\ Answer \in ToHost
  BY <1>1, TailLink DEF LinkInv, Answer
<1>3. Answer.off \in Offsets /\ 0 \in Offsets
  BY <1>2, ConstantTypes DEF ToHost, Offsets
<1>4. ASSUME RecvStart PROVE HostInv'
  BY <1>1, <1>3, <1>4, MoveToKeeps, SamePassKeeps DEF RecvStart
<1>5. ASSUME RecvData PROVE HostInv'
  BY <1>1, <1>3, <1>5, MoveToKeeps, PassFailedKeeps, RetryKeeps DEF RecvData
<1>6. ASSUME RecvExec PROVE HostInv'
  BY <1>1, <1>6, PassFailedKeeps, SamePassKeeps DEF RecvExec
<1>7. LinkInv'
  BY <1>1, <1>2 DEF LinkInv
<1>8. HostInv'
  BY <1>4, <1>5, <1>6
<1>. QED
  BY <1>7, <1>8

LEMMA TimeoutKeeps ==
  ASSUME HostInv, LinkInv, TimeoutStart \/ TimeoutData \/ TimeoutExec \/ StartDeadline
  PROVE  HostInv' /\ LinkInv'
<1>1. Active /\ UNCHANGED <<image, sessions, toLoader, toHost>>
  BY DEF Active, TimeoutStart, TimeoutData, TimeoutExec, StartDeadline
<1>2. ASSUME TimeoutStart PROVE HostInv'
  BY <1>1, <1>2, SamePassKeeps DEF TimeoutStart
<1>3. ASSUME TimeoutData \/ TimeoutExec PROVE HostInv'
  BY <1>1, <1>3, RetryKeeps DEF TimeoutData, TimeoutExec
<1>4. ASSUME StartDeadline PROVE HostInv'
  BY <1>1, <1>4, PassFailedKeeps, SamePassKeeps DEF StartDeadline
<1>5. LinkInv'
  BY <1>1 DEF LinkInv
<1>. QED
  BY <1>2, <1>3, <1>4, <1>5

LEMMA OperatorKeeps ==
  ASSUME HostInv, LinkInv, NEW img \in Images, RunTool(img) \/ Interrupt
  PROVE  HostInv' /\ LinkInv'
<1>1. CASE RunTool(img)
  <2>1. /\ sessions' \in 0..Sessions /\ off' \in Offsets /\ attempt' \in 0..Retries
        /\ pass' \in 0..PASSES /\ pass' > 0
    BY <1>1, ConstantTypes DEF RunTool, HostInv, Offsets
  <2>2. HostInv'
    BY <1>1, <2>1 DEF RunTool, HostInv, Active
  <2>3. LinkInv'
    BY <1>1, ConstantTypes DEF RunTool, LinkInv
  <2>. QED
    BY <2>2, <2>3
<1>2. CASE Interrupt
  BY <1>2 DEF Interrupt, HostInv, LinkInv, Active
<1>. QED
  BY <1>1, <1>2

-----------------------------------------------------------------------------
(* The loader's steps.                                                      *)
LEMMA ReplyFacts ==
  ASSUME LinkInv, NEW o \in Offsets, Reply(ACK(o)) \/ Reply(NAK(o))
  PROVE  toHost' \in Seq(ToHost) /\ Len(toHost') <= LinkCap
<1>1. {ACK(o)} \in SUBSET ToHost /\ {NAK(o)} \in SUBSET ToHost
  BY DEF ACK, NAK, ToHost
<1>. QED
  BY <1>1, CarriedFacts DEF Reply, LinkInv

LEMMA FrameTaken ==
  ASSUME LinkInv, NEW op, Frame(op)
  PROVE  /\ Head(toLoader) \in ToLoader /\ Head(toLoader).op = op /\ boot = "netload"
         /\ toLoader' \in Seq(ToLoader) /\ Len(toLoader') <= LinkCap
BY TailLink DEF LinkInv, Frame

LEMMA LoaderStartKeeps ==
  ASSUME NetloadInv, LoaderStart
  PROVE  LinkInv' /\ LoaderInv'
<1> DEFINE f == Head(toLoader)
<1>0. LinkInv /\ LoaderInv /\ 0 \in Offsets
  BY ConstantTypes DEF NetloadInv, Offsets
<1>1. /\ f \in ToLoader /\ f.op = "START" /\ boot = "netload"
      /\ toLoader' \in Seq(ToLoader) /\ Len(toLoader') <= LinkCap
  BY <1>0, FrameTaken DEF LoaderStart
<1>2. f.crc \in Images /\ f.len = Size[f.crc] /\ f.len \in Nat
  BY <1>1, FrameFacts, ConstantTypes
<1>3. CASE f.len = 0 \/ f.len > CODERAM_SIZE
  <2>1. /\ Reply(NAK(0)) /\ UNCHANGED <<started, img_len, img_crc, next_off, fresh, boot, coderam>>
    BY <1>3 DEF LoaderStart
  <2>2. LoaderInv'
    BY <1>0, <2>1 DEF LoaderInv, RunsAnnouncedImage, PrefixAssembled, InPlace
  <2>. QED
    BY <1>0, <1>1, <2>1, <2>2, ReplyFacts DEF LinkInv
<1>4. CASE ~(f.len = 0 \/ f.len > CODERAM_SIZE)
  <2>1. /\ Reply(ACK(0)) /\ img_len' = f.len /\ img_crc' = f.crc /\ next_off' = 0
        /\ started' = TRUE /\ fresh' = {} /\ boot' = boot
    BY <1>4 DEF LoaderStart
  <2>2. f.len \in Offsets
    BY <1>2, <1>4, ConstantTypes DEF Offsets
  <2>3. fresh' = 0..(next_off' - 1)
    BY <2>1
  <2>4. PrefixAssembled'
    <3>1. 0 <= img_len'
      BY <1>2, <2>1
    <3>. QED
      BY <2>1, <2>3, <3>1 DEF PrefixAssembled
  <2>5. coderam' = coderam
    BY DEF LoaderStart
  <2>6. LoaderInv'
    BY <1>0, <1>1, <1>2, <2>1, <2>2, <2>3, <2>4, <2>5 DEF LoaderInv, RunsAnnouncedImage
  <2>. QED
    BY <1>0, <1>1, <2>1, <2>6, ReplyFacts DEF LinkInv
<1>. QED
  BY <1>3, <1>4

LEMMA LoaderDataKeeps ==
  ASSUME NetloadInv, LoaderData
  PROVE  LinkInv' /\ LoaderInv'
<1> DEFINE f == Head(toLoader)
<1>0. LinkInv /\ LoaderInv /\ next_off \in Offsets
  BY DEF NetloadInv, LoaderInv
<1>1. /\ f \in ToLoader /\ f.op = "DATA" /\ boot = "netload"
      /\ toLoader' \in Seq(ToLoader) /\ Len(toLoader') <= LinkCap
  BY <1>0, FrameTaken DEF LoaderData
<1>2. /\ f.off \in Offsets /\ f.n \in Int
      /\ \A k \in 0..(f.n - 1) : InFrame(f, k)
  BY <1>1, FrameFacts
<1>3. UNCHANGED <<boot, started, img_len, img_crc>>
  BY DEF LoaderData
<1>4. CASE ~started
  <2>1. UNCHANGED <<next_off, coderam, fresh, toHost>>
    BY <1>4 DEF LoaderData
  <2>. QED
    BY <1>0, <1>1, <1>3, <2>1 DEF LinkInv, LoaderInv, RunsAnnouncedImage, PrefixAssembled, InPlace
<1>5. CASE started /\ Accepts(f)
  <2>1. /\ next_off' = f.off + f.n /\ Reply(ACK(f.off + f.n))
        /\ fresh' = fresh \cup f.off..(f.off + f.n - 1)
    BY <1>5 DEF LoaderData
  <2>2. f.n > 0 /\ f.off = next_off /\ f.off + f.n <= img_len
    BY <1>5 DEF Accepts
  <2>3. /\ img_len \in 0..CODERAM_SIZE /\ next_off \in 0..CODERAM_SIZE
        /\ fresh = 0..(next_off - 1) /\ \A i \in fresh : InPlace(i)
    BY <1>0, <1>1, <1>5 DEF LoaderInv, PrefixAssembled, Offsets
  <2>4. f.off + f.n \in Offsets
    BY <1>2, <2>2, <2>3, ConstantTypes DEF Offsets
  <2>5. fresh' = 0..(next_off' - 1) /\ fresh' \subseteq Offsets
    <3>1. /\ next_off \in Nat /\ f.n \in Nat /\ next_off' = next_off + f.n
          /\ next_off' <= CODERAM_SIZE
      BY <1>2, <2>1, <2>2, <2>3, ConstantTypes
    <3>2. fresh' = 0..(next_off - 1) \cup next_off..(next_off + f.n - 1)
      BY <2>1, <2>2, <2>3
    <3>3. \A i : i \in fresh' <=> i \in 0..(next_off + f.n - 1)
      BY <3>1, <3>2
    <3>4. fresh' = 0..(next_off + f.n - 1)
      BY <3>3
    <3>. QED
      BY <3>1, <3>4, ConstantTypes DEF Offsets
  <2>6. /\ DOMAIN coderam' = 0..(CODERAM_SIZE - 1)
        /\ \A i \in fresh' : InPlace(i)'
    <3> SUFFICES ASSUME NEW i \in fresh'
                 PROVE  DOMAIN coderam' = DOMAIN coderam /\ InPlace(i)'
      <4>1. DOMAIN coderam' = DOMAIN coderam
        BY <1>5 DEF LoaderData
      <4>. QED
        BY <1>0, <4>1 DEF LoaderInv
    <3>1. coderam' = [j \in DOMAIN coderam |->
            IF j \in f.off..(f.off + f.n - 1) THEN f.payload[j - f.off] ELSE coderam[j]]
      BY <1>5 DEF LoaderData
    <3>2. i \in DOMAIN coderam /\ i \in Nat
      BY <1>0, <1>2, <2>1, <2>2, <2>3, ConstantTypes DEF LoaderInv, Offsets
    <3>3. CASE i \in f.off..(f.off + f.n - 1)
      <4>1. i - f.off \in 0..(f.n - 1) /\ f.off + (i - f.off) = i
        BY <1>2, <3>3 DEF Offsets
      <4>2. InFrame(f, i - f.off)
        BY <1>2, <4>1
      <4>. QED
        BY <3>1, <3>2, <3>3, <4>1, <4>2 DEF InFrame, InPlace
    <3>4. CASE i \notin f.off..(f.off + f.n - 1)
      <4>1. InPlace(i)
        BY <2>1, <2>3, <3>4
      <4>. QED
        BY <3>1, <3>2, <3>4, <4>1 DEF InPlace
    <3>. QED
      BY <3>1, <3>3, <3>4
  <2>7. next_off' <= img_len'
    BY <1>3, <2>1, <2>2
  <2>8. LoaderInv'
    BY <1>0, <1>1, <1>3, <2>1, <2>4, <2>5, <2>6, <2>7 DEF LoaderInv, RunsAnnouncedImage, PrefixAssembled, InPlace
  <2>. QED
    BY <1>0, <1>1, <2>1, <2>4, <2>8, ReplyFacts DEF LinkInv
<1>6. CASE started /\ ~Accepts(f)
  <2>1. Reply(ACK(next_off)) /\ UNCHANGED <<next_off, coderam, fresh>>
    BY <1>6 DEF LoaderData
  <2>2. LoaderInv'
    BY <1>0, <1>3, <2>1 DEF LoaderInv, RunsAnnouncedImage, PrefixAssembled, InPlace
  <2>. QED
    BY <1>0, <1>1, <2>1, <2>2, ReplyFacts DEF LinkInv
<1>. QED
  BY <1>4, <1>5, <1>6

(* A checksum of coderam that equals the announced one: coderam holds that  *)
(* image in full.                                                           *)
LEMMA VerifiedImage ==
  ASSUME img_crc \in Images, Verified
  PROVE  img_len = Size[img_crc] /\ \A i \in 0..(img_len - 1) : coderam[i] = Byte(img_crc, i)
<1> DEFINE Holds(img) == Size[img] = img_len /\ \A i \in 0..(img_len - 1) : coderam[i] = Byte(img, i)
<1>1. CrcOfCoderam(img_len) = IF \E img \in Images : Holds(img)
                                THEN CHOOSE img \in Images : Holds(img) ELSE NoImage
  BY DEF CrcOfCoderam
<1> HIDE DEF Holds
<1>2. \E img \in Images : Holds(img)
  BY <1>1, ConstantTypes DEF Verified
<1>3. Holds(CHOOSE img \in Images : Holds(img))
  BY <1>2
<1>4. Holds(img_crc)
  BY <1>1, <1>2, <1>3 DEF Verified
<1>. QED
  BY <1>4 DEF Holds

LEMMA LoaderExecKeeps ==
  ASSUME NetloadInv, LoaderExec
  PROVE  LinkInv' /\ LoaderInv'
<1>0. LinkInv /\ LoaderInv /\ next_off \in Offsets /\ img_len \in Offsets
  BY DEF NetloadInv, LoaderInv
<1>1. boot = "netload" /\ toLoader' \in Seq(ToLoader) /\ Len(toLoader') <= LinkCap
  BY <1>0, FrameTaken DEF LoaderExec
<1>2. UNCHANGED <<img_len, img_crc, next_off, coderam, fresh>>
  BY DEF LoaderExec
<1>3. CASE ~started
  <2>1. UNCHANGED <<boot, started, toHost>>
    BY <1>3 DEF LoaderExec
  <2>. QED
    BY <1>0, <1>1, <1>2, <2>1 DEF LinkInv, LoaderInv, RunsAnnouncedImage, PrefixAssembled, InPlace
<1>4. CASE started /\ next_off # img_len
  <2>1. Reply(NAK(next_off)) /\ UNCHANGED <<boot, started>>
    BY <1>4 DEF LoaderExec
  <2>2. LoaderInv'
    BY <1>0, <1>2, <2>1 DEF LoaderInv, RunsAnnouncedImage, PrefixAssembled, InPlace
  <2>. QED
    BY <1>0, <1>1, <2>1, <2>2, ReplyFacts DEF LinkInv
<1>5. CASE started /\ next_off = img_len /\ Verified
  <2>1. Reply(ACK(img_len)) /\ boot' = "running" /\ started' = started
    BY <1>5 DEF LoaderExec
  <2>2. img_len = Size[img_crc] /\ \A i \in 0..(img_len - 1) : coderam[i] = Byte(img_crc, i)
    BY <1>0, <1>5, VerifiedImage DEF LoaderInv
  <2>3. RunsAnnouncedImage'
    BY <1>2, <2>2 DEF RunsAnnouncedImage
  <2>4. LoaderInv'
    BY <1>0, <1>2, <2>1, <2>3 DEF LoaderInv, PrefixAssembled
  <2>. QED
    BY <1>0, <1>1, <2>1, <2>4, ReplyFacts DEF LinkInv
<1>6. CASE started /\ next_off = img_len /\ ~Verified
  <2>1. Reply(NAK(next_off)) /\ started' = FALSE /\ boot' = boot
    BY <1>6 DEF LoaderExec
  <2>2. LoaderInv'
    BY <1>0, <1>1, <1>2, <2>1 DEF LoaderInv, RunsAnnouncedImage, PrefixAssembled, InPlace
  <2>. QED
    BY <1>0, <1>1, <2>1, <2>2, ReplyFacts DEF LinkInv
<1>. QED
  BY <1>3, <1>4, <1>5, <1>6

LEMMA BootKeeps ==
  ASSUME NetloadInv, PowerOn \/ WindowExpires \/ Unheard
  PROVE  LinkInv' /\ LoaderInv'
<1>0. LinkInv /\ LoaderInv
  BY DEF NetloadInv
<1>1. CASE PowerOn
  BY <1>0, <1>1 DEF PowerOn, LinkInv, LoaderInv, RunsAnnouncedImage, PrefixAssembled, InPlace
<1>2. CASE WindowExpires
  BY <1>0, <1>2 DEF WindowExpires, LinkInv, LoaderInv, RunsAnnouncedImage, PrefixAssembled, InPlace
<1>3. CASE Unheard
  <2>1. toLoader' \in Seq(ToLoader) /\ Len(toLoader') <= LinkCap
    BY <1>0, <1>3, TailLink DEF Unheard, LinkInv
  <2>. QED
    BY <1>0, <1>3, <2>1 DEF Unheard, loader, LinkInv, LoaderInv, RunsAnnouncedImage, PrefixAssembled, InPlace
<1>. QED
  BY <1>1, <1>2, <1>3

LEMMA NextNetload == NetloadInv /\ [Next]_vars => NetloadInv'
<1> SUFFICES ASSUME NetloadInv, [Next]_vars PROVE NetloadInv'
  OBVIOUS
<1>0. HostInv /\ LinkInv /\ LoaderInv
  BY DEF NetloadInv
<1>1. ASSUME UNCHANGED loader PROVE LoaderInv'
  BY <1>0, <1>1 DEF loader, LoaderInv, RunsAnnouncedImage, PrefixAssembled, InPlace
<1>2. ASSUME UNCHANGED host PROVE HostInv'
  BY <1>0, <1>2 DEF host, HostInv, Active
<1>3. ASSUME NEW img \in Images, RunTool(img) PROVE NetloadInv'
  <2>1. UNCHANGED loader
    BY <1>3 DEF RunTool
  <2>. QED
    BY <1>0, <1>1, <1>3, <2>1, OperatorKeeps DEF NetloadInv
<1>4. CASE Interrupt
  <2>1. UNCHANGED loader /\ HostInv' /\ LinkInv'
    BY <1>0, <1>4 DEF Interrupt, HostInv, LinkInv, Active
  <2>. QED
    BY <1>1, <2>1 DEF NetloadInv
<1>5. CASE HostStep
  <2>1. UNCHANGED loader
    BY <1>5 DEF HostStep, SendStart, SendData, SendExec, RecvStart, RecvData, RecvExec,
                TimeoutStart, TimeoutData, TimeoutExec, StartDeadline
  <2>2. HostInv' /\ LinkInv'
    BY <1>0, <1>5, SendKeeps, RecvKeeps, TimeoutKeeps DEF HostStep
  <2>. QED
    BY <1>1, <2>1, <2>2 DEF NetloadInv
<1>6. CASE PowerOn \/ LoaderStep \/ WindowExpires \/ Unheard
  <2>1. UNCHANGED host
    BY <1>6 DEF PowerOn, LoaderStep, LoaderStart, LoaderData, LoaderExec, WindowExpires, Unheard
  <2>2. LinkInv' /\ LoaderInv'
    BY <1>6, BootKeeps, LoaderStartKeeps, LoaderDataKeeps, LoaderExecKeeps DEF LoaderStep
  <2>. QED
    BY <1>2, <2>1, <2>2 DEF NetloadInv
<1>7. CASE UNCHANGED vars
  <2>1. UNCHANGED host /\ UNCHANGED loader /\ LinkInv'
    BY <1>0, <1>7 DEF vars, LinkInv
  <2>. QED
    BY <1>1, <1>2, <2>1 DEF NetloadInv
<1>. QED
  BY <1>3, <1>4, <1>5, <1>6, <1>7 DEF Next

LEMMA NetloadAlways == Spec => []NetloadInv
BY InitNetload, NextNetload, PTL DEF Spec

(* The retry counters never run below zero, the loader's offset stays       *)
(* within the announced length and counts exactly the bytes stored since    *)
(* the START it acted on, and each of these is in its place, whatever is    *)
(* lost, late or repeated.                                                  *)
THEOREM LoaderStaysSound == Spec => []LoaderSound
<1>1. NetloadInv => LoaderSound
  BY DEF NetloadInv, HostInv, LinkInv, LoaderInv, LoaderSound, TypeOK, PrefixAssembled
<1>. QED
  BY <1>1, NetloadAlways, PTL

(* The firmware is entered only with the announced image in coderam, whole  *)
(* and undamaged.                                                           *)
THEOREM OnlyAnnouncedImageRuns == Spec => []RunsAnnouncedImage
<1>1. NetloadInv => RunsAnnouncedImage
  BY DEF NetloadInv, LoaderInv
<1>. QED
  BY <1>1, NetloadAlways, PTL
=============================================================================
