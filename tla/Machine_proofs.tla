-------------------------- MODULE Machine_proofs --------------------------
(***************************************************************************)
(* Proofs about the machine, for every value of the constants: a counted   *)
(* sound and its length counter (SoundLength), the OAM transfer (OamDma),  *)
(* the clocks of the sound and picture units with HBlank DMA (BusClock),   *)
(* the control part of the processor (Cpu), the timer against the cycles   *)
(* it stands for (Timer, TimerCycles), and the picture unit's shortcuts    *)
(* against its dots (PictureTiming).                                       *)
(***************************************************************************)
EXTENDS SoundLength, OamDma, BusClock, Cpu, Timer, PictureTiming, Iteration,
        SequenceTheorems

-----------------------------------------------------------------------------
(* Sound.                                                                  *)
Tones == [on : BOOLEAN, dac : BOOLEAN, counts : BOOLEAN, length : 0 .. FullLength,
          booted : BOOLEAN]

Lasting(v) == v.on /\ ~v.booted => v.length # 0

(* The inductive invariant. CountedSoundsEnd alone is not one: a sound     *)
(* that plays on with its counter off must have a length too, or switching *)
(* the counter on would leave it nothing to count.                         *)
SoundInv == LengthTypeOK /\ Lasting(tone)

-----------------------------------------------------------------------------
(* What the helpers of the register writes return. A clock that takes the  *)
(* last of a length switches the channel off, unless the write that causes *)
(* it triggers the channel, and a trigger gives it a length again.         *)
CountedDown(v, on) == [v EXCEPT !.length = v.length - 1, !.on = on]

LEMMA CountedDownIsTone ==
    ASSUME NEW v \in Tones, v.length # 0, NEW on \in BOOLEAN
    PROVE  /\ CountedDown(v, on) \in Tones
           /\ CountedDown(v, on).on = on
           /\ CountedDown(v, on).length = v.length - 1
<1>1. v.length - 1 \in 0 .. FullLength
  BY FullAssumption DEF Tones
<1>2. ASSUME NEW n \in 0 .. FullLength
      PROVE  LET w == [v EXCEPT !.length = n, !.on = on]
             IN  w \in Tones /\ w.on = on /\ w.length = n
  BY DEF Tones
<1>3. QED
  BY <1>1, <1>2 DEF CountedDown

LEMMA ClockedKeeps ==
    ASSUME NEW v \in Tones, Lasting(v)
    PROVE  ClockedLength(v) \in Tones /\ Lasting(ClockedLength(v))
<1> DEFINE b == v.on /\ v.length # 1
           w == CountedDown(v, b)
<1>1. CASE ~v.counts \/ v.length = 0
  BY <1>1 DEF ClockedLength
<1>2. CASE v.counts /\ v.length # 0
  <2>1. ClockedLength(v) = w
    BY <1>2 DEF ClockedLength, CountedDown
  <2>2. b => v.length - 1 # 0
    BY <1>2, FullAssumption DEF Tones
  <2>3. b \in BOOLEAN
    OBVIOUS
  <2> HIDE DEF b
  <2>4. w \in Tones /\ w.on = b /\ w.length = v.length - 1
    BY <1>2, <2>3, CountedDownIsTone
  <2>5. QED
    BY <2>1, <2>2, <2>4 DEF Lasting
<1>3. QED
  BY <1>1, <1>2 DEF Tones

LEMMA ExtraClockedKeeps ==
    ASSUME NEW v \in Tones, NEW counts \in BOOLEAN, NEW trigger \in BOOLEAN, Lasting(v)
    PROVE  /\ ExtraClocked(v, counts, trigger) \in Tones
           /\ ~trigger => Lasting(ExtraClocked(v, counts, trigger))
<1> DEFINE b == v.on /\ (v.length # 1 \/ trigger)
           w == CountedDown(v, b)
<1>1. CASE ~(counts /\ ~v.counts /\ NextStepSkips /\ v.length # 0)
  BY <1>1 DEF ExtraClocked
<1>2. CASE counts /\ ~v.counts /\ NextStepSkips /\ v.length # 0
  <2>1. ExtraClocked(v, counts, trigger) = w
    BY <1>2 DEF ExtraClocked, CountedDown
  <2>2. b /\ ~trigger => v.length - 1 # 0
    BY <1>2, FullAssumption DEF Tones
  <2>3. b \in BOOLEAN
    OBVIOUS
  <2> HIDE DEF b
  <2>4. w \in Tones /\ w.on = b /\ w.length = v.length - 1
    BY <1>2, <2>3, CountedDownIsTone
  <2>5. QED
    BY <2>1, <2>2, <2>4 DEF Lasting
<1>3. QED
  BY <1>1, <1>2

LEMMA TriggeredLasts ==
    ASSUME NEW v \in Tones, NEW counts \in BOOLEAN
    PROVE  Triggered(v, counts) \in Tones /\ Triggered(v, counts).length # 0
<1> DEFINE full == IF v.length # 0 THEN v.length
                   ELSE IF counts /\ NextStepSkips THEN FullLength - 1 ELSE FullLength
<1>1. full \in 0 .. FullLength /\ full # 0
  BY FullAssumption DEF Tones
<1>2. Triggered(v, counts) = [v EXCEPT !.on = v.dac, !.booted = FALSE, !.length = full]
  BY DEF Triggered
<1> HIDE DEF full
<1>3. QED
  BY <1>1, <1>2 DEF Tones

LEMMA ControlledKeeps ==
    ASSUME NEW v \in Tones, NEW counts \in BOOLEAN, NEW trigger \in BOOLEAN, Lasting(v)
    PROVE  Controlled(v, counts, trigger) \in Tones /\ Lasting(Controlled(v, counts, trigger))
<1> DEFINE extra   == ExtraClocked(v, counts, trigger)
           counted == [extra EXCEPT !.counts = counts]
<1>1. extra \in Tones /\ (~trigger => Lasting(extra))
  BY ExtraClockedKeeps
<1>2. counted \in Tones /\ (~trigger => Lasting(counted))
  BY <1>1 DEF Tones, Lasting
<1>3. CASE trigger
  <2>1. Controlled(v, counts, trigger) = Triggered(counted, counts)
    BY <1>3 DEF Controlled
  <2>2. QED
    BY <2>1, <1>2, TriggeredLasts DEF Lasting
<1>4. CASE ~trigger
  BY <1>4, <1>2 DEF Controlled
<1>5. QED
  BY <1>3, <1>4

-----------------------------------------------------------------------------
LEMMA SoundInvInit == LengthInit => SoundInv
<1> SUFFICES ASSUME LengthInit PROVE SoundInv
  OBVIOUS
<1>1. Voiceless \in Tones /\ ~Voiceless.on
  BY FullAssumption DEF Voiceless, Tones
<1> DEFINE booted == [Voiceless EXCEPT !.on = TRUE, !.dac = TRUE, !.booted = TRUE]
<1>2. booted \in Tones /\ booted.booted
  BY <1>1 DEF Tones
<1>3. tone \in Tones /\ Lasting(tone)
  <2>1. tone = Voiceless \/ tone = booted
    BY DEF LengthInit
  <2> HIDE DEF booted
  <2>2. QED
    BY <1>1, <1>2, <2>1 DEF Lasting
<1>4. onCgb \in Cgbs /\ frame \in [powered : BOOLEAN, step : 0 .. 7, skip : BOOLEAN]
  <2>1. [powered : {TRUE}, step : {0}, skip : BOOLEAN]
           \subseteq [powered : BOOLEAN, step : 0 .. 7, skip : BOOLEAN]
    <3>1. {TRUE} \subseteq BOOLEAN /\ {0} \subseteq 0 .. 7
      OBVIOUS
    <3>2. QED
      BY <3>1, Zenon
  <2>2. QED
    BY <2>1 DEF LengthInit
<1>5. QED
  BY <1>3, <1>4 DEF SoundInv, LengthTypeOK, Tones

LEMMA SoundInvNext == SoundInv /\ [LengthNext]_lengthVars => SoundInv'
<1> SUFFICES ASSUME SoundInv, [LengthNext]_lengthVars
             PROVE  SoundInv'
  OBVIOUS
<1> USE FullAssumption, CgbsAssumption
<1>0. tone \in Tones /\ Lasting(tone) /\ onCgb \in BOOLEAN
  BY DEF SoundInv, LengthTypeOK, Tones
<1>a. SUFFICES /\ onCgb' \in Cgbs
               /\ frame' \in [powered : BOOLEAN, step : 0 .. 7, skip : BOOLEAN]
               /\ tone' \in Tones /\ Lasting(tone')
  BY DEF SoundInv, LengthTypeOK, Tones, Lasting
<1>1. CASE ClockSequencer
  <2>1. frame' \in [powered : BOOLEAN, step : 0 .. 7, skip : BOOLEAN]
    <3>1. frame' = [frame EXCEPT !.skip = FALSE]
            \/ frame' = [frame EXCEPT !.step = (frame.step + 1) % 8]
      BY <1>1 DEF ClockSequencer
    <3>2. (frame.step + 1) % 8 \in 0 .. 7
      BY DEF SoundInv, LengthTypeOK
    <3>3. QED
      BY <3>1, <3>2 DEF SoundInv, LengthTypeOK
  <2>2. QED
    BY <2>1, <1>1, <1>0, ClockedKeeps DEF ClockSequencer, SoundInv, LengthTypeOK
<1>2. CASE Overflow
  BY <1>2, <1>0 DEF Overflow, SoundInv, LengthTypeOK, Tones, Lasting
<1>3. CASE PowerOff
  <2>1. (IF onCgb THEN 0 ELSE tone.length) \in 0 .. FullLength
    BY <1>0 DEF Tones
  <2>2. tone' \in Tones /\ ~tone'.on
    BY <1>3, <2>1 DEF PowerOff, Voiceless, Tones
  <2>3. QED
    BY <1>3, <2>2 DEF PowerOff, SoundInv, LengthTypeOK, Lasting
<1>4. ASSUME NEW signal \in BOOLEAN, PowerOn(signal) PROVE SoundInv'
  BY <1>4, <1>0 DEF PowerOn, SoundInv, LengthTypeOK, Tones, Lasting
<1>5. ASSUME NEW n \in 1 .. FullLength, SetLength(n) PROVE SoundInv'
  BY <1>5, <1>0 DEF SetLength, SoundInv, LengthTypeOK, Tones, Lasting
<1>6. ASSUME NEW dac \in BOOLEAN, SetDac(dac) PROVE SoundInv'
  BY <1>6, <1>0 DEF SetDac, SoundInv, LengthTypeOK, Tones, Lasting
<1>7. ASSUME NEW counts \in BOOLEAN, NEW trigger \in BOOLEAN, ControlTone(counts, trigger)
      PROVE  SoundInv'
  BY <1>7, <1>0, ControlledKeeps
  DEF ControlTone, SoundInv, LengthTypeOK, Tones, Lasting
<1>8. CASE UNCHANGED lengthVars
  BY <1>8, <1>0 DEF lengthVars, SoundInv, LengthTypeOK
<1>9. QED
  BY <1>1, <1>2, <1>3, <1>4, <1>5, <1>6, <1>7, <1>8 DEF LengthNext, SoundInv, LengthTypeOK, Tones, Lasting

-----------------------------------------------------------------------------
(* No write and no clock leaves a playing sound without a length           *)
(* (apu.cpp).                                                              *)
THEOREM SoundInvariant == LengthSpec => []SoundInv
BY SoundInvInit, SoundInvNext, PTL DEF LengthSpec

(* The frame sequencer, the length and the channel's flags stay what the   *)
(* registers can hold (apu.cpp), for either length of counter.             *)
THEOREM SoundTypes == LengthSpec => []LengthTypeOK
<1>1. SoundInv => LengthTypeOK
  BY DEF SoundInv
<1>2. QED
  BY <1>1, SoundInvariant, PTL

(* A sound whose counter is on has a length left to count, whatever the    *)
(* order of the writes and the clocks (apu.cpp, write_control).            *)
THEOREM SoundsEnd == LengthSpec => []CountedSoundsEnd
<1>1. SoundInv => CountedSoundsEnd
  BY FullAssumption DEF SoundInv, LengthTypeOK, Lasting, CountedSoundsEnd
<1>2. QED
  BY <1>1, SoundInvariant, PTL

-----------------------------------------------------------------------------
(* The OAM transfer and the clocks of the bus.                             *)
Boards == {"dmg", "compatible", "cgb"}
Dmas == [active : BOOLEAN, source : Origins, index : 0 .. Bytes,
         cycle : 0 .. (ByteCycles - 1), pending : Origins, delay : 0 .. StartCycles]

\* The byte a transfer is at is a byte of OAM.
AtAByte == dma.active => dma.index # Bytes

\* The processor reaches neither the source nor OAM while it is copied.
CopiedSoFar == dma.active => touched = {} /\ intact = 0 .. (dma.index - 1)

DmaInv == DmaTypeOK /\ AtAByte /\ TakesItsTime /\ CopiedSoFar

-----------------------------------------------------------------------------
(* The arithmetic of a transfer: bytes take ByteCycles each, and at the    *)
(* last cycle of the last byte all of its time has passed.                 *)
LEMMA NextByte ==
    ASSUME NEW n \in Nat
    PROVE  (n + 1) * ByteCycles = n * ByteCycles + ByteCycles
BY OamDmaAssumption

LEMMA WithinDuration ==
    ASSUME NEW n \in 0 .. (Bytes - 1), NEW c \in 0 .. (ByteCycles - 1)
    PROVE  /\ StartCycles + n * ByteCycles + c \in Nat
           /\ StartCycles + n * ByteCycles + c < Duration
           /\ n + 1 = Bytes /\ c + 1 = ByteCycles
                => StartCycles + n * ByteCycles + c + 1 = Duration
<1> USE OamDmaAssumption
<1> DEFINE p == n * ByteCycles
           q == (n + 1) * ByteCycles
           r == Bytes * ByteCycles
<1>1. p \in Nat /\ q \in Nat /\ r \in Nat /\ q = p + ByteCycles
  BY NextByte
<1>2. q <= r
  <2>1. n + 1 \in Nat /\ n + 1 <= Bytes /\ Bytes \in Nat /\ ByteCycles \in Nat
    OBVIOUS
  <2>2. ASSUME NEW a \in Nat, NEW b \in Nat, NEW k \in Nat, a <= b
        PROVE  a * k <= b * k
    BY <2>2, SMTT(30)
  <2>3. QED
    BY <2>1, <2>2
<1>3. Duration = StartCycles + r
  BY DEF Duration
<1>4. n + 1 = Bytes => q = r
  OBVIOUS
<1> HIDE DEF p, q, r
<1>5. StartCycles + p + c \in Nat /\ StartCycles + p + c < Duration
  BY <1>1, <1>2, <1>3
<1>6. n + 1 = Bytes /\ c + 1 = ByteCycles => StartCycles + p + c + 1 = Duration
  BY <1>1, <1>3, <1>4
<1>7. QED
  BY <1>5, <1>6 DEF p

LEMMA DurationIsLonger == Duration \in Nat /\ StartCycles < Duration
<1> USE OamDmaAssumption
<1>1. StartCycles + 0 * ByteCycles + 0 < Duration
  BY WithinDuration
<1>2. Bytes * ByteCycles \in Nat
  OBVIOUS
<1>3. QED
  BY <1>1, <1>2 DEF Duration

-----------------------------------------------------------------------------
LEMMA DmaInvInit == DmaInit => DmaInv
<1> USE OamDmaAssumption
<1>1. Duration \in Nat
  BY DurationIsLonger
<1> HIDE DEF Duration
<1> SUFFICES ASSUME DmaInit PROVE DmaInv
  OBVIOUS
<1>3. dma \in Dmas /\ ~dma.active /\ dma.delay = 0
  <2>1. "cartridge" \in Origins /\ 0 \in 0 .. Bytes /\ 0 \in 0 .. (ByteCycles - 1)
        /\ 0 \in 0 .. StartCycles
    BY DEF Origins
  <2>2. QED
    BY <2>1 DEF DmaInit, Dmas
<1>4. board \in Boards /\ touched = {} /\ intact = {} /\ excused = FALSE
      /\ age = Duration /\ left = 0
  BY DEF DmaInit, Boards
<1>5. DmaTypeOK
  <2>1. excused \in BOOLEAN
    BY <1>4
  <2>2. age \in 0 .. Duration /\ left \in Nat
    BY <1>1, <1>4
  <2>3. touched \subseteq Index /\ intact \subseteq Index
    BY <1>4
  <2>4. QED
    BY <1>3, <1>4, <2>1, <2>2, <2>3 DEF DmaTypeOK, Dmas, Boards
<1>6. QED
  BY <1>3, <1>4, <1>5 DEF DmaInv, AtAByte, TakesItsTime, CopiedSoFar

LEMMA StoreKeeps ==
    ASSUME DmaInv, NEW area \in Areas, NEW i \in Index, Store(area, i)
    PROVE  DmaInv'
<1>1. ~(dma.active /\ area = dma.source) /\ ~(dma.active /\ area = "oam")
  BY DEF Store, Blocks, MainBus, DmaInv, DmaTypeOK, Origins
<1>2. touched' = touched
  BY <1>1 DEF Store
<1>3. dma.active => intact' = intact
  BY <1>1 DEF Store
<1>4. intact' \subseteq Index
  BY DEF Store, DmaInv, DmaTypeOK
<1>5. UNCHANGED <<board, dma, left, excused, age>>
  BY DEF Store
<1>6. QED
  BY <1>2, <1>3, <1>4, <1>5
  DEF DmaInv, DmaTypeOK, AtAByte, TakesItsTime, CopiedSoFar

LEMMA RequestKeeps ==
    ASSUME DmaInv, NEW area \in Origins, Request(area)
    PROVE  DmaInv'
<1> USE OamDmaAssumption
<1>1. dma \in Dmas
  BY DEF DmaInv, DmaTypeOK, Dmas
<1>2. /\ dma' \in Dmas /\ dma'.active = dma.active /\ dma'.index = dma.index
      /\ dma'.delay = StartCycles
  <2>1. StartCycles \in 0 .. StartCycles
    OBVIOUS
  <2>2. QED
    BY <1>1, <2>1 DEF Request, Dmas
<1>3. age' = 0 /\ age' \in 0 .. Duration
  BY DurationIsLonger DEF Request
<1>4. UNCHANGED <<board, left, touched, intact, excused>>
  BY DEF Request
<1> HIDE DEF Duration
<1>5. QED
  BY <1>2, <1>3, <1>4
  DEF DmaInv, DmaTypeOK, Dmas, AtAByte, TakesItsTime, CopiedSoFar

\* Its time has not passed while a transfer is requested or under way.
LEMMA StillUnderWay ==
    ASSUME DmaInv, dma.delay # 0 \/ dma.active
    PROVE  age < Duration
<1> USE OamDmaAssumption
<1>1. dma \in Dmas /\ age \in Nat
  BY DurationIsLonger DEF DmaInv, DmaTypeOK, Dmas
<1>2. CASE dma.delay # 0
  <2>1. dma.delay + age = StartCycles
    BY <1>2 DEF DmaInv, TakesItsTime
  <2>2. QED
    BY <1>1, <1>2, <2>1, DurationIsLonger DEF Dmas
<1>3. CASE dma.delay = 0 /\ dma.active
  <2>1. age = StartCycles + dma.index * ByteCycles + dma.cycle
    BY <1>3 DEF DmaInv, TakesItsTime
  <2>2. dma.index \in 0 .. (Bytes - 1) /\ dma.cycle \in 0 .. (ByteCycles - 1)
    BY <1>1, <1>3 DEF DmaInv, AtAByte, Dmas
  <2>3. StartCycles + dma.index * ByteCycles + dma.cycle < Duration
    BY <2>2, WithinDuration
  <2>4. QED
    BY <2>1, <2>3
<1>4. QED
  BY <1>2, <1>3

LEMMA DmaCycleKeeps ==
    ASSUME DmaInv, DmaCycle
    PROVE  DmaInv'
<1> USE OamDmaAssumption
<1>1. /\ dma \in Dmas /\ (dma.active => dma.index \in 0 .. (Bytes - 1))
      /\ age \in Nat /\ left \in Nat /\ left # 0
  BY DurationIsLonger DEF DmaInv, DmaTypeOK, Dmas, AtAByte, DmaCycle
<1>2. left' \in Nat /\ board' = board
  BY <1>1 DEF DmaCycle
<1>3. CASE dma.delay = 1
  <2>1. age = StartCycles - 1
    BY <1>1, <1>3 DEF DmaInv, TakesItsTime, Dmas
  <2>2. age' = StartCycles
    BY <1>1, <2>1, DurationIsLonger DEF DmaCycle
  <2>3. /\ dma' \in Dmas /\ dma'.active /\ dma'.delay = 0
        /\ dma'.index = 0 /\ dma'.cycle = 0
    <3>1. 0 \in 0 .. Bytes /\ 0 \in 0 .. (ByteCycles - 1) /\ 0 \in 0 .. StartCycles
      OBVIOUS
    <3>2. QED
      BY <1>1, <1>3, <3>1 DEF DmaCycle, Cycle, StartTransfer, Dmas
  <2>4. touched' = {} /\ intact' = {} /\ excused' = FALSE
    BY <1>3 DEF DmaCycle, Cycle, StartTransfer
  <2>5. AtAByte' /\ CopiedSoFar'
    BY <2>3, <2>4 DEF AtAByte, CopiedSoFar
  <2>6. TakesItsTime'
    <3>1. 0 * ByteCycles = 0
      OBVIOUS
    <3>2. QED
      BY <2>2, <2>3, <3>1 DEF TakesItsTime
  <2>7. DmaTypeOK'
    <3>1. age' \in 0 .. Duration
      BY <2>2, DurationIsLonger
    <3>2. board' \in Boards
      BY <1>2 DEF DmaInv, DmaTypeOK, Boards
    <3>3. excused' \in BOOLEAN /\ touched' \subseteq Index /\ intact' \subseteq Index
      BY <2>4
    <3>4. QED
      BY <1>2, <2>3, <3>1, <3>2, <3>3 DEF DmaTypeOK, Dmas, Boards
  <2>8. QED
    BY <2>5, <2>6, <2>7 DEF DmaInv
<1>4. CASE dma.delay # 1 /\ CopyByte
  <2>1. Countdown \in 0 .. StartCycles /\ (dma.delay = 0 <=> Countdown = 0)
        /\ (dma.delay # 0 => Countdown = dma.delay - 1)
    BY <1>1, <1>4 DEF Countdown, Dmas
  <2>2. dma.active /\ dma.cycle + 1 = ByteCycles /\ dma.index \in 0 .. (Bytes - 1)
    BY <1>1, <1>4 DEF CopyByte
  <2>3. /\ dma' \in Dmas /\ dma'.index = dma.index + 1 /\ dma'.cycle = 0
        /\ dma'.delay = Countdown
        /\ dma'.active <=> dma.index + 1 # Bytes
    <3> DEFINE more == dma.index + 1 # Bytes
    <3>1. more \in BOOLEAN
      OBVIOUS
    <3>2. dma.index + 1 \in 0 .. Bytes /\ 0 \in 0 .. (ByteCycles - 1)
      BY <2>2
    <3>3. dma' = [dma EXCEPT !.index = dma.index + 1, !.cycle = 0, !.delay = Countdown,
                             !.active = more]
      BY <1>4 DEF CopyByte
    <3> HIDE DEF more
    <3>4. /\ dma' \in Dmas /\ dma'.index = dma.index + 1 /\ dma'.cycle = 0
          /\ dma'.delay = Countdown /\ dma'.active = more
      BY <1>1, <2>1, <3>1, <3>2, <3>3 DEF Dmas
    <3>5. QED
      BY <3>4 DEF more
  <2>4. touched = {} /\ intact = 0 .. (dma.index - 1)
    BY <2>2 DEF DmaInv, CopiedSoFar
  <2>5. touched' = {} /\ intact' = 0 .. dma.index
    <3>1. intact' = intact \union {dma.index}
      BY <1>4, <2>4 DEF CopyByte
    <3>2. QED
      BY <1>4, <2>2, <2>4, <3>1 DEF CopyByte
  <2>6. AtAByte' /\ CopiedSoFar'
    BY <2>2, <2>3, <2>5 DEF AtAByte, CopiedSoFar
  <2>7. age # Duration /\ age' = age + 1 /\ age + 1 <= Duration
    <3>1. age < Duration
      BY <2>2, StillUnderWay
    <3>2. QED
      BY <1>1, <3>1, DurationIsLonger DEF DmaCycle
  <2>8. TakesItsTime'
    <3>1. CASE dma.delay = 0
      <4>1. age = StartCycles + dma.index * ByteCycles + dma.cycle
        BY <2>2, <3>1 DEF DmaInv, TakesItsTime
      <4>2. (dma.index + 1) * ByteCycles = dma.index * ByteCycles + ByteCycles
        BY <2>2, NextByte
      <4>3. dma.index * ByteCycles \in Nat
        BY <2>2
      <4>4. age' = StartCycles + (dma.index + 1) * ByteCycles
        <5> DEFINE p == dma.index * ByteCycles
                   q == (dma.index + 1) * ByteCycles
        <5> HIDE DEF p, q
        <5>1. age = StartCycles + p + dma.cycle /\ q = p + ByteCycles /\ p \in Nat
          BY <4>1, <4>2, <4>3 DEF p, q
        <5>2. age' = StartCycles + q
          BY <5>1, <2>2, <2>7, <1>1 DEF Dmas
        <5>3. QED
          BY <5>2 DEF q
      <4>5. ~dma'.active => age' = Duration
        BY <2>2, <2>3, <4>4 DEF Duration
      <4>6. dma'.active => age' = StartCycles + dma'.index * ByteCycles + dma'.cycle
        BY <2>2, <2>3, <4>4
      <4>7. QED
        BY <2>1, <2>3, <3>1, <4>5, <4>6 DEF TakesItsTime
    <3>2. CASE dma.delay # 0
      <4>1. dma.delay + age = StartCycles
        BY <3>2 DEF DmaInv, TakesItsTime
      <4>2. dma'.delay # 0 /\ dma'.delay + age' = StartCycles
        BY <1>1, <1>4, <2>1, <2>3, <2>7, <3>2, <4>1 DEF Dmas
      <4>3. QED
        BY <4>2 DEF TakesItsTime
    <3>3. QED
      BY <3>1, <3>2
  <2>9. DmaTypeOK'
    <3>1. board' \in Boards /\ excused' \in BOOLEAN
      BY <1>2, <1>4 DEF DmaInv, DmaTypeOK, Boards, CopyByte
    <3>2. touched' \subseteq Index /\ intact' \subseteq Index
      BY <2>2, <2>5 DEF Index
    <3>3. age' \in 0 .. Duration
      BY <1>1, <2>7, DurationIsLonger
    <3>4. QED
      BY <1>2, <2>3, <3>1, <3>2, <3>3 DEF DmaTypeOK, Dmas, Boards
  <2>10. QED
    BY <2>6, <2>8, <2>9 DEF DmaInv
<1>5. CASE dma.delay # 1 /\ Wait
  <2>1. Countdown \in 0 .. StartCycles /\ (dma.delay = 0 <=> Countdown = 0)
        /\ (dma.delay # 0 => Countdown = dma.delay - 1)
    BY <1>1, <1>5 DEF Countdown, Dmas
  <2>2. /\ dma' \in Dmas /\ dma'.active = dma.active /\ dma'.index = dma.index
        /\ dma'.delay = Countdown
        /\ dma.active => dma'.cycle = dma.cycle + 1
    <3> DEFINE c == IF dma.active THEN dma.cycle + 1 ELSE dma.cycle
    <3>1. c \in 0 .. (ByteCycles - 1)
      BY <1>1, <1>5 DEF Wait, Dmas
    <3>2. dma' = [dma EXCEPT !.cycle = c, !.delay = Countdown]
      BY <1>5 DEF Wait
    <3> HIDE DEF c
    <3>3. /\ dma' \in Dmas /\ dma'.active = dma.active /\ dma'.index = dma.index
          /\ dma'.delay = Countdown /\ dma'.cycle = c
      BY <1>1, <2>1, <3>1, <3>2 DEF Dmas
    <3>4. QED
      BY <3>3 DEF c
  <2>3. UNCHANGED <<touched, intact, excused>>
    BY <1>5 DEF Wait
  <2>4. AtAByte' /\ CopiedSoFar'
    BY <2>2, <2>3 DEF DmaInv, AtAByte, CopiedSoFar
  <2>5. CASE dma.delay = 0 /\ ~dma.active
    <3>1. age = Duration
      BY <2>5 DEF DmaInv, TakesItsTime
    <3>2. age' = Duration
      BY <3>1 DEF DmaCycle
    <3>3. TakesItsTime'
      BY <2>1, <2>2, <2>5, <3>2 DEF TakesItsTime
    <3>4. DmaTypeOK'
      BY <1>2, <2>2, <2>3, <3>2, DurationIsLonger DEF DmaInv, DmaTypeOK, Dmas
    <3>5. QED
      BY <2>4, <3>3, <3>4 DEF DmaInv
  <2>6. CASE dma.delay # 0 \/ dma.active
    <3>1. age < Duration
      BY <2>6, StillUnderWay
    <3>2. age' = age + 1 /\ age' \in 0 .. Duration
      BY <1>1, <3>1, DurationIsLonger DEF DmaCycle
    <3>3. TakesItsTime'
      <4>1. CASE dma.delay # 0
        BY <1>1, <1>5, <2>1, <2>2, <3>2, <4>1 DEF DmaInv, TakesItsTime, Dmas
      <4>2. CASE dma.delay = 0 /\ dma.active
        <5>1. age = StartCycles + dma.index * ByteCycles + dma.cycle
          BY <4>2 DEF DmaInv, TakesItsTime
        <5>2. dma.index * ByteCycles \in Nat
          BY <1>1, <4>2
        <5>3. age' = StartCycles + dma.index * ByteCycles + (dma.cycle + 1)
          BY <1>1, <3>2, <5>1, <5>2 DEF Dmas
        <5>4. QED
          BY <2>1, <2>2, <4>2, <5>3 DEF TakesItsTime
      <4>3. QED
        BY <4>1, <4>2, <2>6
    <3>4. DmaTypeOK'
      BY <1>2, <2>2, <2>3, <3>2 DEF DmaInv, DmaTypeOK, Dmas
    <3>5. QED
      BY <2>4, <3>3, <3>4 DEF DmaInv
  <2>7. QED
    BY <2>5, <2>6
<1>6. QED
  BY <1>3, <1>4, <1>5 DEF DmaCycle, Cycle

LEMMA DmaInvNext == DmaInv /\ [DmaNext]_dmaVars => DmaInv'
<1> SUFFICES ASSUME DmaInv, [DmaNext]_dmaVars
             PROVE  DmaInv'
  OBVIOUS
<1> USE OamDmaAssumption
<1>1. ASSUME NEW n \in DmaSpans, TickDma(n) PROVE DmaInv'
  BY <1>1 DEF TickDma, DmaInv, DmaTypeOK, AtAByte, TakesItsTime, CopiedSoFar
<1>2. CASE DmaCycle
  BY <1>2, DmaCycleKeeps
<1>3. ASSUME NEW area \in Areas, NEW i \in Index, Store(area, i) PROVE DmaInv'
  BY <1>3, StoreKeeps
<1>4. ASSUME NEW area \in Origins, Request(area) PROVE DmaInv'
  BY <1>4, RequestKeeps
<1>5. CASE Disturb
  BY <1>5 DEF Disturb, DmaInv, DmaTypeOK, AtAByte, TakesItsTime, CopiedSoFar
<1>6. CASE UNCHANGED dmaVars
  BY <1>6 DEF dmaVars, DmaInv, DmaTypeOK, AtAByte, TakesItsTime, CopiedSoFar
<1>7. QED
  BY <1>1, <1>2, <1>3, <1>4, <1>5, <1>6 DEF DmaNext

(* At every moment of a transfer its position is its age, and OAM holds    *)
(* that much of the page (memory_bus.cpp, tick_oam_dma).                   *)
THEOREM DmaInvariant == DmaSpec => []DmaInv
BY DmaInvInit, DmaInvNext, PTL DEF DmaSpec

(* The registers and counters of the transfer stay in their ranges         *)
(* (memory_bus.cpp, tick_oam_dma).                                         *)
THEOREM DmaTypes == DmaSpec => []DmaTypeOK
<1>1. DmaInv => DmaTypeOK
  BY DEF DmaInv
<1>2. QED
  BY <1>1, DmaInvariant, PTL

(* A transfer takes its time however it is ticked, at any size and any     *)
(* duration of its bytes (memory_bus.cpp, tick_oam_dma).                   *)
THEOREM DmaTime == DmaSpec => []TakesItsTime
<1>1. DmaInv => TakesItsTime
  BY DEF DmaInv
<1>2. QED
  BY <1>1, DmaInvariant, PTL

(* At its end a transfer has brought all of the page as it was at the      *)
(* start: the bus keeps the processor away from both ends of the copy      *)
(* (memory_bus.cpp, oam_dma_blocks).                                       *)
THEOREM DmaSnapshot == DmaSpec => Snapshot
<1>1. DmaInv /\ [DmaNext]_dmaVars
        => [dma.active /\ ~dma'.active => excused' \/ intact' = Index]_dmaVars
  <2> SUFFICES ASSUME DmaInv, DmaNext, dma.active, ~dma'.active
               PROVE  intact' = Index
    BY DEF dmaVars
  <2> USE OamDmaAssumption
  <2>1. dma \in Dmas /\ dma.index \in 0 .. (Bytes - 1)
    BY DEF DmaInv, DmaTypeOK, Dmas, AtAByte
  <2>2. dma' # dma
    OBVIOUS
  <2>3. DmaCycle
    <3>1. ASSUME NEW area \in Origins, Request(area) PROVE FALSE
      BY <2>1, <3>1 DEF Request, Dmas
    <3>2. QED
      BY <2>2, <3>1 DEF DmaNext, TickDma, Store, Disturb
  <2>4. CopyByte
    <3>1. ~StartTransfer
      BY <2>1 DEF StartTransfer, Dmas
    <3>2. ~Wait
      BY <2>1 DEF Wait, Dmas
    <3>3. QED
      BY <2>3, <3>1, <3>2 DEF DmaCycle, Cycle
  <2>5. dma.index + 1 = Bytes
    BY <2>1, <2>4 DEF CopyByte, Dmas
  <2>6. touched = {} /\ intact = 0 .. (dma.index - 1)
    BY DEF DmaInv, CopiedSoFar
  <2>7. intact' = intact \union {dma.index}
    BY <2>4, <2>6 DEF CopyByte
  <2>8. QED
    BY <2>1, <2>5, <2>6, <2>7 DEF Index
<1>2. QED
  BY <1>1, DmaInvariant, PTL DEF DmaSpec, Snapshot

-----------------------------------------------------------------------------
(* The clocks. The half that the picture unit is owed is the odd bit of    *)
(* the normalized clocks, the half that the sound unit is owed its phase;  *)
(* during a tick the two differ by the cycles still to come.               *)
HalvesAgree ==
    /\ lag = odd
    /\ apu_lag = IF half THEN 1 ELSE 0
    /\ odd = (apu_lag + cycles * Weight) % 2

\* Dots are taken in one call only while no HBlank transfer is active.
BatchesCopyNothing == batch /\ ~AtRest => ~hdma.active

BusInv == BusTypeOK /\ HalvesAgree /\ BatchesCopyNothing /\ OneBlockPerHblank /\ copied \in Nat

Transfers == [active : BOOLEAN, remaining : 0 .. MaxBlocks]

LEMMA Halved ==
    ASSUME NEW n \in Nat
    PROVE  /\ n \div 2 \in Nat /\ n % 2 \in 0 .. 1
           /\ n % 2 = n - 2 * (n \div 2)
<1>1. n \div 2 \in Nat
  OBVIOUS
<1>2. n % 2 \in 0 .. 1
  OBVIOUS
<1>3. n % 2 = n - 2 * (n \div 2)
  OBVIOUS
<1>4. QED
  BY <1>1, <1>2, <1>3

LEMMA BusInvInit == BusInit => BusInv
<1> USE BusClockAssumption
<1> SUFFICES ASSUME BusInit PROVE BusInv
  OBVIOUS
<1>1. hdma \in Transfers /\ ~hdma.active
  BY DEF BusInit, Transfers
<1>2. BusTypeOK
  <2>1. double \in BOOLEAN /\ half \in BOOLEAN /\ batch \in BOOLEAN
    BY DEF BusInit
  <2>2. dot \in 0 .. (LineLength - 1)
    BY DEF BusInit
  <2>3. QED
    BY <1>1, <2>1, <2>2 DEF BusInit, BusTypeOK, Transfers
<1>3. HalvesAgree
  BY DEF BusInit, HalvesAgree, Weight
<1>4. QED
  BY <1>1, <1>2, <1>3 DEF BusInit, BusInv, AtRest, BatchesCopyNothing, OneBlockPerHblank

LEMMA TickBusKeeps ==
    ASSUME BusInv, NEW n \in BusSpans, TickBus(n)
    PROVE  BusInv'
<1> USE BusClockAssumption
<1>1. n \in Nat /\ odd \in 0 .. 1 /\ lag = odd /\ double \in BOOLEAN
      /\ apu_lag = odd /\ cycles = 0
  <2>1. odd \in 0 .. 1 /\ cycles = 0 /\ apu_lag \in 0 .. 1
    BY DEF BusInv, BusTypeOK, HalvesAgree, TickBus, AtRest
  <2>2. cycles * Weight = 0
    BY <2>1 DEF Weight
  <2>3. odd = apu_lag
    BY <2>1, <2>2 DEF BusInv, HalvesAgree
  <2>4. QED
    BY <2>1, <2>3 DEF BusInv, BusTypeOK, HalvesAgree
<1>2. /\ DotsOf(n) \in Nat
      /\ odd' \in 0 .. 1
      /\ lag' = odd'
  <2>1. CASE double
    <3>1. Weight = 1 /\ DotsOf(n) = (n + odd) \div 2 /\ odd' = (odd + n) % 2
      BY <1>1, <2>1 DEF Weight, DotsOf, TickBus
    <3>2. n + odd \in Nat
      BY <1>1
    <3>3. (n + odd) % 2 = n + odd - 2 * ((n + odd) \div 2) /\ (n + odd) % 2 \in 0 .. 1
          /\ (n + odd) \div 2 \in Nat
      BY <1>1, <3>2, Halved
    <3>4. lag' = lag + n - 2 * DotsOf(n)
      <4>1. lag' = lag + n * Weight - 2 * DotsOf(n)
        BY DEF TickBus
      <4>2. n * Weight = n
        BY <1>1, <3>1
      <4>3. QED
        BY <4>1, <4>2
    <3>5. QED
      BY <1>1, <3>1, <3>3, <3>4
  <2>2. CASE ~double
    <3>1. Weight = 2 /\ DotsOf(n) = n /\ odd' = (odd + n * 2) % 2
      BY <2>2 DEF Weight, DotsOf, TickBus
    <3>2. odd' = odd
      BY <1>1, <3>1
    <3>3. QED
      BY <1>1, <3>1, <3>2 DEF TickBus
  <2>3. QED
    BY <1>1, <2>1, <2>2
<1>3. HalvesAgree'
  <2>1. Weight' = Weight /\ cycles' = n /\ half' = half /\ apu_lag' = apu_lag
        /\ odd' = (odd + n * Weight) % 2
    BY DEF TickBus, Weight
  <2>2. QED
    BY <1>1, <1>2, <2>1 DEF BusInv, HalvesAgree
<1>4. UNCHANGED <<double, half, lcd, dot, hdma, copied, length, hblanks>>
  BY DEF TickBus, picture, transfer
<1>5. BatchesCopyNothing' /\ batch' \in BOOLEAN
  BY <1>4 DEF TickBus, Batchable, BatchesCopyNothing, BusInv, BusTypeOK
<1>6. BusTypeOK'
  BY <1>1, <1>2, <1>4, <1>5 DEF BusInv, BusTypeOK, TickBus
<1>7. QED
  BY <1>3, <1>4, <1>5, <1>6 DEF BusInv, OneBlockPerHblank

LEMMA SoundCycleKeeps ==
    ASSUME BusInv, SoundCycle
    PROVE  BusInv'
<1> USE BusClockAssumption
<1>1. cycles \in Nat /\ cycles # 0 /\ cycles' = cycles - 1 /\ double \in BOOLEAN
      /\ half \in BOOLEAN /\ Weight' = Weight /\ odd' = odd /\ lag' = lag
  BY DEF BusInv, BusTypeOK, SoundCycle, Weight
<1>2. HalvesAgree'
  <2>1. CASE double
    <3>1. Weight = 1 /\ half' = ~half /\ apu_lag' = apu_lag + 1 - (IF half THEN 2 ELSE 0)
      BY <2>1 DEF SoundCycle, Weight
    <3>2. apu_lag' = IF half' THEN 1 ELSE 0
      <4>1. CASE half
        <5>1. ~half'
          BY <3>1, <4>1
        <5>2. apu_lag = 1
          BY <4>1 DEF BusInv, HalvesAgree
        <5>3. apu_lag' = 0
          BY <3>1, <4>1, <5>2
        <5>4. QED
          BY <5>1, <5>3
      <4>2. CASE ~half
        <5>1. half'
          BY <3>1, <4>2
        <5>2. apu_lag = 0
          BY <4>2 DEF BusInv, HalvesAgree
        <5>3. apu_lag' = 1
          BY <3>1, <4>2, <5>2
        <5>4. QED
          BY <5>1, <5>3
      <4>3. QED
        BY <4>1, <4>2
    <3>3. odd = (apu_lag + cycles) % 2
      BY <1>1, <3>1 DEF BusInv, HalvesAgree
    <3>4. odd = (apu_lag' + cycles') % 2
      BY <1>1, <3>1, <3>3 DEF BusInv, HalvesAgree
    <3>5. QED
      BY <1>1, <3>1, <3>2, <3>4 DEF BusInv, HalvesAgree
  <2>2. CASE ~double
    <3>1. Weight = 2 /\ half' = half /\ apu_lag' = apu_lag
      BY <1>1, <2>2 DEF SoundCycle, Weight, BusInv, HalvesAgree
    <3>2. (apu_lag + cycles * 2) % 2 = (apu_lag + cycles' * 2) % 2
      BY <1>1 DEF BusInv, HalvesAgree
    <3>3. QED
      BY <1>1, <3>1, <3>2 DEF BusInv, HalvesAgree
  <2>3. QED
    BY <1>1, <2>1, <2>2
<1>3. UNCHANGED <<double, odd, dots, batch, lcd, dot, hdma, copied, length, hblanks>>
  BY DEF SoundCycle, picture, transfer
<1>4. half' \in BOOLEAN
  BY <1>1 DEF SoundCycle
<1>5. BusTypeOK'
  BY <1>1, <1>3, <1>4 DEF BusInv, BusTypeOK
<1>6. BatchesCopyNothing'
  BY <1>1, <1>3 DEF BusInv, BatchesCopyNothing, AtRest
<1>7. QED
  BY <1>2, <1>3, <1>5, <1>6 DEF BusInv, OneBlockPerHblank

(* Copying a block of an active transfer.                                  *)
LEMMA CopyOne ==
    ASSUME NEW h \in Transfers, h.active, h.remaining # 0
    PROVE  LET g == [active |-> h.active /\ h.remaining # 1, remaining |-> h.remaining - 1]
           IN  /\ g \in Transfers
               /\ g.active => g.remaining # 0
               /\ g.remaining = h.remaining - 1
               /\ ~g.active => g.remaining = 0
<1> USE BusClockAssumption
<1> DEFINE more == h.active /\ h.remaining # 1
           r == h.remaining - 1
<1>1. more \in BOOLEAN /\ (more <=> r # 0)
  BY DEF Transfers
<1>2. r \in 0 .. MaxBlocks
  BY DEF Transfers
<1> HIDE DEF more, r
<1>3. [active |-> more, remaining |-> r] \in Transfers
  BY <1>1, <1>2 DEF Transfers
<1>4. QED
  BY <1>1, <1>3 DEF more, r

LEMMA MoveOnTypes ==
    ASSUME BusTypeOK, MoveOn
    PROVE  lcd' \in {"off", "starting", "visible", "blank"} /\ dot' \in 0 .. (LineLength - 1)
<1> USE BusClockAssumption
<1>1. CASE lcd = "off"
  BY <1>1 DEF MoveOn, picture, BusTypeOK
<1>2. CASE lcd # "off"
  <2>1. dot + 1 \in Nat /\ LineLength \in Nat \ {0}
    BY DEF BusTypeOK
  <2>2. (dot + 1) % LineLength \in 0 .. (LineLength - 1)
    BY <2>1
  <2>3. QED
    BY <1>2, <2>2 DEF MoveOn, BusTypeOK
<1>3. QED
  BY <1>1, <1>2

LEMMA DotKeeps ==
    ASSUME BusInv, Dot
    PROVE  BusInv'
<1> USE BusClockAssumption
<1>1. /\ hdma \in Transfers /\ dots \in Nat /\ dots # 0 /\ dots' = dots - 1
      /\ (hdma.active => hdma.remaining # 0)
      /\ UNCHANGED <<double, odd, half, cycles, batch, lag, apu_lag, length>>
  BY DEF BusInv, BusTypeOK, OneBlockPerHblank, Dot, Transfers
<1>2. HalvesAgree'
  BY <1>1 DEF BusInv, HalvesAgree, Weight
<1>3. lcd' \in {"off", "starting", "visible", "blank"} /\ dot' \in 0 .. (LineLength - 1)
  BY MoveOnTypes DEF BusInv, Dot
<1>4. batch => ~hdma.active
  BY <1>1 DEF BusInv, BatchesCopyNothing, AtRest
<1>5. hdma' \in Transfers /\ OneBlockPerHblank' /\ (hdma'.active => hdma.active)
      /\ copied' \in Nat
  <2>1. CASE BeginsHblank /\ hdma.active
    <3>1. hblanks' = hblanks + 1 /\ copied' = copied + 1
      BY <1>4, <2>1 DEF Dot, Copy
    <3>2. hdma' = [active |-> hdma.active /\ hdma.remaining # 1, remaining |-> hdma.remaining - 1]
      BY <1>4, <2>1 DEF Dot, Copy
    <3>3. /\ hdma' \in Transfers /\ (hdma'.active => hdma'.remaining # 0)
          /\ hdma'.remaining = hdma.remaining - 1
          /\ (~hdma'.active => hdma'.remaining = 0)
      BY <1>1, <2>1, <3>2, CopyOne
    <3>4. copied + hdma.remaining = length /\ copied = hblanks
      BY <2>1 DEF BusInv, OneBlockPerHblank
    <3>5. copied' + (IF hdma'.active THEN hdma'.remaining ELSE 0) = length'
      <4>1. copied \in Nat /\ hdma.remaining \in Nat
        BY <1>1 DEF BusInv, Transfers
      <4>2. copied' + hdma'.remaining = length'
        BY <1>1, <3>1, <3>3, <3>4, <4>1
      <4>3. QED
        BY <3>3, <4>2, <4>1, <3>1
    <3>6. QED
      BY <2>1, <3>1, <3>3, <3>4, <3>5 DEF BusInv, OneBlockPerHblank
  <2>2. CASE ~(BeginsHblank /\ hdma.active)
    BY <1>1, <2>2 DEF Dot, BusInv, OneBlockPerHblank
  <2>3. QED
    BY <2>1, <2>2
<1>6. BusTypeOK'
  BY <1>1, <1>3, <1>5 DEF BusInv, BusTypeOK, Transfers
<1>7. BatchesCopyNothing'
  BY <1>1, <1>4, <1>5 DEF BatchesCopyNothing
<1>8. QED
  BY <1>2, <1>5, <1>6, <1>7 DEF BusInv

-----------------------------------------------------------------------------
(* Between two ticks nothing is owed but the half, at either speed.        *)
LEMMA RestKeeps ==
    ASSUME BusInv, AtRest, UNCHANGED rest
    PROVE  /\ odd' \in 0 .. 1 /\ half' \in BOOLEAN /\ cycles' \in Nat /\ dots' \in Nat
           /\ batch' \in BOOLEAN /\ double' \in BOOLEAN
           /\ HalvesAgree' /\ BatchesCopyNothing'
BY DEF BusInv, BusTypeOK, HalvesAgree, BatchesCopyNothing, AtRest, rest, Weight

LEMMA SpeedKeeps ==
    ASSUME BusInv, SwitchSpeedOfBus
    PROVE  BusInv'
<1>1. cycles = 0 /\ cycles' = 0 /\ Weight \in {1, 2} /\ Weight' \in {1, 2}
      /\ UNCHANGED <<odd, half, dots, batch, lag, apu_lag>> /\ double' \in BOOLEAN
  BY DEF SwitchSpeedOfBus, AtRest, Weight, BusInv, BusTypeOK
<1>2. cycles * Weight = 0 /\ cycles' * Weight' = 0
  <2>1. ASSUME NEW w \in {1, 2} PROVE 0 * w = 0
    OBVIOUS
  <2>2. QED
    BY <1>1, <2>1
<1>3. HalvesAgree'
  BY <1>1, <1>2 DEF BusInv, HalvesAgree
<1>4. UNCHANGED <<lcd, dot, hdma, copied, length, hblanks>>
  BY DEF SwitchSpeedOfBus, picture, transfer
<1>5. BusTypeOK' /\ BatchesCopyNothing' /\ OneBlockPerHblank' /\ copied' \in Nat
  <2>1. BusTypeOK'
    BY <1>1, <1>4 DEF BusInv, BusTypeOK
  <2>2. BatchesCopyNothing'
    BY <1>1, <1>4 DEF BusInv, BatchesCopyNothing, AtRest
  <2>3. QED
    BY <1>4, <2>1, <2>2 DEF BusInv, OneBlockPerHblank
<1>6. QED
  BY <1>3, <1>5 DEF BusInv

(* A transfer that is set up anew: its first block counts as the HBlank it *)
(* was started in.                                                         *)
LEMMA SetUpKeeps ==
    ASSUME BusInv, AtRest, UNCHANGED rest, UNCHANGED picture,
           hdma' \in Transfers, copied' \in Nat, OneBlockPerHblank'
    PROVE  BusInv'
BY RestKeeps DEF BusInv, BusTypeOK, picture, Transfers

LEMMA BusInvNext == BusInv /\ [BusNext]_busVars => BusInv'
<1> SUFFICES ASSUME BusInv, [BusNext]_busVars
             PROVE  BusInv'
  OBVIOUS
<1> USE BusClockAssumption
<1>0. hdma \in Transfers
  BY DEF BusInv, BusTypeOK, Transfers
<1>1. ASSUME NEW n \in BusSpans, TickBus(n) PROVE BusInv'
  BY <1>1, TickBusKeeps
<1>2. CASE SoundCycle
  BY <1>2, SoundCycleKeeps
<1>3. CASE Dot
  BY <1>3, DotKeeps
<1>4. CASE Cancel
  <2>1. hdma' = [active |-> FALSE, remaining |-> 1] /\ copied' = copied /\ length' = copied
        /\ hblanks' = hblanks
    BY <1>4 DEF Cancel
  <2>2. hdma' \in Transfers /\ ~hdma'.active /\ copied' \in Nat
    BY <2>1 DEF BusInv, Transfers
  <2>3. OneBlockPerHblank'
    BY <2>1, <2>2 DEF BusInv, OneBlockPerHblank
  <2>4. QED
    BY <1>4, <2>2, <2>3, SetUpKeeps DEF Cancel
<1>5. ASSUME NEW n \in 1 .. MaxBlocks, CopyAll(n) PROVE BusInv'
  <2>1. hdma' = [active |-> FALSE, remaining |-> 0] /\ copied' = n /\ length' = n
        /\ hblanks' = n
    BY <1>5 DEF CopyAll
  <2>2. hdma' \in Transfers /\ ~hdma'.active /\ copied' \in Nat
    BY <2>1 DEF Transfers
  <2>3. OneBlockPerHblank'
    BY <2>1, <2>2 DEF OneBlockPerHblank
  <2>4. QED
    BY <1>5, <2>2, <2>3, SetUpKeeps DEF CopyAll
<1>6. ASSUME NEW n \in 1 .. MaxBlocks, CopyInHblanks(n) PROVE BusInv'
  <2> DEFINE first == IF InHblank THEN 1 ELSE 0
             more == n # first
             r == n - first
  <2>1. first \in 0 .. 1 /\ r \in 0 .. MaxBlocks /\ more \in BOOLEAN /\ (more <=> r # 0)
        /\ first + r = n
    BY Zenon, SMT
  <2>2. hdma' = [active |-> more, remaining |-> r] /\ copied' = first /\ length' = n
        /\ hblanks' = first
    BY <1>6 DEF CopyInHblanks
  <2> HIDE DEF first, more, r
  <2>3. hdma' \in Transfers /\ hdma'.active = more /\ hdma'.remaining = r /\ copied' \in Nat
    BY <2>1, <2>2 DEF Transfers
  <2>4. OneBlockPerHblank'
    <3>1. copied' + (IF hdma'.active THEN hdma'.remaining ELSE 0) = length'
      BY <2>1, <2>2, <2>3
    <3>2. QED
      BY <2>1, <2>2, <2>3, <3>1 DEF OneBlockPerHblank
  <2>5. QED
    BY <1>6, <2>3, <2>4, SetUpKeeps DEF CopyInHblanks
<1>7. CASE SwitchLcd
  <2>1. UNCHANGED rest /\ AtRest /\ UNCHANGED <<hdma, copied, length, hblanks>>
    BY <1>7 DEF SwitchLcd, transfer
  <2>2. lcd' \in {"off", "starting", "visible", "blank"} /\ dot' \in 0 .. (LineLength - 1)
    BY <1>7 DEF SwitchLcd
  <2>3. QED
    BY <2>1, <2>2, RestKeeps DEF BusInv, BusTypeOK, OneBlockPerHblank
<1>8. CASE SwitchSpeedOfBus
  BY <1>8, SpeedKeeps
<1>9. CASE UNCHANGED busVars
  BY <1>9 DEF busVars, BusInv, BusTypeOK, HalvesAgree, Weight, BatchesCopyNothing, AtRest,
              OneBlockPerHblank
<1>10. QED
  BY <1>1, <1>2, <1>3, <1>4, <1>5, <1>6, <1>7, <1>8, <1>9 DEF BusNext

(* The halves of a dot agree, and no batch of dots copies a block          *)
(* (memory_bus.cpp, tick).                                                 *)
THEOREM BusInvariant == BusSpec => []BusInv
BY BusInvInit, BusInvNext, PTL DEF BusSpec

(* The clocks, the line and the transfer stay in their ranges              *)
(* (memory_bus.cpp, tick and transfer_hdma_block).                         *)
THEOREM BusTypes == BusSpec => []BusTypeOK
<1>1. BusInv => BusTypeOK
  BY DEF BusInv
<1>2. QED
  BY <1>1, BusInvariant, PTL

(* Between two ticks the picture and the sound unit have got the same      *)
(* clocks, whatever the ticks were and whenever the speed was switched     *)
(* (memory_bus.cpp, tick).                                                 *)
THEOREM BusInStep == BusSpec => []InStep
<1>1. BusInv => InStep
  <2> SUFFICES ASSUME BusInv, AtRest PROVE lag \in {0, 1} /\ apu_lag = lag
    BY DEF InStep
  <2>1. odd \in 0 .. 1 /\ cycles = 0 /\ apu_lag \in 0 .. 1 /\ Weight \in {1, 2} /\ lag = odd
    BY DEF BusInv, BusTypeOK, HalvesAgree, AtRest, Weight
  <2>2. cycles * Weight = 0
    BY <2>1
  <2>3. odd = apu_lag
    BY <2>1, <2>2 DEF BusInv, HalvesAgree
  <2>4. QED
    BY <2>1, <2>3
<1>2. QED
  BY <1>1, BusInvariant, PTL

(* An HBlank transfer copies one block for each HBlank, and no batch of    *)
(* dots can hide one from it (memory_bus.cpp, tick).                       *)
THEOREM BusOneBlock == BusSpec => []OneBlockPerHblank
<1>1. BusInv => OneBlockPerHblank
  BY DEF BusInv
<1>2. QED
  BY <1>1, BusInvariant, PTL

-----------------------------------------------------------------------------
(***************************************************************************)
(* The processor. The invariant follows the main program's address: it is  *)
(* in pc, or the lowest on the stack, or a push to IE or IF lost it, and it*)
(* is where the program's last instruction left off.                       *)
(***************************************************************************)
Flow == {"sample", "fetched", "reti", "ie", "if", "push", "high", "low", "vector"}

Addresses == [code : {"main", "handler"}, of : SUBSET Sources, at : Nat]

(* What every variable may hold, the flags apart.                          *)
CpuWellTyped ==
    /\ delay \in Nat /\ ime \in BOOLEAN /\ halted \in BOOLEAN /\ stopped \in BOOLEAN
    /\ bug \in BOOLEAN /\ ack \in BOOLEAN /\ grace \in BOOLEAN
    /\ settling \in 0 .. SettleSteps
    /\ enables \subseteq Sources /\ requests \subseteq Sources /\ sent \subseteq Sources
    /\ phase \in Flow
    /\ pc \in Addresses /\ stack \in Seq(Addresses)
    /\ last \in [at : Addresses, again : BOOLEAN]

(* An instruction is only under way in a processor that is awake, and an   *)
(* EI takes effect only with the end of the next one.                      *)
FlagsAgree ==
    /\ delay \in 0 .. 1 /\ ~(ime /\ delay # 0)
    /\ phase # "sample" => ~halted /\ ~stopped
    /\ ~(halted /\ stopped)
    /\ grace => ~ime

(* Where the main program goes on with.                                    *)
GoesOn(a) == a = After(last.at) \/ (last.again /\ a = last.at)

(* Its address is in pc, or below every handler's on the stack, or lost.   *)
MainIsKept ==
    /\ pc.code = "main" /\ phase # "vector" => stack = <<>> /\ GoesOn(pc)
    /\ \A i \in 1 .. Len(stack) :
          stack[i].code = "main" => i = Len(stack) /\ GoesOn(stack[i])
    /\ phase = "reti" => pc.code # "main" /\ stack # <<>>

CpuInv == CpuWellTyped /\ FlagsAgree /\ MainIsKept

USE CpuAssumption DEF CpuAssumption

LEMMA LinesWrap ==
    /\ \A n \in Nat : n % Lines \in Nat
    /\ 0 % Lines = 0
    /\ (Lines - 1) % Lines = Lines - 1
    /\ Lines % Lines = 0
<1>1. Lines \in Nat /\ Lines > 0
  OBVIOUS
<1>2. \A n \in Nat : n % Lines \in Nat
  BY <1>1
<1>3. 0 % Lines = 0
  BY <1>1, Z3
<1>4. (Lines - 1) % Lines = Lines - 1
  BY <1>1, Z3
<1>5. Lines % Lines = 0
  BY <1>1, Z3
<1> QED BY <1>2, <1>3, <1>4, <1>5

LEMMA AddressFacts ==
    /\ \A n \in Nat : Main(n) \in Addresses /\ Main(n).code = "main"
    /\ \A s \in SUBSET Sources : Handler(s) \in Addresses /\ Handler(s).code = "handler"
    /\ \A a \in Addresses : After(a) \in Addresses /\ After(a).code = a.code
BY LinesWrap DEF Main, Handler, After, Addresses

LEMMA CpuInvInit == CpuInit => CpuInv
<1> SUFFICES ASSUME CpuInit PROVE CpuInv
  OBVIOUS
<1>1. CpuWellTyped
  <2>1. Lines - 1 \in Nat /\ 0 \in Nat
    OBVIOUS
  <2>2. pc \in Addresses /\ last \in [at : Addresses, again : BOOLEAN]
    BY <2>1, AddressFacts DEF CpuInit
  <2>3. stack \in Seq(Addresses)
    BY DEF CpuInit
  <2>4. /\ delay = 0 /\ ime = FALSE /\ halted = FALSE /\ stopped = FALSE
        /\ bug = FALSE /\ ack = FALSE /\ grace = FALSE /\ settling = 0
        /\ enables = {} /\ requests = {} /\ sent = {} /\ phase = "sample"
    BY DEF CpuInit
  <2>5. /\ delay \in Nat /\ ime \in BOOLEAN /\ halted \in BOOLEAN
        /\ stopped \in BOOLEAN
        /\ bug \in BOOLEAN /\ ack \in BOOLEAN /\ grace \in BOOLEAN
    BY <2>4
  <2>6. /\ settling \in 0 .. SettleSteps /\ phase \in Flow
        /\ enables \subseteq Sources /\ requests \subseteq Sources
        /\ sent \subseteq Sources
    BY <2>4 DEF Flow
  <2> QED BY <2>2, <2>3, <2>5, <2>6 DEF CpuWellTyped
<1>2. FlagsAgree
  BY DEF CpuInit, FlagsAgree
<1>3. GoesOn(pc)
  <2>1. Main(Lines - 1).at + 1 = Lines /\ Main(Lines - 1).code = "main"
    BY LinesWrap DEF Main
  <2>2. Main(Lines) = Main(0)
    BY LinesWrap DEF Main
  <2>3. After(Main(Lines - 1)) = Main(0)
    BY <2>1, <2>2 DEF After
  <2> QED BY <2>3 DEF CpuInit, GoesOn
<1>4. MainIsKept
  BY <1>3 DEF CpuInit, MainIsKept
<1> QED BY <1>1, <1>2, <1>4 DEF CpuInv

-----------------------------------------------------------------------------
(* What is typed stays typed.                                              *)
LEMMA DelaySteps ==
    ASSUME NEW d \in 0 .. 2, NEW on \in BOOLEAN, Delayed(d, on), ~(on /\ d # 0)
    PROVE  /\ delay' \in 0 .. 1 /\ ime' \in BOOLEAN
           /\ ~(ime' /\ delay' # 0)
           /\ ime' => on \/ d = 1
BY DEF Delayed

LEMMA ExecutesTyped ==
    ASSUME CpuInv, NEW kind, Executes(kind)
    PROVE  /\ phase = "fetched" /\ ~halted /\ ~stopped
           /\ requests' \subseteq Sources /\ ack' \in BOOLEAN
           /\ NextPc \in Addresses /\ NextPc.code = pc.code
           /\ last' \in [at : Addresses, again : BOOLEAN]
           /\ stack' = stack /\ sent' = sent
<1>1. phase = "fetched" /\ ~halted /\ ~stopped /\ stack' = stack /\ sent' = sent
  BY DEF CpuInv, FlagsAgree, Executes
<1>2. requests' \subseteq Sources /\ ack' \in BOOLEAN
  BY DEF CpuInv, CpuWellTyped, Executes, RequestsAtFetch
<1>3. NextPc \in Addresses /\ NextPc.code = pc.code
  BY AddressFacts DEF CpuInv, CpuWellTyped, NextPc
<1>4. last' \in [at : Addresses, again : BOOLEAN]
  <2>1. /\ pc \in Addresses /\ last \in [at : Addresses, again : BOOLEAN]
    BY DEF CpuInv, CpuWellTyped
  <2>2. Ran(bug \/ kind = "halt")
    BY DEF Executes
  <2> DEFINE again == bug \/ kind = "halt"
  <2>3. [at |-> pc, again |-> again] \in [at : Addresses, again : BOOLEAN]
    <3>1. again \in BOOLEAN
      OBVIOUS
    <3> HIDE DEF again
    <3> QED BY <2>1, <3>1
  <2> QED BY <2>1, <2>2, <2>3, Zenon DEF Ran
<1> QED BY <1>1, <1>2, <1>3, <1>4

(* An instruction that is done: EI has come into effect where it was due.  *)
LEMMA RetiresFlags ==
    ASSUME CpuInv, phase # "sample",
           NEW d \in 0 .. 1, NEW on \in BOOLEAN, ~(on /\ d # 0), Retires(d, on)
    PROVE  /\ delay' \in 0 .. 1 /\ ime' \in BOOLEAN /\ grace' = FALSE
           /\ ~(ime' /\ delay' # 0)
           /\ phase' = "sample"
BY DelaySteps DEF Retires

Instructions ==
    \/ Plain \/ EI \/ DI \/ Halt \/ Stop
    \/ \E kind \in {"reti", "ie", "if"} : Begins(kind)

Waits ==
    \/ SettleStep \/ Resume \/ Sleep \/ LateWake
    \/ Press \/ \E s \in Sources : Raise(s)

LEMMA WaitsInv ==
    ASSUME CpuInv, Waits
    PROVE  /\ CpuWellTyped' /\ FlagsAgree'
           /\ UNCHANGED <<phase, pc, stack, last, grace>>
<1>1. UNCHANGED <<phase, pc, stack, last, grace, ime, delay, halted, stopped, bug, ack,
                  enables, sent>>
  BY DEF Waits, SettleStep, Resume, Sleep, LateWake, Press, Raise, regs, history
<1>2. requests' \subseteq Sources
  <2>1. requests' = requests \/ \E s \in Sources : requests' = requests \union {s}
    BY DEF Waits, SettleStep, Resume, Sleep, LateWake, Press, Raise
  <2> QED BY <2>1 DEF CpuInv, CpuWellTyped
<1>3. settling' \in 0 .. SettleSteps
  BY DEF CpuInv, CpuWellTyped, Waits, SettleStep, Resume, Sleep, LateWake, Press, Raise,
         regs
<1>4. CpuWellTyped' /\ FlagsAgree'
  BY <1>1, <1>2, <1>3 DEF CpuInv, CpuWellTyped, FlagsAgree
<1> QED BY <1>1, <1>4

LEMMA EntersInv ==
    ASSUME CpuInv, Dispatch \/ Fetch \/ Discard
    PROVE  /\ CpuWellTyped' /\ FlagsAgree'
           /\ phase \in {"sample", "fetched"} /\ phase' \in {"fetched", "push"}
           /\ phase' = "push" => ~grace
           /\ UNCHANGED <<pc, stack, last>>
<1>1. /\ UNCHANGED <<pc, stack, last, grace, enables, sent>>
      /\ phase \in {"sample", "fetched"} /\ phase' \in {"fetched", "push"}
      /\ phase' = "push" => ime
  BY DEF Dispatch, Fetch, Discard, Discarded, Awake, Sampling, Enter, history
<1>2. /\ requests' \subseteq Sources /\ ack' \in BOOLEAN /\ bug' \in BOOLEAN
      /\ settling' \in 0 .. SettleSteps
  <2>1. /\ requests' \in {requests, RequestsAtFetch}
        /\ ack' \in {ack, FALSE} /\ bug' \in {bug, FALSE}
        /\ settling' \in {settling, 0}
    BY DEF Dispatch, Fetch, Discard, Enter
  <2>2. RequestsAtFetch \subseteq Sources
    BY DEF CpuInv, CpuWellTyped, RequestsAtFetch
  <2>3. ack' \in BOOLEAN /\ bug' \in BOOLEAN
    BY <2>1, Zenon DEF CpuInv, CpuWellTyped
  <2> QED BY <2>1, <2>2, <2>3 DEF CpuInv, CpuWellTyped
<1>3. /\ halted' = FALSE /\ stopped' = FALSE
      /\ \/ delay' = 0 /\ ime' = FALSE
         \/ delay' = delay /\ ime' = ime
  <2>1. CASE Dispatch
    BY <2>1 DEF Dispatch, Enter
  <2>2. CASE Fetch
    BY <2>2 DEF Fetch
  <2>3. CASE Discard
    BY <2>3 DEF Discard, Enter
  <2> QED BY <2>1, <2>2, <2>3
<1>4. FlagsAgree'
  BY <1>1, <1>3 DEF CpuInv, CpuWellTyped, FlagsAgree
<1>5. CpuWellTyped'
  <2>1. delay' \in Nat /\ phase' \in Flow
    BY <1>1, <1>3 DEF CpuInv, CpuWellTyped, Flow
  <2>2. ime' \in BOOLEAN /\ halted' \in BOOLEAN /\ stopped' \in BOOLEAN
    BY <1>3, Zenon DEF CpuInv, CpuWellTyped
  <2> QED BY <1>1, <1>2, <2>1, <2>2 DEF CpuInv, CpuWellTyped
<1> QED BY <1>1, <1>4, <1>5 DEF CpuInv, FlagsAgree

LEMMA PushesInv ==
    ASSUME CpuInv, PushHigh \/ StoreHigh
    PROVE  /\ CpuWellTyped' /\ FlagsAgree'
           /\ phase' \in {"high", "low"} /\ phase \in {"push", "high"}
           /\ UNCHANGED <<pc, stack, last>>
<1>1. /\ UNCHANGED <<pc, stack, last, grace, sent>>
      /\ UNCHANGED <<ime, delay, halted, stopped, bug, ack, settling>>
      /\ phase' \in {"high", "low"} /\ phase \in {"push", "high"}
  BY DEF PushHigh, StoreHigh, regs, history
<1>2. enables' \subseteq Sources /\ requests' \subseteq Sources
  BY DEF CpuInv, CpuWellTyped, PushHigh, StoreHigh
<1>3. FlagsAgree' /\ CpuWellTyped'
  BY <1>1, <1>2 DEF CpuInv, CpuWellTyped, FlagsAgree, Flow
<1> QED BY <1>1, <1>3

LEMMA ArbitrateInv ==
    ASSUME CpuInv, Arbitrate
    PROVE  CpuWellTyped' /\ FlagsAgree'
<1>1. /\ UNCHANGED <<pc, last, grace>>
      /\ UNCHANGED <<ime, delay, halted, stopped, bug, settling>>
      /\ phase' = "vector" /\ phase = "low"
  BY DEF Arbitrate, history
<1>2. /\ enables' \subseteq Sources /\ requests' \subseteq Sources
      /\ sent' \subseteq Sources
  <2>1. enables \subseteq Sources /\ requests \subseteq Sources
    BY DEF CpuInv, CpuWellTyped
  <2>2. enables' \subseteq Sources
    BY <2>1 DEF Arbitrate
  <2>3. sent' \subseteq Sources
    BY <2>1 DEF Arbitrate, Pending
  <2>4. PICK written \in SUBSET Sources : requests' = written \ Lowest(Pending)
    BY <2>1 DEF Arbitrate
  <2> QED BY <2>2, <2>3, <2>4
<1>3. ack' \in BOOLEAN
  BY DEF Arbitrate, OnlyStat
<1>4. stack' \in Seq(Addresses)
  BY DEF CpuInv, CpuWellTyped, Arbitrate
<1>5. FlagsAgree'
  BY <1>1 DEF CpuInv, FlagsAgree
<1>6. CpuWellTyped'
  BY <1>1, <1>2, <1>3, <1>4 DEF CpuInv, CpuWellTyped, Flow
<1> QED BY <1>5, <1>6

LEMMA VectorInv ==
    ASSUME CpuInv, Vector
    PROVE  CpuWellTyped' /\ FlagsAgree'
<1>1. /\ UNCHANGED <<stack, enables, last, grace>>
      /\ UNCHANGED <<ime, delay, halted, stopped, bug, settling, ack>>
      /\ phase' = "sample" /\ sent' = {}
  BY DEF Vector, history, regs
<1>2. requests' \subseteq Sources
  BY DEF CpuInv, CpuWellTyped, Vector
<1>3. pc' \in Addresses
  <2>1. Lowest(sent) \in SUBSET Sources
    BY DEF CpuInv, CpuWellTyped, Lowest
  <2> QED BY <2>1, AddressFacts DEF Vector
<1>4. FlagsAgree'
  BY <1>1 DEF CpuInv, FlagsAgree
<1>5. CpuWellTyped'
  BY <1>1, <1>2, <1>3 DEF CpuInv, CpuWellTyped, Flow
<1> QED BY <1>4, <1>5

LEMMA CompletesInv ==
    ASSUME CpuInv, Reti \/ StoreIE \/ StoreIF
    PROVE  CpuWellTyped' /\ FlagsAgree' /\ phase' = "sample"
<1> DEFINE d == IF phase = "reti" THEN 0 ELSE delay
           on == IF phase = "reti" THEN TRUE ELSE ime
<1>1. /\ d \in 0 .. 1 /\ on \in BOOLEAN /\ ~(on /\ d # 0) /\ phase # "sample"
  <2>1. phase \in {"reti", "ie", "if"} /\ phase # "sample"
    BY DEF Reti, StoreIE, StoreIF
  <2>2. d \in 0 .. 1
    BY DEF CpuInv, FlagsAgree
  <2>3. on \in BOOLEAN
    BY Zenon DEF CpuInv, CpuWellTyped
  <2>4. ~(on /\ d # 0)
    BY Zenon DEF CpuInv, FlagsAgree
  <2> QED BY <2>1, <2>2, <2>3, <2>4
<1>2. Retires(d, on)
  BY DEF Reti, StoreIE, StoreIF
<1> HIDE DEF d, on
<1>3. /\ delay' \in 0 .. 1 /\ ime' \in BOOLEAN /\ grace' = FALSE
      /\ ~(ime' /\ delay' # 0) /\ phase' = "sample"
  BY <1>1, <1>2, RetiresFlags
<1>4. UNCHANGED <<halted, stopped, bug, settling, ack, sent, last>>
  BY DEF Reti, StoreIE, StoreIF
<1>5. enables' \subseteq Sources /\ requests' \subseteq Sources
  BY DEF CpuInv, CpuWellTyped, Reti, StoreIE, StoreIF
<1>6. pc' \in Addresses /\ stack' \in Seq(Addresses)
  <2>1. CASE Reti
    BY <2>1 DEF CpuInv, CpuWellTyped, MainIsKept, Reti
  <2>2. CASE StoreIE \/ StoreIF
    BY <2>2 DEF CpuInv, CpuWellTyped, StoreIE, StoreIF
  <2> QED BY <2>1, <2>2
<1>7. FlagsAgree'
  BY <1>3, <1>4 DEF CpuInv, FlagsAgree
<1>8. CpuWellTyped'
  <2>1. delay' \in Nat /\ phase' \in Flow
    BY <1>3 DEF Flow
  <2>2. grace' \in BOOLEAN
    BY <1>3, Zenon
  <2> QED BY <1>3, <1>4, <1>5, <1>6, <2>1, <2>2 DEF CpuInv, CpuWellTyped
<1> QED BY <1>3, <1>7, <1>8

Kinds == {"plain", "ei", "di", "halt", "stop", "reti", "ie", "if"}

LEMMA InstructionExecutes ==
    ASSUME CpuInv, Instructions
    PROVE  \E kind \in Kinds :
              /\ Executes(kind)
              /\ phase' \in {"sample", "reti", "ie", "if"}
              /\ phase' = "reti" => stack # <<>>
              /\ \/ pc' = NextPc
                 \/ kind = "halt" /\ (pc' = pc \/ pc' = NextPc)
                 \/ kind = "stop" /\ pc' = After(pc)
<1>1. CASE Plain
  BY <1>1 DEF Plain, Retires, Kinds
<1>2. CASE EI
  BY <1>2 DEF EI, Kinds
<1>3. CASE DI
  BY <1>3 DEF DI, Retires, Kinds
<1>4. CASE Halt
  <2>1. pc' \in {pc, NextPc}
    BY <1>4 DEF Halt
  <2> QED BY <1>4, <2>1 DEF Halt, Retires, Kinds
<1>5. CASE Stop
  BY <1>5 DEF Stop, Retires, Kinds
<1>6. ASSUME NEW kind \in {"reti", "ie", "if"}, Begins(kind)
      PROVE  /\ Executes(kind) /\ kind \in Kinds /\ pc' = NextPc /\ phase' = kind
             /\ kind = "reti" => stack # <<>>
  BY <1>6 DEF Begins, Kinds
<1> QED BY <1>1, <1>2, <1>3, <1>4, <1>5, <1>6 DEF Instructions

LEMMA InstructionFlags ==
    ASSUME CpuInv, Instructions, phase # "sample", ~halted, ~stopped
    PROVE  /\ delay' \in 0 .. 1 /\ ime' \in BOOLEAN /\ grace' \in BOOLEAN
           /\ ~(ime' /\ delay' # 0) /\ (grace' => ~ime')
<1>1. delay \in 0 .. 1 /\ ime \in BOOLEAN /\ ~(ime /\ delay # 0) /\ (grace => ~ime)
      /\ grace \in BOOLEAN
  BY DEF CpuInv, CpuWellTyped, FlagsAgree
<1>2. CASE Plain \/ Halt \/ Stop
  <2>1. Retires(delay, ime)
    BY <1>2 DEF Plain, Halt, Stop
  <2> QED BY <1>1, <2>1, RetiresFlags
<1>3. CASE DI
  <2>1. Retires(0, FALSE)
    BY <1>3 DEF DI
  <2>2. 0 \in 0 .. 1 /\ FALSE \in BOOLEAN /\ ~(FALSE /\ 0 # 0)
    OBVIOUS
  <2> QED BY <2>1, <2>2, RetiresFlags, Zenon
<1>4. CASE EI
  <2>1. CASE ~ime /\ delay = 0
    <3>1. Delayed(2, ime) /\ grace' = TRUE
      BY <1>4, <2>1, Zenon DEF EI
    <3>2. delay' = 1
      BY <3>1 DEF Delayed
    <3>3. 2 # 1
      OBVIOUS
    <3>4. ime' \in BOOLEAN /\ ~ime'
      BY <2>1, <3>1, <3>3, Zenon DEF Delayed
    <3> QED BY <3>1, <3>2, <3>4
  <2>2. CASE ime \/ delay # 0
    <3>1. Delayed(delay, ime) /\ grace' = FALSE
      BY <1>4, <2>2, Zenon DEF EI
    <3>2. delay \in 0 .. 2
      BY <1>1
    <3>3. delay' \in 0 .. 1 /\ ime' \in BOOLEAN /\ ~(ime' /\ delay' # 0)
      BY <1>1, <3>1, <3>2, DelaySteps, Zenon
    <3> QED BY <3>1, <3>3
  <2> QED BY <1>1, <2>1, <2>2
<1>5. CASE \E kind \in {"reti", "ie", "if"} : Begins(kind)
  <2>1. UNCHANGED <<ime, delay, grace>>
    BY <1>5 DEF Begins
  <2> QED BY <1>1, <2>1, Zenon
<1> QED BY <1>2, <1>3, <1>4, <1>5 DEF Instructions

LEMMA InstructionHolds ==
    ASSUME CpuInv, Instructions, phase # "sample", ~halted, ~stopped
    PROVE  /\ bug' \in BOOLEAN /\ halted' \in BOOLEAN /\ stopped' \in BOOLEAN
           /\ ~(halted' /\ stopped') /\ (phase' # "sample" => ~halted' /\ ~stopped')
           /\ settling' \in 0 .. SettleSteps
           /\ enables' = enables
<1>1. settling \in 0 .. SettleSteps /\ halted = FALSE /\ stopped = FALSE
  BY DEF CpuInv, CpuWellTyped
<1>2. CASE Plain \/ EI \/ DI
  BY <1>1, <1>2 DEF Plain, EI, DI
<1>3. CASE Halt
  <2>1. /\ bug' \in BOOLEAN /\ halted' \in BOOLEAN
        /\ UNCHANGED <<stopped, settling, enables>> /\ phase' = "sample"
    <3>1. CASE Due # {} /\ (ime \/ delay # 0)
      BY <1>3, <3>1, Zenon DEF Halt, Retires
    <3>2. CASE ~(Due # {} /\ (ime \/ delay # 0))
      BY <1>3, <3>2, Zenon DEF Halt, Retires
    <3> QED BY <3>1, <3>2
  <2> QED BY <1>1, <2>1
<1>4. CASE Stop
  <2>1. /\ bug' = FALSE /\ UNCHANGED <<halted, enables>> /\ phase' = "sample"
        /\ stopped' \in BOOLEAN
    BY <1>4, Zenon DEF Stop, Retires
  <2>2. settling' \in {settling, SettleSteps}
    BY <1>4 DEF Stop
  <2>3. settling' \in 0 .. SettleSteps
    BY <1>1, <2>2
  <2> QED BY <1>1, <2>1, <2>3, Zenon
<1>5. CASE \E kind \in {"reti", "ie", "if"} : Begins(kind)
  BY <1>1, <1>5 DEF Begins
<1> QED BY <1>2, <1>3, <1>4, <1>5 DEF Instructions

LEMMA InstructionsInv ==
    ASSUME CpuInv, Instructions
    PROVE  CpuWellTyped' /\ FlagsAgree'
<1>1. PICK kind \in Kinds :
          /\ Executes(kind)
          /\ phase' \in {"sample", "reti", "ie", "if"}
          /\ pc' \in {pc, NextPc, After(pc)}
  BY InstructionExecutes
<1>2. /\ phase = "fetched" /\ ~halted /\ ~stopped
      /\ requests' \subseteq Sources /\ ack' \in BOOLEAN
      /\ NextPc \in Addresses
      /\ last' \in [at : Addresses, again : BOOLEAN]
      /\ stack' = stack /\ sent' = sent
  BY <1>1, ExecutesTyped
<1>3. pc' \in Addresses
  BY <1>1, <1>2, AddressFacts DEF CpuInv, CpuWellTyped
<1>4. /\ delay' \in 0 .. 1 /\ ime' \in BOOLEAN /\ grace' \in BOOLEAN
      /\ ~(ime' /\ delay' # 0) /\ (grace' => ~ime')
  BY <1>2, InstructionFlags
<1>5. /\ bug' \in BOOLEAN /\ halted' \in BOOLEAN /\ stopped' \in BOOLEAN
      /\ ~(halted' /\ stopped') /\ (phase' # "sample" => ~halted' /\ ~stopped')
      /\ settling' \in 0 .. SettleSteps
      /\ enables' = enables
  BY <1>2, InstructionHolds
<1>6. FlagsAgree'
  BY <1>4, <1>5 DEF FlagsAgree
<1>7. CpuWellTyped'
  <2>1. phase' \in Flow /\ delay' \in Nat
    BY <1>1, <1>4 DEF Flow
  <2>2. stack' \in Seq(Addresses) /\ sent' \subseteq Sources /\ enables' \subseteq Sources
    BY <1>2, <1>5 DEF CpuInv, CpuWellTyped
  <2> QED BY <1>2, <1>3, <1>4, <1>5, <2>1, <2>2 DEF CpuWellTyped
<1> QED BY <1>6, <1>7

-----------------------------------------------------------------------------
(* Where the main program goes on.                                         *)

\* A step that moves neither the program nor the stack.
LEMMA MainWaits ==
    ASSUME CpuInv, UNCHANGED <<pc, stack, last>>,
           phase' = "vector" <=> phase = "vector", phase' = "reti" => phase = "reti"
    PROVE  MainIsKept'
BY DEF CpuInv, MainIsKept, GoesOn

LEMMA MainInstructions ==
    ASSUME CpuInv, Instructions
    PROVE  MainIsKept'
<1>1. PICK kind \in Kinds :
          /\ Executes(kind)
          /\ phase' \in {"sample", "reti", "ie", "if"}
          /\ phase' = "reti" => stack # <<>>
          /\ \/ pc' = NextPc
             \/ kind = "halt" /\ (pc' = pc \/ pc' = NextPc)
             \/ kind = "stop" /\ pc' = After(pc)
  BY InstructionExecutes
<1>2. /\ phase = "fetched" /\ stack' = stack /\ pc \in Addresses
      /\ last \in [at : Addresses, again : BOOLEAN]
      /\ bug \in BOOLEAN
  BY <1>1, ExecutesTyped DEF CpuInv, CpuWellTyped
<1>3. pc'.code = pc.code
  BY <1>1, <1>2, AddressFacts DEF NextPc
<1>4. CASE pc.code = "main"
  <2>1. stack = <<>>
    BY <1>2, <1>4 DEF CpuInv, MainIsKept
  <2>2. last'.at = pc /\ last'.again = (bug \/ kind = "halt")
    BY <1>1, <1>4 DEF Executes, Ran
  <2>3. \/ pc' = After(pc)
        \/ (bug \/ kind = "halt") /\ pc' = pc
    <3>1. CASE bug
      <4>1. NextPc = pc
        BY <3>1 DEF NextPc
      <4> QED BY <1>1, <3>1, <4>1
    <3>2. CASE ~bug
      <4>1. NextPc = After(pc)
        BY <3>2 DEF NextPc
      <4> QED BY <1>1, <4>1
    <3> QED BY <3>1, <3>2
  <2>4. GoesOn(pc)'
    BY <2>2, <2>3 DEF GoesOn, After, Main
  <2> QED BY <1>1, <1>2, <2>1, <2>4 DEF MainIsKept
<1>5. CASE pc.code # "main"
  <2>1. last' = last
    BY <1>1, <1>5 DEF Executes, Ran
  <2> QED BY <1>1, <1>2, <1>3, <1>5, <2>1 DEF CpuInv, MainIsKept, GoesOn
<1> QED BY <1>4, <1>5

LEMMA MainReturns ==
    ASSUME CpuInv, Reti
    PROVE  MainIsKept'
<1>1. /\ phase = "reti" /\ phase' = "sample" /\ pc' = Head(stack) /\ stack' = Tail(stack)
      /\ last' = last
  BY DEF Reti, Retires
<1>2. /\ stack \in Seq(Addresses) /\ stack # <<>>
      /\ \A i \in 1 .. Len(stack) :
            stack[i].code = "main" => i = Len(stack) /\ GoesOn(stack[i])
  BY <1>1 DEF CpuInv, CpuWellTyped, MainIsKept
<1>3. /\ Len(stack) \in Nat \ {0} /\ Head(stack) = stack[1]
      /\ Len(Tail(stack)) = Len(stack) - 1
      /\ \A i \in 1 .. Len(Tail(stack)) : Tail(stack)[i] = stack[i + 1]
      /\ Tail(stack) \in Seq(Addresses)
  <2>1. Len(stack) \in Nat \ {0}
    BY <1>2, EmptySeq
  <2>2. Head(stack) = stack[1]
    BY <1>2
  <2> QED BY <1>2, <2>1, <2>2, HeadTailProperties
<1>4. \A i \in 1 .. Len(stack') :
         stack'[i].code = "main" => i = Len(stack') /\ GoesOn(stack'[i])
  <2> TAKE i \in 1 .. Len(stack')
  <2>1. i + 1 \in 1 .. Len(stack) /\ stack'[i] = stack[i + 1]
    BY <1>1, <1>3
  <2>2. stack[i + 1].code = "main" => i + 1 = Len(stack) /\ GoesOn(stack[i + 1])
    BY <1>2, <2>1
  <2>3. i + 1 = Len(stack) => i = Len(stack')
    BY <1>1, <1>3
  <2> QED BY <2>1, <2>2, <2>3
<1>5. pc'.code = "main" => Len(stack) = 1 /\ GoesOn(pc')
  <2>1. 1 \in 1 .. Len(stack) /\ pc' = stack[1]
    BY <1>1, <1>3
  <2> QED BY <1>2, <1>3, <2>1
<1>6. Len(stack) = 1 => Tail(stack) = <<>>
  <2>1. Len(stack) = 1 => Len(Tail(stack)) \notin Nat \ {0}
    BY <1>3
  <2> QED BY <1>3, <2>1, EmptySeq
<1> QED BY <1>1, <1>4, <1>5, <1>6 DEF MainIsKept, GoesOn

LEMMA MainIsPushed ==
    ASSUME CpuInv, Arbitrate
    PROVE  MainIsKept'
<1>1. /\ phase = "low" /\ phase' = "vector" /\ UNCHANGED <<pc, last>>
      /\ stack' = stack \/ stack' = <<pc>> \o stack
  BY DEF Arbitrate, history
<1>2. /\ stack \in Seq(Addresses) /\ pc \in Addresses
      /\ pc.code = "main" => stack = <<>> /\ GoesOn(pc)
      /\ \A i \in 1 .. Len(stack) :
            stack[i].code = "main" => i = Len(stack) /\ GoesOn(stack[i])
  BY <1>1 DEF CpuInv, CpuWellTyped, MainIsKept
<1>3. \A i \in 1 .. Len(stack') :
         stack'[i].code = "main" => i = Len(stack') /\ GoesOn(stack'[i])
  <2>1. CASE stack' = stack
    BY <1>2, <2>1
  <2>2. CASE stack' = <<pc>> \o stack
    <3>1. /\ Len(stack') = Len(stack) + 1 /\ stack'[1] = pc
          /\ \A i \in 2 .. Len(stack') : stack'[i] = stack[i - 1]
      BY <1>2, <2>2
    <3>2. Len(stack) \in Nat /\ (stack = <<>> => Len(stack) = 0)
      BY <1>2
    <3>3. ASSUME NEW i \in 1 .. Len(stack'), stack'[i].code = "main"
          PROVE  i = Len(stack') /\ GoesOn(stack'[i])
      <4>1. CASE i = 1
        BY <1>2, <3>1, <3>2, <3>3, <4>1
      <4>2. CASE i # 1
        <5>1. i - 1 \in 1 .. Len(stack) /\ stack'[i] = stack[i - 1]
          BY <3>1, <3>2, <4>2
        <5> QED BY <1>2, <3>1, <3>2, <3>3, <5>1
      <4> QED BY <4>1, <4>2
    <3> QED BY <3>3
  <2> QED BY <1>1, <2>1, <2>2
<1> QED BY <1>1, <1>3 DEF MainIsKept, GoesOn

LEMMA MainLeaves ==
    ASSUME CpuInv, Vector
    PROVE  MainIsKept'
<1>1. /\ phase' = "sample" /\ UNCHANGED <<stack, last>>
      /\ pc' = Handler(Lowest(sent))
  BY DEF Vector, history
<1>2. pc'.code = "handler"
  BY <1>1 DEF Handler
<1> QED BY <1>1, <1>2 DEF CpuInv, MainIsKept, GoesOn

LEMMA CpuStutter ==
    ASSUME CpuInv, UNCHANGED cpuVars
    PROVE  CpuInv'
BY DEF cpuVars, regs, history, CpuInv, CpuWellTyped, FlagsAgree, MainIsKept, GoesOn

LEMMA CpuInvNext ==
    ASSUME CpuInv, CpuNext
    PROVE  CpuInv'
<1>1. CASE Instructions
  BY <1>1, InstructionsInv, MainInstructions DEF CpuInv
<1>2. CASE Waits
  BY <1>2, WaitsInv, MainWaits DEF CpuInv
<1>3. CASE Dispatch \/ Fetch \/ Discard
  BY <1>3, EntersInv, MainWaits DEF CpuInv
<1>4. CASE PushHigh \/ StoreHigh
  BY <1>4, PushesInv, MainWaits DEF CpuInv
<1>5. CASE Arbitrate
  BY <1>5, ArbitrateInv, MainIsPushed DEF CpuInv
<1>6. CASE Vector
  BY <1>6, VectorInv, MainLeaves DEF CpuInv
<1>7. CASE Reti
  BY <1>7, CompletesInv, MainReturns DEF CpuInv
<1>8. CASE StoreIE \/ StoreIF
  <2>1. UNCHANGED <<pc, stack, last>> /\ phase \in {"ie", "if"} /\ phase' = "sample"
    BY <1>8 DEF StoreIE, StoreIF, Retires
  <2> QED BY <1>8, <2>1, CompletesInv, MainWaits DEF CpuInv
<1> QED
  BY <1>1, <1>2, <1>3, <1>4, <1>5, <1>6, <1>7, <1>8
  DEF CpuNext, CpuStep, Instructions, Waits

LEMMA CpuInvHolds == CpuSpec => []CpuInv
BY CpuInvInit, CpuInvNext, CpuStutter, PTL DEF CpuSpec

(* The registers of the processor keep their types; EI is not still to     *)
(* take effect while interrupts are enabled, and the processor is not      *)
(* halted and stopped at once.                                             *)
THEOREM CpuTypes == CpuSpec => []CpuTypeOK
<1>1. CpuInv => CpuTypeOK
  BY DEF CpuInv, CpuWellTyped, FlagsAgree, CpuTypeOK
<1> QED BY <1>1, CpuInvHolds, PTL

(* The instruction after EI runs before an interrupt is taken: while it is *)
(* still to run, interrupts are not enabled.                               *)
THEOREM CpuShadow == CpuSpec => EiShadow
<1>1. ASSUME CpuInv, [CpuNext]_cpuVars, phase' = "push", phase # "push"
      PROVE  ~grace
  <2>1. CASE Dispatch \/ Discard
    BY <1>1, <2>1, EntersInv
  <2>2. CASE ~(Dispatch \/ Discard)
    BY <1>1, <2>2
    DEF CpuNext, CpuStep, cpuVars, regs, history, SettleStep, Resume, Sleep, LateWake,
        Fetch, Plain, EI, DI, Halt, Stop, Begins, Reti, StoreIE, StoreIF, PushHigh,
        StoreHigh, Arbitrate, Vector, Press, Raise, Retires
  <2> QED BY <2>1, <2>2
<1>2. CpuInv /\ [CpuNext]_cpuVars => [phase' = "push" /\ phase # "push" => ~grace]_cpuVars
  BY <1>1
<1> QED BY <1>2, CpuInvHolds, PTL DEF CpuSpec, EiShadow

(* A request leaves IF only as its handler is entered or the guest writes  *)
(* IF, with a store or a push; a STAT request also while one is being      *)
(* acknowledged.                                                           *)
THEOREM CpuDropsNothing == CpuSpec => NothingIsDropped
<1> DEFINE Leaves(s) == \/ phase = "if"
                        \/ phase = "high" /\ target = "high_on_if"
                        \/ phase = "low" /\ target = "low_on_if"
                        \/ phase = "low" /\ s \in enables /\ \A t \in Pending : s <= t
                        \/ s = Stat /\ ack
           Dropped == \A s \in requests \ requests' : Leaves(s)
<1>1. ASSUME CpuNext, NEW s \in requests \ requests'
      PROVE  Leaves(s)
  <2>1. CASE StoreIF
    BY <2>1 DEF StoreIF
  <2>2. CASE Arbitrate
    <3>1. phase = "low" /\ (target = "low_on_if" \/ s \in Lowest(Pending))
      BY <1>1, <2>2 DEF Arbitrate
    <3> QED BY <3>1 DEF Lowest, Pending
  <2>3. CASE Vector
    BY <1>1, <2>3 DEF Vector
  <2>4. CASE Discard
    BY <1>1, <2>4 DEF Discard, RequestsAtFetch
  <2>5. CASE \E kind \in Kinds : Executes(kind)
    BY <1>1, <2>5 DEF Executes, RequestsAtFetch
  <2>6. CASE Press \/ \E t \in Sources : Raise(t)
    BY <1>1, <2>6 DEF Press, Raise
  <2>9. CASE StoreHigh
    BY <1>1, <2>9 DEF StoreHigh
  <2>7. CASE requests' = requests
    BY <1>1, <2>7
  <2>8. \/ StoreIF \/ StoreHigh \/ Arbitrate \/ Vector \/ Discard
        \/ \E kind \in Kinds : Executes(kind)
        \/ Press \/ \E t \in Sources : Raise(t)
        \/ requests' = requests
    <3>1. CASE Plain \/ EI \/ DI \/ Halt \/ Stop
      BY <3>1 DEF Plain, EI, DI, Halt, Stop, Kinds
    <3>2. CASE \E kind \in {"reti", "ie", "if"} : Begins(kind)
      BY <3>2 DEF Begins, Kinds
    <3>3. CASE \/ SettleStep \/ Resume \/ Sleep \/ LateWake \/ Dispatch \/ Fetch
               \/ Reti \/ StoreIE \/ PushHigh
      BY <3>3 DEF SettleStep, Resume, Sleep, LateWake, Dispatch, Fetch, Reti, StoreIE,
                  PushHigh
    <3> QED BY <1>1, <3>1, <3>2, <3>3 DEF CpuNext, CpuStep
  <2> HIDE DEF Leaves
  <2> QED BY <2>1, <2>2, <2>3, <2>4, <2>5, <2>6, <2>7, <2>8, <2>9
<1>2. [CpuNext]_cpuVars => [Dropped]_cpuVars
  BY <1>1
<1> QED BY <1>2, PTL DEF CpuSpec, NothingIsDropped

(* Interrupts are invisible to the program they interrupt: it goes on with *)
(* the instruction after its last one, but for HALT and the one after it.  *)
THEOREM CpuSkipsNothing == CpuSpec => NothingIsSkipped
<1>1. ASSUME CpuInv, [CpuNext]_cpuVars, last' # last
      PROVE  GoesOn(pc)
  <2>1. CASE \E kind \in Kinds : Executes(kind)
    <3>1. phase = "fetched" /\ pc.code = "main"
      BY <1>1, <2>1 DEF Executes, Ran
    <3> QED BY <1>1, <3>1 DEF CpuInv, MainIsKept
  <2>2. CASE Instructions
    BY <1>1, <2>1, <2>2, InstructionExecutes
  <2>3. CASE ~Instructions
    BY <1>1, <2>3
    DEF CpuNext, CpuStep, Instructions, cpuVars, history, SettleStep, Resume, Sleep,
        LateWake, Dispatch, Fetch, Discard, Reti, StoreIE, StoreIF, PushHigh, StoreHigh,
        Arbitrate, Vector, Press, Raise
  <2> QED BY <2>2, <2>3
<1>2. CpuInv /\ [CpuNext]_cpuVars
      => [last' # last => \/ pc = After(last.at)
                          \/ last.again /\ pc = last.at]_cpuVars
  BY <1>1 DEF GoesOn
<1> QED BY <1>2, CpuInvHolds, PTL DEF CpuSpec, NothingIsSkipped
-----------------------------------------------------------------------------
(* The timer. TimerCycles clocks the divider one cycle at a time; the code *)
(* does so only when it must, and otherwise moves the divider on by the    *)
(* whole span. One clock of the code is one Clock of the hardware, so its  *)
(* loop is Clocks(s, n), followed round by round (Iteration). A span that  *)
(* is skipped changes only the divider and the reload delay: no bit of     *)
(* the divider falls in it, which is found by remainders. TimerTypeOK      *)
(* needs no strengthening to carry this.                                   *)

LEMMA TimerSizes ==
    /\ DividerSpan \in Nat \ {0} /\ CounterSpan \in Nat \ {0} /\ ReloadDelay \in Nat \ {0}
    /\ Steps \in Nat \ {0} /\ Propagation \in Nat /\ Spans \subseteq Nat \ {0}
    /\ \A r \in Rates : /\ Period[r] \in Nat \ {0} /\ Period[r] % 2 = 0
                        /\ DividerSpan % Period[r] = 0
    /\ \A d \in BOOLEAN : /\ ApuPeriod[d] \in Nat \ {0} /\ ApuPeriod[d] % 2 = 0
                          /\ DividerSpan % ApuPeriod[d] = 0
<1>1. /\ DividerSpan \in Nat \ {0} /\ CounterSpan \in Nat \ {0} /\ ReloadDelay \in Nat \ {0}
      /\ Steps \in Nat \ {0} /\ Propagation \in Nat /\ Spans \subseteq Nat \ {0}
  BY BusAssumption DEF Hardware!Sizes
<1>2. ASSUME NEW r \in Rates
      PROVE  /\ Period[r] \in Nat \ {0} /\ Period[r] % 2 = 0
             /\ DividerSpan % Period[r] = 0
  <2>1. /\ Period[r] \in Nat \ {0} /\ Period[r] % (2 * ReloadDelay) = 0
        /\ DividerSpan % Period[r] = 0
    <3>1. Period \in [Rates -> Nat \ {0}]
      BY BusAssumption DEF Hardware!Sizes
    <3>2. Hardware!Divides(2 * ReloadDelay, Period[r]) /\ Hardware!Divides(Period[r], DividerSpan)
      BY BusAssumption, Zenon DEF Hardware!Sizes
    <3> QED BY <3>1, <3>2, Zenon DEF Hardware!Divides
  <2> DEFINE p == Period[r]
             k == p \div (2 * ReloadDelay)
  <2>2. 2 * ReloadDelay \in Nat \ {0}
    BY <1>1
  <2>3. p = (2 * ReloadDelay) * k + (p % (2 * ReloadDelay)) /\ k \in Nat
    <3>1. p \in Nat
      BY <2>1
    <3> QED BY <2>2, <3>1, ModDef, ZenonT(30)
  <2> HIDE DEF k, p
  <2>4. ReloadDelay * k \in Nat
    BY <1>1, <2>3, Z3
  <2>5. p = 2 * (ReloadDelay * k) + 0
    <3>1. (2 * ReloadDelay) * k = 2 * (ReloadDelay * k)
      BY <1>1, <2>3, Z3
    <3>2. p % (2 * ReloadDelay) = 0
      BY <2>1 DEF p
    <3>3. p = (2 * ReloadDelay) * k + 0
      BY <2>3, <3>2, Zenon
    <3> QED BY <3>1, <3>3, Zenon
  <2>6. (2 * (ReloadDelay * k) + 0) % 2 = 0
    BY <2>4, ModUnique
  <2> QED BY <2>1, <2>5, <2>6 DEF p
<1>3. ASSUME NEW d \in BOOLEAN
      PROVE  /\ ApuPeriod[d] \in Nat \ {0} /\ ApuPeriod[d] % 2 = 0
             /\ DividerSpan % ApuPeriod[d] = 0
  BY BusAssumption DEF Hardware!Sizes, Hardware!Divides
<1> QED BY <1>1, <1>2, <1>3

(* A field of the divider whose period divides the whole: the bit falls as *)
(* the field wraps, and the field counts on until then.                    *)
Divider == 0 .. DividerSpan - 1

LEMMA BitFalls ==
    ASSUME NEW d \in Divider, NEW p \in Nat \ {0}, p % 2 = 0, DividerSpan % p = 0
    PROVE  /\ BitSet(d, p) <=> Hardware!BitOf(d, p)
           /\ Hardware!BitOf(d, p) /\ ~Hardware!BitOf((d + 1) % DividerSpan, p)
                <=> ((d + 1) % DividerSpan) % p = 0
<1> DEFINE r == d % p
           n == ((d + 1) % DividerSpan) % p
           h == p \div 2
<1>1. d \in Nat /\ d + 1 \in Nat /\ DividerSpan \in Nat \ {0}
  BY TimerSizes DEF Divider
<1>2. r \in 0 .. p - 1
  BY <1>1, ModDef
<1>3. p = 2 * h /\ h \in Nat
  <2>1. 2 \in Nat \ {0}
    OBVIOUS
  <2>2. p = 2 * h + (p % 2) /\ h \in Nat
    BY <2>1, ModDef
  <2> HIDE DEF h
  <2> QED BY <2>2
<1>4. n = IF r + 1 = p THEN 0 ELSE r + 1
  <2>1. n = (d + 1) % p
    BY <1>1, ModOfMod, ZenonT(60)
  <2>2. (d + 1) % p = IF r + 1 = p THEN 0 ELSE r + 1
    BY <1>1, ModNext
  <2> QED BY <2>1, <2>2
<1>5. /\ BitSet(d, p) <=> r >= h
      /\ Hardware!BitOf(d, p) <=> 2 * r >= p
      /\ Hardware!BitOf((d + 1) % DividerSpan, p) <=> 2 * n >= p
  BY DEF BitSet, Hardware!BitOf
<1> HIDE DEF r, n, h
<1>6. /\ r >= h <=> 2 * r >= p
      /\ 2 * r >= p /\ ~(2 * n >= p) <=> n = 0
  <2>1. CASE r + 1 = p
    BY <2>1, <1>2, <1>3, <1>4
  <2>2. CASE r + 1 # p
    BY <2>2, <1>2, <1>3, <1>4
  <2> QED BY <2>1, <2>2
<1>7. n = 0 <=> ((d + 1) % DividerSpan) % p = 0
  BY DEF n
<1> QED BY <1>5, <1>6, <1>7, Zenon

LEMMA FieldCounts ==
    ASSUME NEW d \in Divider, NEW p \in Nat \ {0}, DividerSpan % p = 0,
           NEW i \in Nat, i < Wraps(d, p)
    PROVE  ((d + i) % DividerSpan) % p = (d % p) + i
<1>1. d \in Nat /\ d + i \in Nat /\ DividerSpan \in Nat \ {0}
  BY TimerSizes DEF Divider
<1>2. i < p - (d % p)
  BY DEF Wraps
<1>3. ((d + i) % DividerSpan) % p = (d + i) % p
  BY <1>1, ModOfMod, ZenonT(60)
<1>4. (d + i) % p = (d % p) + i
  BY <1>1, <1>2, ModPlus
<1> QED BY <1>3, <1>4

-----------------------------------------------------------------------------
(* One clock, as both specifications run it.                               *)
TimerRegisters == Hardware!Registers

LEMMA RegisterFields ==
    ASSUME NEW t \in TimerRegisters
    PROVE  /\ t.divider \in Divider /\ t.counter \in Counter /\ t.modulo \in Counter
           /\ t.control \in Control /\ t.control.rate \in Rates
           /\ t.control.enabled \in BOOLEAN /\ t.delay \in 0 .. ReloadDelay
           /\ t.reloaded \in BOOLEAN /\ t.double \in BOOLEAN
BY DEF TimerRegisters, Hardware!Registers, Divider, Counter, Hardware!Counter, Control,
       Hardware!Control

TimerEdge(t) ==
    t.control.enabled /\ ((t.divider + 1) % DividerSpan) % Period[t.control.rate] = 0

ApuEdge(t) == ((t.divider + 1) % DividerSpan) % ApuPeriod[t.double] = 0

Moved(t, reload) ==
    [t EXCEPT !.divider  = (@ + 1) % DividerSpan,
              !.delay    = IF @ = 0 THEN 0 ELSE @ - 1,
              !.counter  = IF reload THEN t.modulo ELSE @,
              !.reloaded = reload]

Clocked(t) ==
    IF TimerEdge(t) THEN IncrementCounter(Moved(t, t.delay = 1)) ELSE Moved(t, t.delay = 1)

LEMMA NextDivider ==
    ASSUME NEW d \in Divider
    PROVE  (d + 1) % DividerSpan \in Divider
<1>1. d + 1 \in Nat /\ DividerSpan \in Nat \ {0}
  BY TimerSizes DEF Divider
<1> QED BY <1>1, ModDef DEF Divider

LEMMA MovedType ==
    ASSUME NEW t \in TimerRegisters, NEW reload \in BOOLEAN
    PROVE  /\ Moved(t, reload) \in TimerRegisters
           /\ Moved(t, reload).divider = (t.divider + 1) % DividerSpan
           /\ Moved(t, reload).control = t.control
           /\ Moved(t, reload).double = t.double
           /\ Moved(t, reload).delay = IF t.delay = 0 THEN 0 ELSE t.delay - 1
           /\ Moved(t, reload).counter = IF reload THEN t.modulo ELSE t.counter
           /\ Moved(t, reload).reloaded = reload
<1> DEFINE d == (t.divider + 1) % DividerSpan
           wait == IF t.delay = 0 THEN 0 ELSE t.delay - 1
           c == IF reload THEN t.modulo ELSE t.counter
<1>1. d \in 0 .. DividerSpan - 1
  BY RegisterFields, NextDivider DEF Divider
<1>2. wait \in 0 .. ReloadDelay
  BY TimerSizes, RegisterFields
<1>3. c \in Hardware!Counter
  BY RegisterFields DEF Counter
<1>4. Moved(t, reload) = [t EXCEPT !.divider = d, !.delay = wait, !.counter = c,
                                   !.reloaded = reload]
  BY DEF Moved
<1> HIDE DEF d, wait, c
<1>5. /\ Moved(t, reload) \in TimerRegisters
      /\ Moved(t, reload).divider = d /\ Moved(t, reload).control = t.control
      /\ Moved(t, reload).double = t.double /\ Moved(t, reload).delay = wait
      /\ Moved(t, reload).counter = c /\ Moved(t, reload).reloaded = reload
  BY <1>1, <1>2, <1>3, <1>4 DEF TimerRegisters, Hardware!Registers
<1> QED BY <1>5 DEF d, wait, c

LEMMA CountedType ==
    ASSUME NEW t \in TimerRegisters
    PROVE  /\ IncrementCounter(t) \in TimerRegisters
           /\ Hardware!Counted(t) = IncrementCounter(t)
           /\ IncrementCounter(t).divider = t.divider
           /\ IncrementCounter(t).control = t.control
           /\ IncrementCounter(t).double = t.double
<1>1. ReloadDelay \in Nat /\ CounterSpan \in Nat \ {0}
  BY TimerSizes
<1>2. t.counter # CounterSpan - 1 => t.counter + 1 \in 0 .. CounterSpan - 1
  BY <1>1, RegisterFields DEF Counter, Hardware!Counter
<1>3. 0 \in 0 .. CounterSpan - 1 /\ ReloadDelay \in 0 .. ReloadDelay
  BY <1>1
<1>4. Hardware!Counted(t) = IncrementCounter(t)
  BY DEF Hardware!Counted, IncrementCounter
<1>5. CASE t.delay # 0
  BY <1>4, <1>5 DEF IncrementCounter
<1>6. CASE t.delay = 0 /\ t.counter = CounterSpan - 1
  <2>1. IncrementCounter(t) = [t EXCEPT !.counter = 0, !.delay = ReloadDelay]
    BY <1>6 DEF IncrementCounter
  <2> QED BY <1>3, <1>4, <2>1 DEF TimerRegisters, Hardware!Registers, Hardware!Counter
<1>7. CASE t.delay = 0 /\ t.counter # CounterSpan - 1
  <2>1. IncrementCounter(t) = [t EXCEPT !.counter = t.counter + 1]
    BY <1>7 DEF IncrementCounter
  <2> QED BY <1>2, <1>4, <1>7, <2>1 DEF TimerRegisters, Hardware!Registers, Hardware!Counter
<1> QED BY <1>5, <1>6, <1>7

LEMMA ClockedType ==
    ASSUME NEW t \in TimerRegisters
    PROVE  /\ Clocked(t) \in TimerRegisters
           /\ Clocked(t).divider = (t.divider + 1) % DividerSpan
           /\ Clocked(t).control = t.control /\ Clocked(t).double = t.double
<1> DEFINE reload == t.delay = 1
           m == Moved(t, reload)
<1>1. reload \in BOOLEAN
  OBVIOUS
<1>2. Clocked(t) = IF TimerEdge(t) THEN IncrementCounter(m) ELSE m
  BY DEF Clocked
<1> HIDE DEF reload
<1>3. /\ m \in TimerRegisters /\ m.divider = (t.divider + 1) % DividerSpan
      /\ m.control = t.control /\ m.double = t.double
  BY <1>1, MovedType
<1> HIDE DEF m
<1>4. /\ IncrementCounter(m) \in TimerRegisters /\ IncrementCounter(m).divider = m.divider
      /\ IncrementCounter(m).control = m.control /\ IncrementCounter(m).double = m.double
  BY <1>3, CountedType
<1> QED BY <1>2, <1>3, <1>4, Zenon

\* The bits that fall as the divider counts on.
LEMMA EdgesAre ==
    ASSUME NEW t \in TimerRegisters, NEW u \in TimerRegisters,
           u.divider = (t.divider + 1) % DividerSpan, u.control = t.control,
           u.double = t.double
    PROVE  /\ Hardware!Input(t) /\ ~Hardware!Input(u) <=> TimerEdge(t)
           /\ Hardware!ApuInput(t) /\ ~Hardware!ApuInput(u) <=> ApuEdge(t)
<1>1. /\ t.divider \in Divider /\ t.control.rate \in Rates /\ t.double \in BOOLEAN
      /\ t.control.enabled \in BOOLEAN
  BY RegisterFields
<1>2. /\ Period[t.control.rate] \in Nat \ {0} /\ Period[t.control.rate] % 2 = 0
      /\ DividerSpan % Period[t.control.rate] = 0
  BY <1>1, TimerSizes
<1>3. /\ ApuPeriod[t.double] \in Nat \ {0} /\ ApuPeriod[t.double] % 2 = 0
      /\ DividerSpan % ApuPeriod[t.double] = 0
  BY <1>1, TimerSizes
<1>4. Hardware!BitOf(t.divider, Period[t.control.rate])
        /\ ~Hardware!BitOf((t.divider + 1) % DividerSpan, Period[t.control.rate])
      <=> ((t.divider + 1) % DividerSpan) % Period[t.control.rate] = 0
  BY <1>1, <1>2, BitFalls
<1>5. Hardware!BitOf(t.divider, ApuPeriod[t.double])
        /\ ~Hardware!BitOf((t.divider + 1) % DividerSpan, ApuPeriod[t.double])
      <=> ((t.divider + 1) % DividerSpan) % ApuPeriod[t.double] = 0
  BY <1>1, <1>3, BitFalls
<1>6. Hardware!Input(t) /\ ~Hardware!Input(u) <=> TimerEdge(t)
  BY <1>4, Zenon DEF Hardware!Input, TimerEdge
<1>7. Hardware!ApuInput(t) /\ ~Hardware!ApuInput(u) <=> ApuEdge(t)
  BY <1>5, Zenon DEF Hardware!ApuInput, ApuEdge
<1> QED BY <1>6, <1>7

TimerStates == [timer : TimerRegisters, requested : BOOLEAN, sequencer : 0 .. Steps - 1]

LEMMA NextStep ==
    ASSUME NEW z \in 0 .. Steps - 1
    PROVE  /\ (z + 1) % Steps \in 0 .. Steps - 1 /\ (z + 0) % Steps = z
<1>1. z \in Nat /\ z + 1 \in Nat /\ Steps \in Nat \ {0}
  BY TimerSizes
<1>2. (z + 1) % Steps \in 0 .. Steps - 1
  BY <1>1, ModDef
<1>3. Steps * 0 + z = z + 0 /\ 0 \in Nat
  BY <1>1
<1>4. (Steps * 0 + z) % Steps = z
  BY <1>1, <1>3, ModUnique
<1> QED BY <1>2, <1>3, <1>4

LEMMA HardwareClock ==
    ASSUME NEW s \in TimerStates
    PROVE  /\ Hardware!Clock(s) \in TimerStates
           /\ Hardware!Clock(s).timer = Clocked(s.timer)
           /\ Hardware!Clock(s).requested <=> s.requested \/ s.timer.delay = 1
           /\ Hardware!Clock(s).sequencer =
                IF ApuEdge(s.timer) THEN (s.sequencer + 1) % Steps ELSE s.sequencer
<1> DEFINE t == s.timer
           reload == t.delay = 1
           before == Hardware!Reloading(t)
           after == [before EXCEPT !.divider = (@ + 1) % DividerSpan]
           irq == s.requested \/ s.timer.delay = 1
           step == IF ApuEdge(t) THEN (s.sequencer + 1) % Steps ELSE s.sequencer
<1>1. t \in TimerRegisters /\ s.requested \in BOOLEAN /\ s.sequencer \in 0 .. Steps - 1
      /\ reload \in BOOLEAN
  BY DEF TimerStates
<1> HIDE DEF t
<1>2. t.modulo \in Hardware!Counter /\ t.delay \in 0 .. ReloadDelay
      /\ 0 \in 0 .. ReloadDelay /\ (t.delay # 0 => t.delay - 1 \in 0 .. ReloadDelay)
      /\ (t.divider + 1) % DividerSpan \in 0 .. DividerSpan - 1
  BY <1>1, RegisterFields, TimerSizes, NextDivider DEF Counter, Divider
<1>3. /\ before \in TimerRegisters /\ before.divider = t.divider
      /\ before.control = t.control /\ before.double = t.double
      /\ after = Moved(t, reload)
  <2>1. CASE t.delay = 1
    <3>1. before = [t EXCEPT !.delay = 0, !.counter = t.modulo, !.reloaded = TRUE]
      BY <2>1 DEF Hardware!Reloading
    <3>2. reload = TRUE
      BY <2>1
    <3> HIDE DEF before, reload
    <3>3. Moved(t, TRUE) = [t EXCEPT !.divider = (@ + 1) % DividerSpan, !.delay = 0,
                                       !.counter = t.modulo, !.reloaded = TRUE]
      BY <2>1, <1>1 DEF Moved, TimerRegisters, Hardware!Registers
    <3>4. /\ before \in TimerRegisters /\ before.divider = t.divider
          /\ before.control = t.control /\ before.double = t.double
      BY <1>1, <1>2, <3>1 DEF TimerRegisters, Hardware!Registers
    <3>5. after = [t EXCEPT !.divider = (@ + 1) % DividerSpan, !.delay = 0,
                              !.counter = t.modulo, !.reloaded = TRUE]
      BY <1>1, <1>2, <3>1 DEF TimerRegisters, Hardware!Registers
    <3> QED BY <3>2, <3>3, <3>4, <3>5
  <2>2. CASE t.delay # 1
    <3> DEFINE wait == IF t.delay = 0 THEN 0 ELSE t.delay - 1
    <3>1. before = [t EXCEPT !.delay = wait, !.reloaded = FALSE]
      BY <2>2 DEF Hardware!Reloading
    <3>2. reload = FALSE
      BY <2>2
    <3>6. wait \in 0 .. ReloadDelay
      BY <1>2
    <3>3. Moved(t, FALSE) = [t EXCEPT !.divider = (@ + 1) % DividerSpan, !.delay = wait,
                                        !.reloaded = FALSE]
      BY <2>2, <1>1 DEF Moved, TimerRegisters, Hardware!Registers
    <3> HIDE DEF before, reload, wait
    <3>4. /\ before \in TimerRegisters /\ before.divider = t.divider
          /\ before.control = t.control /\ before.double = t.double
      BY <1>1, <1>2, <3>1, <3>6 DEF TimerRegisters, Hardware!Registers
    <3>5. after = [t EXCEPT !.divider = (@ + 1) % DividerSpan, !.delay = wait,
                              !.reloaded = FALSE]
      BY <1>1, <1>2, <3>1, <3>6 DEF TimerRegisters, Hardware!Registers
    <3> QED BY <3>2, <3>3, <3>4, <3>5
  <2> QED BY <2>1, <2>2
<1>4. /\ Hardware!Clock(s).timer =
           IF Hardware!Input(before) /\ ~Hardware!Input(after)
             THEN Hardware!Counted(after) ELSE after
      /\ Hardware!Clock(s).requested = irq
      /\ Hardware!Clock(s).sequencer =
           IF Hardware!ApuInput(before) /\ ~Hardware!ApuInput(after)
             THEN (s.sequencer + 1) % Steps ELSE s.sequencer
      /\ Hardware!Clock(s) = [timer |-> Hardware!Clock(s).timer, requested |-> irq,
                              sequencer |-> Hardware!Clock(s).sequencer]
  <2> HIDE DEF before, after, irq
  <2> QED BY DEF Hardware!Clock, before, after, irq, t
<1> HIDE DEF before, after, reload
<1>5. /\ after \in TimerRegisters /\ after.divider = (t.divider + 1) % DividerSpan
      /\ after.control = t.control /\ after.double = t.double
  BY <1>1, <1>3, MovedType
<1>6. /\ Hardware!Input(before) /\ ~Hardware!Input(after) <=> TimerEdge(before)
      /\ Hardware!ApuInput(before) /\ ~Hardware!ApuInput(after) <=> ApuEdge(before)
  BY <1>3, <1>5, EdgesAre
<1>7. (TimerEdge(before) <=> TimerEdge(t)) /\ (ApuEdge(before) <=> ApuEdge(t))
  BY <1>3 DEF TimerEdge, ApuEdge
<1>8. Hardware!Clock(s).timer = Clocked(t)
  <2>1. Hardware!Counted(after) = IncrementCounter(after)
    BY <1>5, CountedType
  <2>2. Clocked(t) = IF TimerEdge(t) THEN IncrementCounter(after) ELSE after
    BY <1>3 DEF Clocked, reload
  <2> QED BY <1>4, <1>6, <1>7, <2>1, <2>2, Zenon
<1>9. Hardware!Clock(s).sequencer = step /\ step \in 0 .. Steps - 1
  BY <1>1, <1>4, <1>6, <1>7, NextStep
<1>10. irq \in BOOLEAN
  BY <1>1
<1>11. Clocked(t) \in TimerRegisters
  BY <1>1, ClockedType
<1> HIDE DEF irq, step
<1>12. Hardware!Clock(s) \in TimerStates
  BY <1>4, <1>8, <1>9, <1>10, <1>11 DEF TimerStates
<1> QED BY <1>4, <1>8, <1>9, <1>12, Zenon DEF irq, step, t

TimerResults == [timer : TimerRegisters, ticks : Nat, irq : BOOLEAN]

LEMMA ImplClock ==
    ASSUME NEW s \in TimerResults, NEW final \in BOOLEAN, final \/ ~s.timer.reloaded
    PROVE  /\ ClockOnce(s, final) \in TimerResults
           /\ ClockOnce(s, final).timer = Clocked(s.timer)
           /\ ClockOnce(s, final).irq <=> s.irq \/ s.timer.delay = 1
           /\ ClockOnce(s, final).ticks = s.ticks + (IF ApuEdge(s.timer) THEN 1 ELSE 0)
<1> DEFINE t == s.timer
           reload == t.delay = 1
           again == reload \/ (t.reloaded /\ ~final)
           r == Moved(t, again)
           edge == r.control.enabled /\ r.divider % Period[r.control.rate] = 0
           irq == s.irq \/ reload
           ticks == s.ticks + (IF r.divider % ApuPeriod[r.double] = 0 THEN 1 ELSE 0)
           counted == IF edge THEN IncrementCounter(r) ELSE r
<1>1. t \in TimerRegisters /\ s.irq \in BOOLEAN /\ s.ticks \in Nat
  BY DEF TimerResults
<1>2. reload \in BOOLEAN /\ again = reload /\ irq \in BOOLEAN
  BY <1>1
<1>3. Moved(t, again) = [t EXCEPT !.delay = IF @ = 0 THEN 0 ELSE @ - 1,
                       !.counter = IF reload THEN t.modulo ELSE @,
                       !.reloaded = \/ reload
                                    \/ @ /\ ~final,
                       !.divider = (@ + 1) % DividerSpan]
  <2>1. Moved(t, again) = [t EXCEPT !.divider  = (@ + 1) % DividerSpan,
              !.delay    = IF @ = 0 THEN 0 ELSE @ - 1,
              !.counter  = IF reload THEN t.modulo ELSE @,
              !.reloaded = again]
    BY <1>2, Zenon DEF Moved
  <2> HIDE DEF reload
  <2>2. [t EXCEPT !.delay = IF @ = 0 THEN 0 ELSE @ - 1,
                       !.counter = IF reload THEN t.modulo ELSE @,
                       !.reloaded = \/ reload
                                    \/ @ /\ ~final,
                       !.divider = (@ + 1) % DividerSpan]
        = [t EXCEPT !.divider  = (@ + 1) % DividerSpan,
              !.delay    = IF @ = 0 THEN 0 ELSE @ - 1,
              !.counter  = IF reload THEN t.modulo ELSE @,
              !.reloaded = again]
    BY <1>1 DEF TimerRegisters, Hardware!Registers
  <2> QED BY <2>1, <2>2, Zenon
<1>4. ClockOnce(s, final) = [timer |-> counted, ticks |-> ticks, irq |-> irq]
  BY <1>3, Zenon DEF ClockOnce
<1> HIDE DEF again, reload, t
<1>5. /\ r \in TimerRegisters /\ r.divider = (t.divider + 1) % DividerSpan
      /\ r.control = t.control /\ r.double = t.double
  BY <1>1, <1>2, MovedType
<1> HIDE DEF r
<1>6. (edge <=> TimerEdge(t)) /\ (r.divider % ApuPeriod[r.double] = 0 <=> ApuEdge(t))
  BY <1>5 DEF TimerEdge, ApuEdge
<1>7. counted = Clocked(t)
  BY <1>2, <1>6, Zenon DEF Clocked, r, reload
<1>8. ticks = s.ticks + (IF ApuEdge(t) THEN 1 ELSE 0) /\ ticks \in Nat
  BY <1>1, <1>6
<1>9. Clocked(t) \in TimerRegisters
  BY <1>1, ClockedType
<1> HIDE DEF counted, ticks, irq
<1>10. /\ ClockOnce(s, final) \in TimerResults
       /\ ClockOnce(s, final).timer = counted /\ ClockOnce(s, final).ticks = ticks
       /\ ClockOnce(s, final).irq = irq
  BY <1>2, <1>4, <1>7, <1>8, <1>9 DEF TimerResults
<1> QED BY <1>7, <1>8, <1>10, Zenon DEF irq, t, reload

\* Whether the clock before reloaded TIMA makes no difference to the next.
Fresh(t) == [t EXCEPT !.reloaded = FALSE]

LEMMA FreshClock ==
    ASSUME NEW t \in TimerRegisters
    PROVE  /\ Fresh(t) \in TimerRegisters /\ ~Fresh(t).reloaded
           /\ Fresh(t).delay = t.delay /\ (ApuEdge(Fresh(t)) <=> ApuEdge(t))
           /\ Fresh(t).divider = t.divider /\ Fresh(t).double = t.double
           /\ Clocked(Fresh(t)) = Clocked(t)
<1>1. /\ Fresh(t) \in TimerRegisters /\ ~Fresh(t).reloaded /\ Fresh(t).delay = t.delay
      /\ Fresh(t).divider = t.divider /\ Fresh(t).double = t.double
      /\ Fresh(t).control = t.control /\ Fresh(t).modulo = t.modulo
      /\ Fresh(t).counter = t.counter
  BY DEF Fresh, TimerRegisters, Hardware!Registers
<1>2. (ApuEdge(Fresh(t)) <=> ApuEdge(t)) /\ (TimerEdge(Fresh(t)) <=> TimerEdge(t))
  BY <1>1 DEF ApuEdge, TimerEdge
<1>3. ASSUME NEW reload \in BOOLEAN PROVE Moved(Fresh(t), reload) = Moved(t, reload)
  BY DEF Moved, Fresh, TimerRegisters, Hardware!Registers
<1>4. Clocked(Fresh(t)) = Clocked(t)
  <2> DEFINE reload == t.delay = 1
  <2>1. reload \in BOOLEAN
    OBVIOUS
  <2>2. Moved(Fresh(t), reload) = Moved(t, reload)
    BY <1>3, <2>1
  <2> QED BY <1>1, <1>2, <2>2 DEF Clocked
<1> QED BY <1>1, <1>2, <1>4

-----------------------------------------------------------------------------
(* The skip.                                                               *)
LEMMA SuccMod ==
    ASSUME NEW a \in Nat, NEW n \in Nat \ {0}
    PROVE  ((a % n) + 1) % n = (a + 1) % n
<1>1. a % n \in 0 .. n - 1
  BY ModDef
<1>2. (a + 1) % n = IF (a % n) + 1 = n THEN 0 ELSE (a % n) + 1
  BY ModNext
<1> DEFINE b == a % n
<1>3. b \in Nat /\ b < n
  BY <1>1
<1> HIDE DEF b
<1>4. (b + 1) % n = IF (b % n) + 1 = n THEN 0 ELSE (b % n) + 1
  BY <1>3, ModNext
<1>5. b % n = b
  <2>1. b \in 0 .. n - 1 /\ n * 0 + b = b /\ 0 \in Nat
    BY <1>3
  <2>2. (n * 0 + b) % n = b
    BY <2>1, ModUnique
  <2> QED BY <2>1, <2>2
<1> QED BY <1>2, <1>4, <1>5 DEF b

LEMMA SkipFields ==
    ASSUME NEW t \in TimerRegisters, NEW i \in Nat, t.delay # 0 => i < t.delay
    PROVE  /\ Skip(t, i) \in TimerRegisters
           /\ Skip(t, i).divider = (t.divider + i) % DividerSpan
           /\ Skip(t, i).delay = (IF t.delay = 0 THEN 0 ELSE t.delay - i)
           /\ Skip(t, i).control = t.control /\ Skip(t, i).double = t.double
           /\ Skip(t, i).counter = t.counter /\ Skip(t, i).modulo = t.modulo
           /\ ~Skip(t, i).reloaded
<1> DEFINE d == (t.divider + i) % DividerSpan
           wait == IF t.delay = 0 THEN 0 ELSE t.delay - i
<1>1. d \in 0 .. DividerSpan - 1
  <2>1. t.divider + i \in Nat /\ DividerSpan \in Nat \ {0}
    BY RegisterFields, TimerSizes DEF Divider
  <2> QED BY <2>1, ModDef
<1>2. wait \in 0 .. ReloadDelay
  BY RegisterFields, TimerSizes
<1>3. Skip(t, i) = [t EXCEPT !.divider = d, !.delay = wait, !.reloaded = FALSE]
  BY DEF Skip
<1> HIDE DEF d, wait
<1>4. /\ Skip(t, i) \in TimerRegisters /\ Skip(t, i).divider = d
      /\ Skip(t, i).delay = wait /\ Skip(t, i).control = t.control
      /\ Skip(t, i).double = t.double /\ Skip(t, i).counter = t.counter
      /\ Skip(t, i).modulo = t.modulo /\ ~Skip(t, i).reloaded
  BY <1>1, <1>2, <1>3 DEF TimerRegisters, Hardware!Registers
<1> QED BY <1>4 DEF d, wait

LEMMA NoSkip ==
    ASSUME NEW t \in TimerRegisters
    PROVE  Skip(t, 0) = Fresh(t)
<1>1. (t.divider + 0) % DividerSpan = t.divider
  <2> DEFINE n == DividerSpan
  <2>1. n \in Nat \ {0} /\ t.divider \in 0 .. n - 1
    BY RegisterFields, TimerSizes DEF Divider
  <2>2. n * 0 + t.divider = t.divider + 0 /\ 0 \in Nat
    BY <2>1
  <2>3. (n * 0 + t.divider) % n = t.divider
    BY <2>1, <2>2, ModUnique
  <2> QED BY <2>2, <2>3
<1>2. (IF t.delay = 0 THEN 0 ELSE t.delay - 0) = t.delay
  BY RegisterFields, TimerSizes
<1> DEFINE d == (t.divider + 0) % DividerSpan
           wait == IF t.delay = 0 THEN 0 ELSE t.delay - 0
<1>3. Skip(t, 0) = [t EXCEPT !.divider = d, !.delay = wait, !.reloaded = FALSE]
  BY DEF Skip
<1>4. d = t.divider /\ wait = t.delay
  BY <1>1, <1>2
<1> HIDE DEF d, wait
<1> QED BY <1>3, <1>4 DEF Fresh, TimerRegisters, Hardware!Registers

\* No edge of the sequencer's bit in n clocks.
Silent(t, n) == n < Wraps(t.divider, ApuPeriod[t.double])

LEMMA NoApuEdge ==
    ASSUME NEW t \in TimerRegisters, NEW n \in Nat, Silent(t, n), NEW i \in Nat, i < n,
           NEW u \in TimerRegisters, u.double = t.double,
           u.divider = (t.divider + i) % DividerSpan
    PROVE  ~ApuEdge(u)
<1> DEFINE p == ApuPeriod[t.double]
           d == t.divider
<1>1. p \in Nat \ {0} /\ DividerSpan % p = 0 /\ d \in Divider /\ d \in Nat
      /\ DividerSpan \in Nat \ {0}
  BY RegisterFields, TimerSizes DEF Divider
<1>2. i + 1 < Wraps(d, p) /\ i + 1 \in Nat
  <2>1. n < Wraps(d, p)
    BY DEF Silent
  <2>2. Wraps(d, p) \in Int
    <3>1. d % p \in 0 .. p - 1
      BY <1>1, ModDef
    <3> HIDE DEF d, p
    <3> QED BY <1>1, <3>1 DEF Wraps
  <2> QED BY <2>1, <2>2
<1>3. (u.divider + 1) % DividerSpan = (d + (i + 1)) % DividerSpan
  <2>1. d + i \in Nat /\ d + (i + 1) = (d + i) + 1
    BY <1>1
  <2>2. (((d + i) % DividerSpan) + 1) % DividerSpan = ((d + i) + 1) % DividerSpan
    BY <1>1, <2>1, SuccMod
  <2> QED BY <2>1, <2>2
<1>4. ((d + (i + 1)) % DividerSpan) % p = (d % p) + (i + 1)
  BY <1>1, <1>2, FieldCounts
<1>5. d % p \in 0 .. p - 1
  BY <1>1, ModDef
<1>6. ((u.divider + 1) % DividerSpan) % p # 0
  <2> HIDE DEF d, p
  <2> QED BY <1>1, <1>3, <1>4, <1>5
<1> QED BY <1>6 DEF ApuEdge

LEMMA NoTimerEdge ==
    ASSUME NEW t \in TimerRegisters, NEW n \in Nat,
           t.control.enabled => n < Wraps(t.divider, Period[t.control.rate]),
           NEW i \in Nat, i < n,
           NEW u \in TimerRegisters, u.control = t.control,
           u.divider = (t.divider + i) % DividerSpan
    PROVE  ~TimerEdge(u)
<1> SUFFICES ASSUME t.control.enabled
             PROVE  ((u.divider + 1) % DividerSpan) % Period[t.control.rate] # 0
  BY DEF TimerEdge
<1> DEFINE p == Period[t.control.rate]
           d == t.divider
<1>1. p \in Nat \ {0} /\ DividerSpan % p = 0 /\ d \in Divider /\ d \in Nat
      /\ DividerSpan \in Nat \ {0}
  BY RegisterFields, TimerSizes DEF Divider
<1>2. i + 1 < Wraps(d, p) /\ i + 1 \in Nat
  <2>1. n < Wraps(d, p)
    OBVIOUS
  <2>2. Wraps(d, p) \in Int
    <3>1. d % p \in 0 .. p - 1
      BY <1>1, ModDef
    <3> HIDE DEF d, p
    <3> QED BY <1>1, <3>1 DEF Wraps
  <2> QED BY <2>1, <2>2
<1>3. (u.divider + 1) % DividerSpan = (d + (i + 1)) % DividerSpan
  <2>1. d + i \in Nat /\ d + (i + 1) = (d + i) + 1
    BY <1>1
  <2>2. (((d + i) % DividerSpan) + 1) % DividerSpan = ((d + i) + 1) % DividerSpan
    BY <1>1, <2>1, SuccMod
  <2> QED BY <2>1, <2>2
<1>4. ((d + (i + 1)) % DividerSpan) % p = (d % p) + (i + 1)
  BY <1>1, <1>2, FieldCounts
<1>5. d % p \in 0 .. p - 1
  BY <1>1, ModDef
<1>6. ((u.divider + 1) % DividerSpan) % p # 0
  <2> HIDE DEF d, p
  <2> QED BY <1>1, <1>3, <1>4, <1>5
<1> QED BY <1>6

LEMMA SameRegisters ==
    ASSUME NEW t \in TimerRegisters, NEW u \in TimerRegisters,
           t.divider = u.divider, t.counter = u.counter, t.modulo = u.modulo,
           t.control = u.control, t.delay = u.delay, t.reloaded = u.reloaded,
           t.double = u.double
    PROVE  t = u
BY DEF TimerRegisters, Hardware!Registers

LEMMA SkipOne ==
    ASSUME NEW t \in TimerRegisters, NEW n \in Nat, Untouched(t, n),
           NEW i \in Nat, i < n
    PROVE  /\ Clocked(Skip(t, i)) = Skip(t, i + 1)
           /\ Skip(t, i).delay # 1 /\ ~ApuEdge(Skip(t, i))
<1> DEFINE u == Skip(t, i)
           w == Skip(t, i + 1)
           m == Moved(u, FALSE)
<1>1. /\ Silent(t, n)
      /\ t.control.enabled => n < Wraps(t.divider, Period[t.control.rate])
      /\ t.delay # 0 => n < t.delay
  BY DEF Untouched, Silent
<1>2. t.delay \in Nat /\ i + 1 \in Nat /\ (t.delay # 0 => i < t.delay /\ i + 1 < t.delay)
  BY <1>1, RegisterFields, TimerSizes
<1>3. /\ u \in TimerRegisters /\ u.divider = (t.divider + i) % DividerSpan
      /\ u.delay = (IF t.delay = 0 THEN 0 ELSE t.delay - i)
      /\ u.control = t.control /\ u.double = t.double
      /\ u.counter = t.counter /\ u.modulo = t.modulo /\ ~u.reloaded
  BY <1>2, SkipFields
<1>4. /\ w \in TimerRegisters /\ w.divider = (t.divider + (i + 1)) % DividerSpan
      /\ w.delay = (IF t.delay = 0 THEN 0 ELSE t.delay - (i + 1))
      /\ w.control = t.control /\ w.double = t.double
      /\ w.counter = t.counter /\ w.modulo = t.modulo /\ ~w.reloaded
  BY <1>2, SkipFields
<1> HIDE DEF u, w
<1>5. /\ m \in TimerRegisters /\ m.divider = (u.divider + 1) % DividerSpan
      /\ m.control = u.control /\ m.double = u.double
      /\ m.delay = (IF u.delay = 0 THEN 0 ELSE u.delay - 1)
      /\ m.counter = u.counter /\ m.modulo = u.modulo /\ m.reloaded = FALSE
  <2>1. /\ m \in TimerRegisters /\ m.divider = (u.divider + 1) % DividerSpan
        /\ m.control = u.control /\ m.double = u.double
        /\ m.delay = (IF u.delay = 0 THEN 0 ELSE u.delay - 1)
        /\ m.counter = u.counter /\ m.reloaded = FALSE
    <3> DEFINE no == FALSE
    <3>1. no \in BOOLEAN
      OBVIOUS
    <3> HIDE DEF no
    <3>2. /\ Moved(u, no) \in TimerRegisters
          /\ Moved(u, no).divider = (u.divider + 1) % DividerSpan
          /\ Moved(u, no).control = u.control /\ Moved(u, no).double = u.double
          /\ Moved(u, no).delay = (IF u.delay = 0 THEN 0 ELSE u.delay - 1)
          /\ Moved(u, no).counter = (IF no THEN u.modulo ELSE u.counter)
          /\ Moved(u, no).reloaded = no
      BY <1>3, <3>1, MovedType
    <3> QED BY <3>2 DEF no
  <2>2. m.modulo = u.modulo
    BY <1>3 DEF Moved, TimerRegisters, Hardware!Registers
  <2> QED BY <2>1, <2>2
<1> HIDE DEF m
<1>6. m.divider = w.divider
  <2>1. t.divider + i \in Nat /\ (t.divider + i) + 1 = t.divider + (i + 1)
        /\ DividerSpan \in Nat \ {0}
    BY RegisterFields, TimerSizes DEF Divider
  <2>2. (((t.divider + i) % DividerSpan) + 1) % DividerSpan
          = ((t.divider + i) + 1) % DividerSpan
    BY <2>1, SuccMod
  <2> QED BY <1>3, <1>4, <1>5, <2>1, <2>2
<1>7. m.delay = w.delay /\ u.delay # 1
  BY <1>2, <1>3, <1>4, <1>5
<1>8. w.reloaded = FALSE
  BY <1>4, RegisterFields
<1>9. m = w
  BY <1>3, <1>4, <1>5, <1>6, <1>7, <1>8, SameRegisters
<1>10. ~TimerEdge(u) /\ ~ApuEdge(u)
  BY <1>1, <1>3, NoTimerEdge, NoApuEdge
<1>11. Clocked(u) = m
  <2>1. (u.delay = 1) = FALSE
    BY <1>7
  <2> QED BY <1>10, <2>1, Zenon DEF Clocked, m
<1> QED BY <1>7, <1>9, <1>10, <1>11 DEF u, w

-----------------------------------------------------------------------------
(* The loops.                                                              *)
IsClocks(f, s, n) ==
    f = [i \in 0 .. n |-> IF i = 0 THEN s ELSE Hardware!Clock(f[i - 1])]

HardwareRun(f, s, n) ==
    /\ f[0] = s /\ \A i \in 0 .. n : f[i] \in TimerStates
    /\ \A i \in 1 .. n : f[i] = Hardware!Clock(f[i - 1])

LEMMA ClocksRun ==
    ASSUME NEW s \in TimerStates, NEW n \in Nat
    PROVE  \E f : HardwareRun(f, s, n) /\ Hardware!Clocks(s, n) = f[n]
<1> DEFINE States == TimerStates
           round == [i \in 1 .. n |-> [x \in States |-> Hardware!Clock(x)]]
           c == CHOOSE f : IsClocks(f, s, n)
<1>1. \E f : IsClocks(f, s, n)
  <2>1. \A x \in States : Hardware!Clock(x) \in States
    BY HardwareClock
  <2> HIDE DEF States
  <2>2. round \in [1 .. n -> [States -> States]]
    BY <2>1
  <2>3. s \in States
    BY DEF States
  <2>4. PICK f \in [0 .. n -> States] : Iterates(f, s, round, n)
    <3> HIDE DEF round
    <3> QED BY <2>2, <2>3, IterationExists
  <2>5. ASSUME NEW i \in 0 .. n
        PROVE  f[i] = IF i = 0 THEN s ELSE Hardware!Clock(f[i - 1])
    <3>1. CASE i = 0
      BY <2>4, <3>1 DEF Iterates
    <3>2. CASE i # 0
      <4>1. i \in 1 .. n /\ i - 1 \in 0 .. n /\ f[i - 1] \in States
        BY <2>4, <3>2
      <4>2. f[i] = round[i][f[i - 1]]
        BY <2>4, <4>1 DEF Iterates
      <4> QED BY <3>2, <4>1, <4>2
    <3> QED BY <3>1, <3>2
  <2>6. f = [i \in 0 .. n |-> IF i = 0 THEN s ELSE Hardware!Clock(f[i - 1])]
    BY <2>4, <2>5
  <2> QED BY <2>6 DEF IsClocks
<1>2. IsClocks(c, s, n)
  BY <1>1
<1>3. Hardware!Clocks(s, n) = c[n]
  BY DEF Hardware!Clocks, IsClocks
<1> HIDE DEF c
<1>4. ASSUME NEW i \in 0 .. n
      PROVE  c[i] = IF i = 0 THEN s ELSE Hardware!Clock(c[i - 1])
  BY <1>2 DEF IsClocks
<1>5. c[0] = s /\ \A i \in 1 .. n : c[i] = Hardware!Clock(c[i - 1])
  BY <1>4
<1>6. \A i \in 0 .. n : c[i] \in TimerStates
  <2>1. \A i \in 1 .. n : c[i - 1] \in TimerStates => c[i] \in TimerStates
    BY <1>5, HardwareClock
  <2>2. c[0] \in TimerStates
    BY <1>5
  <2> QED BY <2>1, <2>2, LoopKeeps
<1> QED BY <1>3, <1>5, <1>6 DEF HardwareRun

IsTicks(f, start, n, final) ==
    f = [i \in 0 .. n |-> IF i = 0 THEN start ELSE ClockOnce(f[i - 1], final)]

TimerRun(f, start, n, final) ==
    /\ f[0] = start /\ \A i \in 0 .. n : f[i] \in TimerResults
    /\ \A i \in 1 .. n : f[i] = ClockOnce(f[i - 1], final)

StartOf(t, ticks) == [timer |-> Fresh(t), ticks |-> ticks, irq |-> FALSE]

LEMMA StartType ==
    ASSUME NEW t \in TimerRegisters, NEW ticks \in Nat
    PROVE  /\ StartOf(t, ticks) \in TimerResults /\ StartOf(t, ticks).timer = Fresh(t)
           /\ StartOf(t, ticks).ticks = ticks /\ ~StartOf(t, ticks).irq
<1>1. Fresh(t) \in TimerRegisters
  BY FreshClock
<1> QED BY <1>1 DEF StartOf, TimerResults

LEMMA TicksRun ==
    ASSUME NEW t \in TimerRegisters, NEW ticks \in Nat, NEW n \in Nat,
           NEW final \in BOOLEAN, final, ~Untouched(t, n)
    PROVE  \E f : TimerRun(f, StartOf(t, ticks), n, final) /\ TickImpl(t, ticks, n, final) = f[n]
<1> DEFINE States == TimerResults
           start == StartOf(t, ticks)
           round == [i \in 1 .. n |-> [x \in States |-> ClockOnce(x, final)]]
           c == CHOOSE f : IsTicks(f, start, n, final)
<1>1. start \in States
  BY StartType
<1>2. \A x \in States : ClockOnce(x, final) \in States
  BY ImplClock
<1>3. TickImpl(t, ticks, n, final) = c[n]
  BY DEF TickImpl, IsTicks, StartOf, Fresh
<1> HIDE DEF States, start
<1>4. \E f : IsTicks(f, start, n, final)
  <2>1. round \in [1 .. n -> [States -> States]]
    BY <1>2
  <2>2. PICK f \in [0 .. n -> States] : Iterates(f, start, round, n)
    <3> HIDE DEF round
    <3> QED BY <1>1, <2>1, IterationExists
  <2>3. ASSUME NEW i \in 0 .. n
        PROVE  f[i] = IF i = 0 THEN start ELSE ClockOnce(f[i - 1], final)
    <3>1. CASE i = 0
      BY <2>2, <3>1 DEF Iterates
    <3>2. CASE i # 0
      <4>1. i \in 1 .. n /\ i - 1 \in 0 .. n /\ f[i - 1] \in States
        BY <2>2, <3>2
      <4>2. f[i] = round[i][f[i - 1]]
        BY <2>2, <4>1 DEF Iterates
      <4> QED BY <3>2, <4>1, <4>2
    <3> QED BY <3>1, <3>2
  <2>4. f = [i \in 0 .. n |-> IF i = 0 THEN start ELSE ClockOnce(f[i - 1], final)]
    BY <2>2, <2>3
  <2> QED BY <2>4 DEF IsTicks
<1>5. IsTicks(c, start, n, final)
  BY <1>4
<1> HIDE DEF c
<1>6. ASSUME NEW i \in 0 .. n
      PROVE  c[i] = IF i = 0 THEN start ELSE ClockOnce(c[i - 1], final)
  BY <1>5 DEF IsTicks
<1>7. c[0] = start /\ \A i \in 1 .. n : c[i] = ClockOnce(c[i - 1], final)
  <2> HIDE DEF round
  <2>1. c[0] = start
    <3>1. 0 \in 0 .. n /\ 0 = 0
      OBVIOUS
    <3> QED BY <1>6, <3>1, Zenon
  <2>2. ASSUME NEW i \in 1 .. n PROVE c[i] = ClockOnce(c[i - 1], final)
    <3>1. i \in 0 .. n /\ i # 0
      OBVIOUS
    <3> QED BY <1>6, <3>1, Zenon
  <2> QED BY <2>1, <2>2, Zenon
<1>8. \A i \in 0 .. n : c[i] \in States
  <2>1. \A i \in 1 .. n : c[i - 1] \in States => c[i] \in States
    BY <1>2, <1>7
  <2>2. c[0] \in States
    BY <1>1, <1>7
  <2> QED BY <2>1, <2>2, LoopKeeps
<1>9. TimerRun(c, start, n, final)
  BY <1>7, <1>8 DEF TimerRun, States
<1> QED BY <1>3, <1>9 DEF start

\* A batch of clocks in which no edge of the sequencer's bit falls.
LEMMA BatchMaps ==
    ASSUME NEW s \in TimerStates, NEW n \in Nat \ {0}, Silent(s.timer, n),
           NEW final \in BOOLEAN, final
    PROVE  /\ TickImpl(s.timer, 0, n, final).timer = Hardware!Clocks(s, n).timer
           /\ TickImpl(s.timer, 0, n, final).ticks = 0
           /\ Hardware!Clocks(s, n).requested <=>
                s.requested \/ TickImpl(s.timer, 0, n, final).irq
           /\ Hardware!Clocks(s, n).sequencer = s.sequencer
<1> DEFINE t == s.timer
<1>1. t \in TimerRegisters /\ s.requested \in BOOLEAN
  BY DEF TimerStates
<1>2. PICK h : HardwareRun(h, s, n) /\ Hardware!Clocks(s, n) = h[n]
  BY ClocksRun
<1>3. ASSUME NEW i \in 1 .. n
      PROVE  /\ i - 1 \in 0 .. n /\ i \in 0 .. n /\ h[i - 1] \in TimerStates
             /\ h[i - 1].timer \in TimerRegisters /\ h[i].timer \in TimerRegisters
             /\ h[i].timer = Clocked(h[i - 1].timer)
             /\ h[i].requested <=> h[i - 1].requested \/ h[i - 1].timer.delay = 1
             /\ h[i].sequencer = IF ApuEdge(h[i - 1].timer)
                                   THEN (h[i - 1].sequencer + 1) % Steps
                                   ELSE h[i - 1].sequencer
             /\ h[i].requested \in BOOLEAN /\ h[i - 1].requested \in BOOLEAN
  <2>1. i - 1 \in 0 .. n /\ i \in 0 .. n
    OBVIOUS
  <2>2. h[i - 1] \in TimerStates /\ h[i] \in TimerStates /\ h[i] = Hardware!Clock(h[i - 1])
    BY <1>2, <2>1 DEF HardwareRun
  <2>3. /\ h[i].timer = Clocked(h[i - 1].timer)
        /\ h[i].requested <=> h[i - 1].requested \/ h[i - 1].timer.delay = 1
        /\ h[i].sequencer = IF ApuEdge(h[i - 1].timer)
                                   THEN (h[i - 1].sequencer + 1) % Steps
                                   ELSE h[i - 1].sequencer
    BY <2>2, HardwareClock
  <2>4. /\ h[i - 1].timer \in TimerRegisters /\ h[i].timer \in TimerRegisters
        /\ h[i].requested \in BOOLEAN /\ h[i - 1].requested \in BOOLEAN
    BY <2>2 DEF TimerStates
  <2> QED BY <2>1, <2>2, <2>3, <2>4
<1>4. h[0] = s
  BY <1>2 DEF HardwareRun
<1>5. n \in 1 .. n
  OBVIOUS
<1>6. Silent(t, n)
  OBVIOUS
<1> HIDE DEF t
<1>7. CASE Untouched(t, n)
  <2> DEFINE S == {i \in 0 .. n : /\ Fresh(h[i].timer) = Skip(t, i)
                                  /\ (h[i].requested <=> s.requested)
                                  /\ h[i].sequencer = s.sequencer}
  <2>1. 0 \in S
    BY <1>1, <1>4, NoSkip DEF t
  <2>2. ASSUME NEW i \in 1 .. n, i - 1 \in S
        PROVE  i \in S /\ h[i].timer = Skip(t, i)
    <3>1. /\ Fresh(h[i - 1].timer) = Skip(t, i - 1)
          /\ (h[i - 1].requested <=> s.requested)
          /\ h[i - 1].sequencer = s.sequencer
      BY <2>2
    <3>2. i - 1 \in Nat /\ i - 1 < n /\ (i - 1) + 1 = i
      OBVIOUS
    <3> HIDE DEF S
    <3>3. /\ Clocked(Skip(t, i - 1)) = Skip(t, i)
          /\ Skip(t, i - 1).delay # 1 /\ ~ApuEdge(Skip(t, i - 1))
      <4>1. /\ Clocked(Skip(t, i - 1)) = Skip(t, (i - 1) + 1)
            /\ Skip(t, i - 1).delay # 1 /\ ~ApuEdge(Skip(t, i - 1))
        BY <1>1, <1>7, <3>2, SkipOne
      <4> QED BY <3>2, <4>1
    <3>4. /\ Clocked(h[i - 1].timer) = Skip(t, i)
          /\ h[i - 1].timer.delay # 1 /\ ~ApuEdge(h[i - 1].timer)
      <4>1. /\ Clocked(Fresh(h[i - 1].timer)) = Clocked(h[i - 1].timer)
            /\ Fresh(h[i - 1].timer).delay = h[i - 1].timer.delay
            /\ ApuEdge(Fresh(h[i - 1].timer)) <=> ApuEdge(h[i - 1].timer)
        BY <1>3, FreshClock
      <4> QED BY <3>1, <3>3, <4>1
    <3>5. h[i].timer = Skip(t, i) /\ (h[i].requested <=> s.requested)
          /\ h[i].sequencer = s.sequencer
      BY <1>3, <3>1, <3>4
    <3>6. Fresh(Skip(t, i)) = Skip(t, i)
      BY <1>1 DEF Fresh, Skip, TimerRegisters, Hardware!Registers
    <3> QED BY <1>3, <3>5, <3>6 DEF S
  <2> HIDE DEF S
  <2>3. \A i \in 0 .. n : i \in S
    BY <2>1, <2>2, InductionTo
  <2>4. n - 1 \in S /\ n \in S
    BY <2>3
  <2>5. h[n].timer = Skip(t, n) /\ (h[n].requested <=> s.requested)
        /\ h[n].sequencer = s.sequencer
    BY <1>5, <2>2, <2>4 DEF S
  <2>6. TickImpl(t, 0, n, final) = [timer |-> Skip(t, n), ticks |-> 0, irq |-> FALSE]
    BY <1>7 DEF TickImpl
  <2>7. /\ TickImpl(t, 0, n, final).timer = Skip(t, n) /\ TickImpl(t, 0, n, final).ticks = 0
        /\ ~TickImpl(t, 0, n, final).irq
    <3> DEFINE r == TickImpl(t, 0, n, final)
    <3> HIDE DEF r
    <3>1. r = [timer |-> Skip(t, n), ticks |-> 0, irq |-> FALSE]
      BY <2>6 DEF r
    <3>2. r.timer = Skip(t, n) /\ r.ticks = 0 /\ ~r.irq
      BY <3>1
    <3> QED BY <3>2 DEF r
  <2> DEFINE q == TickImpl(s.timer, 0, n, final)
             c == Hardware!Clocks(s, n)
  <2>8. q.timer = Skip(t, n) /\ q.ticks = 0 /\ ~q.irq
    BY <2>7, Zenon DEF t
  <2>9. c = h[n]
    BY <1>2, Zenon
  <2> HIDE DEF q, c
  <2>10. /\ q.timer = c.timer /\ q.ticks = 0 /\ c.sequencer = s.sequencer
         /\ c.requested <=> s.requested \/ q.irq
    BY <2>5, <2>8, <2>9, Zenon
  <2> QED BY <2>10, Zenon DEF q, c
<1>8. CASE ~Untouched(t, n)
  <2>1. PICK f : TimerRun(f, StartOf(t, 0), n, final) /\ TickImpl(t, 0, n, final) = f[n]
    <3>1. 0 \in Nat
      OBVIOUS
    <3> QED BY <1>1, <1>8, <3>1, TicksRun, ZenonT(30)
  <2> DEFINE S == {i \in 0 .. n : /\ Fresh(h[i].timer) = Fresh(f[i].timer)
                                  /\ f[i].ticks = 0
                                  /\ (h[i].requested <=> s.requested \/ f[i].irq)
                                  /\ h[i].sequencer = s.sequencer
                                  /\ h[i].timer.divider = (t.divider + i) % DividerSpan
                                  /\ h[i].timer.double = t.double}
  <2>2. 0 \in S
    <3>1. f[0] = StartOf(t, 0)
      BY <2>1 DEF TimerRun
    <3>2. /\ f[0].timer = Fresh(t) /\ f[0].ticks = 0 /\ ~f[0].irq
      BY <1>1, <3>1, StartType
    <3>3. Fresh(Fresh(t)) = Fresh(t)
      BY <1>1 DEF Fresh, TimerRegisters, Hardware!Registers
    <3>4. (t.divider + 0) % DividerSpan = t.divider
      <4>1. Skip(t, 0) = Fresh(t) /\ Skip(t, 0).divider = (t.divider + 0) % DividerSpan
            /\ Fresh(t).divider = t.divider
        <5>1. t.delay # 0 => 0 < t.delay
          BY <1>1, RegisterFields, TimerSizes
        <5> QED BY <1>1, <5>1, NoSkip, SkipFields, FreshClock
      <4> QED BY <4>1
    <3>5. h[0].timer = t /\ h[0].requested = s.requested /\ h[0].sequencer = s.sequencer
      BY <1>4 DEF t
    <3> QED BY <3>2, <3>3, <3>4, <3>5
  <2>3. ASSUME NEW i \in 1 .. n, i - 1 \in S
        PROVE  i \in S /\ h[i].timer = f[i].timer
    <3>1. /\ Fresh(h[i - 1].timer) = Fresh(f[i - 1].timer)
          /\ f[i - 1].ticks = 0
          /\ (h[i - 1].requested <=> s.requested \/ f[i - 1].irq)
          /\ h[i - 1].sequencer = s.sequencer
          /\ h[i - 1].timer.divider = (t.divider + (i - 1)) % DividerSpan
          /\ h[i - 1].timer.double = t.double
      BY <2>3
    <3> HIDE DEF S
    <3> DEFINE j == i - 1
    <3>2. j \in Nat /\ j < n /\ j + 1 = i
      OBVIOUS
    <3>a. /\ h[i].timer = Clocked(h[j].timer)
          /\ h[i].requested <=> h[j].requested \/ h[j].timer.delay = 1
          /\ h[i].sequencer = IF ApuEdge(h[j].timer)
                                THEN (h[j].sequencer + 1) % Steps ELSE h[j].sequencer
          /\ h[j].timer \in TimerRegisters /\ h[i].timer \in TimerRegisters
      BY <1>3
    <3>3. /\ f[j] \in TimerResults /\ f[j].timer \in TimerRegisters
          /\ f[i].timer = Clocked(f[j].timer)
          /\ f[i].irq <=> f[j].irq \/ f[j].timer.delay = 1
          /\ f[i].ticks = f[j].ticks + (IF ApuEdge(f[j].timer) THEN 1 ELSE 0)
      <4>1. f[j] \in TimerResults /\ f[i] = ClockOnce(f[j], final)
        BY <1>3, <2>1 DEF TimerRun
      <4>2. f[j].timer \in TimerRegisters
        BY <4>1 DEF TimerResults
      <4> DEFINE r == ClockOnce(f[j], final)
      <4> HIDE DEF j
      <4>3. /\ r.timer = Clocked(f[j].timer)
            /\ r.irq <=> f[j].irq \/ f[j].timer.delay = 1
            /\ r.ticks = f[j].ticks + (IF ApuEdge(f[j].timer) THEN 1 ELSE 0)
        BY <4>1, ImplClock, Zenon
      <4>4. f[i] = r
        BY <4>1, Zenon
      <4> HIDE DEF r
      <4> QED BY <4>1, <4>2, <4>3, <4>4
    <3>4. /\ Clocked(h[j].timer) = Clocked(f[j].timer)
          /\ h[j].timer.delay = f[j].timer.delay
          /\ ApuEdge(h[j].timer) <=> ApuEdge(f[j].timer)
      <4>1. /\ Clocked(Fresh(h[j].timer)) = Clocked(h[j].timer)
            /\ Fresh(h[j].timer).delay = h[j].timer.delay
            /\ ApuEdge(Fresh(h[j].timer)) <=> ApuEdge(h[j].timer)
        BY <1>3, FreshClock
      <4>2. /\ Clocked(Fresh(f[j].timer)) = Clocked(f[j].timer)
            /\ Fresh(f[j].timer).delay = f[j].timer.delay
            /\ ApuEdge(Fresh(f[j].timer)) <=> ApuEdge(f[j].timer)
        BY <3>3, FreshClock
      <4> QED BY <3>1, <4>1, <4>2
    <3>5. ~ApuEdge(h[j].timer)
      <4>1. h[j].timer \in TimerRegisters /\ n \in Nat
        BY <3>a
      <4>2. h[j].timer.double = t.double /\ h[j].timer.divider = (t.divider + j) % DividerSpan
        BY <3>1
      <4> HIDE DEF j
      <4> QED BY <1>1, <1>6, <3>2, <4>1, <4>2, NoApuEdge, ZenonT(30)
    <3>b. /\ f[j].ticks = 0 /\ h[j].sequencer = s.sequencer
          /\ (h[j].requested <=> s.requested \/ f[j].irq)
      BY <3>1
    <3>6. h[i].timer = f[i].timer /\ f[i].ticks = 0 /\ h[i].sequencer = s.sequencer
      <4> HIDE DEF j
      <4>1. f[i].ticks = 0
        BY <3>3, <3>4, <3>5, <3>b
      <4> QED BY <3>a, <3>3, <3>4, <3>5, <3>b, <4>1
    <3>7. h[i].requested <=> s.requested \/ f[i].irq
      <4> HIDE DEF j
      <4> QED BY <3>a, <3>3, <3>4, <3>b
    <3>8. h[i].timer.divider = (t.divider + i) % DividerSpan /\ h[i].timer.double = t.double
      <4>1. /\ h[i].timer.divider = (h[j].timer.divider + 1) % DividerSpan
            /\ h[i].timer.double = h[j].timer.double
        <5> HIDE DEF j
        <5> QED BY <3>a, ClockedType
      <4>2. t.divider + j \in Nat /\ (t.divider + j) + 1 = t.divider + i
            /\ DividerSpan \in Nat \ {0}
        BY <1>1, <3>2, RegisterFields, TimerSizes DEF Divider
      <4>3. (((t.divider + j) % DividerSpan) + 1) % DividerSpan
              = ((t.divider + j) + 1) % DividerSpan
        BY <4>2, SuccMod
      <4> QED BY <3>1, <4>1, <4>2, <4>3
    <3> QED BY <1>3, <3>6, <3>7, <3>8 DEF S
  <2> HIDE DEF S
  <2>4. \A i \in 0 .. n : i \in S
    BY <2>2, <2>3, InductionTo
  <2>5. n - 1 \in S /\ n \in S
    BY <2>4
  <2>6. /\ h[n].timer = f[n].timer /\ f[n].ticks = 0 /\ h[n].sequencer = s.sequencer
        /\ (h[n].requested <=> s.requested \/ f[n].irq)
    BY <1>5, <2>3, <2>5 DEF S
  <2> QED BY <1>2, <2>1, <2>6 DEF t
<1> QED BY <1>7, <1>8

\* One clock of the bus's own loop.
LEMMA OneMaps ==
    ASSUME NEW t \in TimerRegisters, NEW final \in BOOLEAN
    PROVE  /\ TickImpl(t, 0, 1, final).timer = Clocked(t)
           /\ TickImpl(t, 0, 1, final).irq <=> t.delay = 1
           /\ TickImpl(t, 0, 1, final).ticks = IF ApuEdge(t) THEN 1 ELSE 0
<1> DEFINE r == TickImpl(t, 0, 1, final)
<1>1. CASE Untouched(t, 1)
  <2>1. /\ Clocked(Skip(t, 0)) = Skip(t, 1)
        /\ Skip(t, 0).delay # 1 /\ ~ApuEdge(Skip(t, 0))
    <3>1. 0 \in Nat /\ 1 \in Nat /\ 0 < 1 /\ 0 + 1 = 1
      OBVIOUS
    <3>2. /\ Clocked(Skip(t, 0)) = Skip(t, 0 + 1)
          /\ Skip(t, 0).delay # 1 /\ ~ApuEdge(Skip(t, 0))
      BY <1>1, <3>1, SkipOne
    <3> QED BY <3>1, <3>2
  <2>2. Clocked(t) = Skip(t, 1) /\ t.delay # 1 /\ ~ApuEdge(t)
    BY <2>1, NoSkip, FreshClock
  <2>3. r = [timer |-> Skip(t, 1), ticks |-> 0, irq |-> FALSE]
    BY <1>1 DEF TickImpl
  <2> HIDE DEF r
  <2>4. r.timer = Skip(t, 1) /\ r.ticks = 0 /\ ~r.irq
    BY <2>3
  <2> QED BY <2>2, <2>4 DEF r
<1>2. CASE ~Untouched(t, 1)
  <2> DEFINE start == StartOf(t, 0)
             next == ClockOnce(start, final)
             c == CHOOSE f : IsTicks(f, start, 1, final)
             g == [i \in 0 .. 1 |-> IF i = 0 THEN start ELSE next]
  <2>1. r = c[1]
    BY <1>2 DEF TickImpl, IsTicks, StartOf, Fresh
  <2> HIDE DEF r
  <2>2. IsTicks(g, start, 1, final)
    <3> HIDE DEF start
    <3>1. ASSUME NEW i \in 0 .. 1
          PROVE  (IF i = 0 THEN start ELSE ClockOnce(g[i - 1], final))
                 = IF i = 0 THEN start ELSE next
      <4>1. CASE i = 0
        BY <4>1
      <4>2. CASE i # 0
        <5>1. g[i - 1] = start
          <6> HIDE DEF next
          <6>1. i - 1 \in 0 .. 1 /\ i - 1 = 0
            BY <4>2
          <6> QED BY <6>1
        <5> HIDE DEF g
        <5> QED BY <4>2, <5>1, Zenon
      <4> QED BY <4>1, <4>2
    <3> DEFINE other == [i \in 0 .. 1 |-> IF i = 0 THEN start
                                            ELSE ClockOnce(g[i - 1], final)]
    <3>2. g = other
      BY <3>1, Zenon
    <3> HIDE DEF g
    <3> QED BY <3>2, Zenon DEF IsTicks
  <2>3. IsTicks(c, start, 1, final)
    BY <2>2, Zenon
  <2> HIDE DEF c, g, start
  <2>4. ASSUME NEW i \in 0 .. 1
        PROVE  c[i] = IF i = 0 THEN start ELSE ClockOnce(c[i - 1], final)
    BY <2>3, Zenon DEF IsTicks
  <2>5. c[1] = next
    <3>1. 0 \in 0 .. 1 /\ 1 \in 0 .. 1 /\ 1 # 0 /\ 1 - 1 = 0
      OBVIOUS
    <3>2. c[0] = start
      BY <2>4, <3>1, Zenon
    <3>3. c[1] = ClockOnce(c[1 - 1], final)
      BY <2>4, <3>1, Zenon
    <3> QED BY <3>1, <3>2, <3>3, Zenon
  <2>6. 0 \in Nat
    OBVIOUS
  <2>7. /\ start \in TimerResults /\ start.timer = Fresh(t)
        /\ start.ticks = 0 /\ ~start.irq
    BY <2>6, StartType DEF start
  <2>8. ~start.timer.reloaded
    BY <2>7, FreshClock
  <2>9. /\ next.timer = Clocked(start.timer)
        /\ next.irq <=> start.irq \/ start.timer.delay = 1
        /\ next.ticks = start.ticks + (IF ApuEdge(start.timer) THEN 1 ELSE 0)
    BY <2>7, <2>8, ImplClock, Zenon
  <2> HIDE DEF next
  <2>10. /\ Clocked(Fresh(t)) = Clocked(t) /\ Fresh(t).delay = t.delay
         /\ ApuEdge(Fresh(t)) <=> ApuEdge(t)
    BY FreshClock
  <2>11. /\ r.timer = Clocked(t) /\ (r.irq <=> t.delay = 1)
         /\ r.ticks = IF ApuEdge(t) THEN 1 ELSE 0
    BY <2>1, <2>5, <2>7, <2>9, <2>10
  <2> QED BY <2>11 DEF r
<1> QED BY <1>1, <1>2

EachStep(x) ==
    LET r == TickImpl(x.timer, x.ticks, 1, FALSE)
    IN  [timer |-> r.timer, ticks |-> 0, irq |-> x.irq \/ r.irq,
         sequencer |-> (x.sequencer + r.ticks) % Steps]

Shown(x) ==
    [timer |-> x.timer, ticks |-> 0, irq |-> x.requested, sequencer |-> x.sequencer]

LEMMA EachStepMaps ==
    ASSUME NEW x \in TimerStates
    PROVE  EachStep(Shown(x)) = Shown(Hardware!Clock(x))
<1> DEFINE t == x.timer
           no == FALSE
           r == TickImpl(t, 0, 1, no)
           next == Hardware!Clock(x)
           irq == x.requested \/ r.irq
           step == (x.sequencer + r.ticks) % Steps
<1>1. t \in TimerRegisters /\ x.requested \in BOOLEAN /\ x.sequencer \in 0 .. Steps - 1
      /\ no \in BOOLEAN
  BY DEF TimerStates
<1>2. EachStep(Shown(x)) = [timer |-> r.timer, ticks |-> 0, irq |-> irq, sequencer |-> step]
  BY Zenon DEF EachStep, Shown
<1> HIDE DEF t, no
<1>3. /\ r.timer = Clocked(t) /\ (r.irq <=> t.delay = 1)
      /\ r.ticks = IF ApuEdge(t) THEN 1 ELSE 0
  BY <1>1, OneMaps
<1>4. /\ next \in TimerStates /\ next.timer = Clocked(t)
      /\ (next.requested <=> x.requested \/ t.delay = 1)
      /\ next.sequencer = IF ApuEdge(t) THEN (x.sequencer + 1) % Steps ELSE x.sequencer
  BY HardwareClock DEF t
<1> HIDE DEF r, next
<1>5. next.requested \in BOOLEAN
  BY <1>4 DEF TimerStates
<1>6. irq = next.requested
  BY <1>3, <1>4, <1>5
<1>7. step = next.sequencer
  <2>1. (x.sequencer + 0) % Steps = x.sequencer
    BY <1>1, NextStep
  <2> QED BY <1>3, <1>4, <2>1
<1> HIDE DEF irq, step
<1> QED BY <1>2, <1>3, <1>4, <1>6, <1>7 DEF Shown, next

IsEach(f, first, n) ==
    f = [i \in 0 .. n |-> IF i = 0 THEN first ELSE EachStep(f[i - 1])]

LEMMA EachMaps ==
    ASSUME NEW s \in TimerStates, NEW n \in Nat
    PROVE  (CHOOSE f : IsEach(f, Shown(s), n))[n] = Shown(Hardware!Clocks(s, n))
<1> DEFINE first == Shown(s)
           c == CHOOSE f : IsEach(f, first, n)
<1>1. PICK h : HardwareRun(h, s, n) /\ Hardware!Clocks(s, n) = h[n]
  BY ClocksRun
<1> DEFINE g == [i \in 0 .. n |-> Shown(h[i])]
<1>2. h[0] = s /\ \A i \in 1 .. n : EachStep(Shown(h[i - 1])) = Shown(h[i])
  <2>1. ASSUME NEW i \in 1 .. n PROVE EachStep(Shown(h[i - 1])) = Shown(h[i])
    <3>1. h[i - 1] \in TimerStates /\ h[i] = Hardware!Clock(h[i - 1])
      <4>1. i - 1 \in 0 .. n
        OBVIOUS
      <4> QED BY <1>1, <4>1 DEF HardwareRun
    <3> QED BY <3>1, EachStepMaps
  <2> QED BY <1>1, <2>1 DEF HardwareRun
<1>3. IsEach(g, first, n)
  <2>1. ASSUME NEW i \in 0 .. n
        PROVE  Shown(h[i]) = IF i = 0 THEN first ELSE EachStep(g[i - 1])
    <3>1. CASE i = 0
      BY <1>2, <3>1
    <3>2. CASE i # 0
      <4>1. i \in 1 .. n /\ i - 1 \in 0 .. n
        BY <3>2
      <4>2. g[i - 1] = Shown(h[i - 1])
        BY <4>1
      <4> HIDE DEF g
      <4> QED BY <1>2, <3>2, <4>1, <4>2
    <3> QED BY <3>1, <3>2
  <2> DEFINE other == [i \in 0 .. n |-> IF i = 0 THEN first ELSE EachStep(g[i - 1])]
  <2>2. g = other
    BY <2>1, Zenon
  <2> HIDE DEF g
  <2> QED BY <2>2, Zenon DEF IsEach
<1>4. IsEach(c, first, n)
  BY <1>3, Zenon
<1> HIDE DEF c, g
<1>5. ASSUME NEW i \in 0 .. n
      PROVE  c[i] = IF i = 0 THEN first ELSE EachStep(c[i - 1])
  BY <1>4, Zenon DEF IsEach
<1> DEFINE S == {i \in 0 .. n : c[i] = Shown(h[i])}
<1>6. 0 \in S
  <2>1. 0 \in 0 .. n /\ 0 = 0
    OBVIOUS
  <2>2. c[0] = first
    BY <1>5, <2>1, Zenon
  <2> QED BY <1>2, <2>1, <2>2
<1>7. ASSUME NEW i \in 1 .. n, i - 1 \in S PROVE i \in S
  <2>1. i \in 0 .. n /\ i # 0
    OBVIOUS
  <2>2. c[i] = EachStep(c[i - 1])
    BY <1>5, <2>1, Zenon
  <2>3. c[i - 1] = Shown(h[i - 1])
    BY <1>7
  <2>4. c[i] = Shown(h[i])
    BY <1>2, <2>2, <2>3, Zenon
  <2> QED BY <2>1, <2>4
<1> HIDE DEF S
<1>8. \A i \in 0 .. n : i \in S
  BY <1>6, <1>7, InductionTo
<1>9. n \in S
  BY <1>8
<1> QED BY <1>1, <1>9 DEF S, c

-----------------------------------------------------------------------------
(* The steps of the bus.                                                   *)
HardwareNow == [timer |-> timer, requested |-> requested, sequencer |-> sequencer]

LEMMA NowIsState ==
    ASSUME TimerTypeOK
    PROVE  /\ Hardware!State = HardwareNow /\ HardwareNow \in TimerStates
           /\ HardwareNow.timer = timer /\ HardwareNow.requested = requested
           /\ HardwareNow.sequencer = sequencer
BY DEF TimerTypeOK, Hardware!State, HardwareNow, TimerStates, TimerRegisters

LEMMA ClocksType ==
    ASSUME NEW s \in TimerStates, NEW n \in Nat
    PROVE  Hardware!Clocks(s, n) \in TimerStates
<1>1. PICK h : HardwareRun(h, s, n) /\ Hardware!Clocks(s, n) = h[n]
  BY ClocksRun
<1>2. n \in 0 .. n
  OBVIOUS
<1> QED BY <1>1, <1>2 DEF HardwareRun

LEMMA TickMaps ==
    ASSUME TimerTypeOK, NEW n \in Spans, Tick(n)
    PROVE  Hardware!Tick /\ TimerTypeOK'
<1> DEFINE s == HardwareNow
           r == Hardware!Clocks(s, n)
<1>1. /\ s \in TimerStates /\ s.timer = timer /\ s.requested = requested
      /\ s.sequencer = sequencer /\ Hardware!State = s
      /\ timer \in TimerRegisters /\ apu_ticks = 0 /\ requested \in BOOLEAN
  BY NowIsState DEF TimerTypeOK, TimerRegisters
<1>2. n \in Nat \ {0}
  BY TimerSizes
<1> HIDE DEF s
<1>3. r \in TimerStates
  BY <1>1, <1>2, ClocksType
<1>4. timer' = r.timer /\ requested' = r.requested /\ sequencer' = r.sequencer
      /\ apu_ticks' = 0
  <2>1. CASE Batched(n) /\ TickBatch(n)
    <3> DEFINE yes == TRUE
               q == TickImpl(timer, 0, n, yes)
    <3>1. yes \in BOOLEAN /\ yes
      OBVIOUS
    <3>2. /\ timer' = q.timer /\ apu_ticks' = q.ticks
          /\ requested' = (requested \/ q.irq) /\ sequencer' = sequencer
      BY <1>1, <2>1 DEF TickBatch
    <3>3. Silent(timer, n)
      BY <1>1, <2>1 DEF Batched, CyclesUntilApuTick, Silent
    <3> HIDE DEF yes, r
    <3>4. /\ q.timer = r.timer /\ q.ticks = 0
          /\ (r.requested <=> requested \/ q.irq) /\ r.sequencer = sequencer
      <4>1. /\ TickImpl(s.timer, 0, n, yes).timer = Hardware!Clocks(s, n).timer
            /\ TickImpl(s.timer, 0, n, yes).ticks = 0
            /\ Hardware!Clocks(s, n).requested <=>
                  s.requested \/ TickImpl(s.timer, 0, n, yes).irq
            /\ Hardware!Clocks(s, n).sequencer = s.sequencer
        BY <1>1, <1>2, <3>1, <3>3, BatchMaps
      <4> QED BY <1>1, <4>1, Zenon DEF r
    <3> HIDE DEF q
    <3>5. r.requested \in BOOLEAN
      BY <1>3 DEF TimerStates
    <3> QED BY <3>2, <3>4, <3>5
  <2>2. CASE TickEach(n)
    <3> DEFINE first == [timer |-> timer, ticks |-> apu_ticks, irq |-> requested,
                         sequencer |-> sequencer]
               c == CHOOSE f : IsEach(f, first, n)
    <3>1. /\ timer' = c[n].timer /\ apu_ticks' = c[n].ticks
          /\ requested' = c[n].irq /\ sequencer' = c[n].sequencer
      BY <2>2, Zenon DEF TickEach, IsEach, EachStep
    <3>2. c[n] = Shown(r)
      <4>1. Shown(s) = first
        BY <1>1 DEF Shown
      <4>2. (CHOOSE f : IsEach(f, Shown(s), n))[n] = Shown(r)
        BY <1>1, <1>2, EachMaps
      <4> QED BY <4>1, <4>2, Zenon
    <3> HIDE DEF c, r
    <3> QED BY <3>1, <3>2 DEF Shown
  <2> QED BY <2>1, <2>2 DEF Tick
<1>5. Hardware!Tick
  BY <1>1, <1>4, Zenon DEF Hardware!Tick, Hardware!Becomes
<1>6. clocked' = TRUE
  BY DEF Tick
<1> HIDE DEF r
<1>7. TimerTypeOK'
  BY <1>3, <1>4, <1>6 DEF TimerTypeOK, TimerStates, TimerRegisters
<1> QED BY <1>5, <1>7

LEMMA SignalsAgree ==
    ASSUME NEW t \in TimerRegisters
    PROVE  (InputSignal(t) <=> Hardware!Input(t)) /\ (ApuSignal(t) <=> Hardware!ApuInput(t))
<1>1. /\ t.divider \in Divider /\ t.control.rate \in Rates /\ t.double \in BOOLEAN
  BY RegisterFields
<1>2. BitSet(t.divider, Period[t.control.rate])
        <=> Hardware!BitOf(t.divider, Period[t.control.rate])
  BY <1>1, TimerSizes, BitFalls
<1>3. BitSet(t.divider, ApuPeriod[t.double]) <=> Hardware!BitOf(t.divider, ApuPeriod[t.double])
  BY <1>1, TimerSizes, BitFalls
<1> QED BY <1>2, <1>3 DEF InputSignal, ApuSignal, Hardware!Input, Hardware!ApuInput

\* What a register write leaves, from what it does to the three variables.
LEMMA BecomesIs ==
    ASSUME TimerTypeOK, NEW t \in TimerRegisters, NEW q \in BOOLEAN, NEW z \in 0 .. Steps - 1,
           timer' = t, requested' = q, sequencer' = z, apu_ticks' = 0, clocked' \in BOOLEAN
    PROVE  TimerTypeOK'
BY DEF TimerTypeOK, TimerRegisters

LEMMA DividerMaps ==
    ASSUME TimerTypeOK, WriteDivider
    PROVE  Hardware!WriteDivider /\ TimerTypeOK'
<1> DEFINE t == [timer EXCEPT !.divider = 0]
           u == IF InputSignal(timer) THEN IncrementCounter(t) ELSE t
           z == IF Hardware!ApuInput(timer) THEN (sequencer + 1) % Steps ELSE sequencer
<1>1. /\ timer \in TimerRegisters /\ apu_ticks = 0 /\ requested \in BOOLEAN
      /\ sequencer \in 0 .. Steps - 1
  BY DEF TimerTypeOK, TimerRegisters
<1>2. t \in TimerRegisters
  <2>1. 0 \in 0 .. DividerSpan - 1
    BY TimerSizes
  <2> QED BY <1>1, <2>1 DEF TimerRegisters, Hardware!Registers
<1>3. (InputSignal(timer) <=> Hardware!Input(timer))
      /\ (ApuSignal(timer) <=> Hardware!ApuInput(timer))
  BY <1>1, SignalsAgree
<1>4. timer' = u /\ apu_ticks' = 0 /\ requested' = requested /\ clocked' = FALSE
  BY DEF WriteDivider, Access
<1>5. sequencer' = z
  <2>1. sequencer' = (sequencer + (apu_ticks + IF ApuSignal(timer) THEN 1 ELSE 0)) % Steps
    BY DEF WriteDivider
  <2>2. (sequencer + 0) % Steps = sequencer
    BY <1>1, NextStep
  <2> QED BY <1>1, <1>3, <2>1, <2>2
<1> HIDE DEF t
<1>6. IncrementCounter(t) \in TimerRegisters /\ Hardware!Counted(t) = IncrementCounter(t)
  BY <1>2, CountedType
<1>7. u \in TimerRegisters /\ z \in 0 .. Steps - 1
  BY <1>1, <1>2, <1>6, NextStep
<1>8. u = IF Hardware!Input(timer) THEN Hardware!Counted(t) ELSE t
  BY <1>3, <1>6
<1> HIDE DEF u, z
<1>9. Hardware!WriteDivider
  <2> DEFINE now == HardwareNow
             next == [now EXCEPT !.timer = u, !.sequencer = z]
  <2>1. /\ Hardware!State = now /\ now \in TimerStates
    BY NowIsState
  <2>2. next = [Hardware!State EXCEPT
                  !.timer = IF Hardware!Input(timer) THEN Hardware!Counted(t) ELSE t,
                  !.sequencer = IF Hardware!ApuInput(timer) THEN (@ + 1) % Steps ELSE @]
    <3>1. now.sequencer = sequencer
      BY NowIsState
    <3> HIDE DEF now
    <3> QED BY <1>8, <2>1, <3>1 DEF z
  <2>3. next.timer = u /\ next.requested = requested /\ next.sequencer = z
    BY DEF HardwareNow
  <2> HIDE DEF next
  <2> QED BY <1>4, <1>5, <2>2, <2>3, Zenon DEF Hardware!WriteDivider, Hardware!Becomes, t
<1>10. TimerTypeOK'
  BY <1>1, <1>4, <1>5, <1>7, BecomesIs
<1> QED BY <1>9, <1>10

\* The writes that leave the sequencer alone.
LEMMA TimerBecomes ==
    ASSUME TimerTypeOK, NEW t \in TimerRegisters, timer' = t, requested' = requested,
           sequencer' = sequencer, apu_ticks' = apu_ticks, clocked' \in BOOLEAN
    PROVE  Hardware!Becomes([Hardware!State EXCEPT !.timer = t]) /\ TimerTypeOK'
<1> DEFINE next == [HardwareNow EXCEPT !.timer = t]
<1>1. next.timer = t /\ next.requested = requested /\ next.sequencer = sequencer
  BY DEF HardwareNow
<1>2. Hardware!State = HardwareNow
  BY NowIsState
<1> HIDE DEF next
<1>3. Hardware!Becomes(next)
  BY <1>1 DEF Hardware!Becomes
<1>4. TimerTypeOK'
  BY DEF TimerTypeOK, TimerRegisters
<1> QED BY <1>2, <1>3, <1>4 DEF next

LEMMA CounterMaps ==
    ASSUME TimerTypeOK, NEW v \in Counter, WriteCounter(v)
    PROVE  Hardware!WriteCounter(v) /\ TimerTypeOK'
<1> DEFINE t == IF timer.reloaded THEN [timer EXCEPT !.reloaded = FALSE]
                ELSE [timer EXCEPT !.counter = v, !.delay = 0]
<1>1. /\ timer' = t /\ requested' = requested /\ sequencer' = sequencer
      /\ apu_ticks' = apu_ticks /\ clocked' \in BOOLEAN
  BY DEF WriteCounter, Access
<1>2. t \in TimerRegisters
  <2>1. timer \in TimerRegisters /\ 0 \in 0 .. ReloadDelay
    BY TimerSizes DEF TimerTypeOK, TimerRegisters
  <2> QED BY <2>1 DEF TimerRegisters, Hardware!Registers, Counter
<1> HIDE DEF t
<1>3. Hardware!Becomes([Hardware!State EXCEPT !.timer = t]) /\ TimerTypeOK'
  BY <1>1, <1>2, TimerBecomes
<1>4. Hardware!WriteCounter(v)
  <2>1. Hardware!State.timer = timer
    BY NowIsState
  <2> QED BY <1>3, <2>1, Zenon DEF Hardware!WriteCounter, t
<1> QED BY <1>3, <1>4

LEMMA ModuloMaps ==
    ASSUME TimerTypeOK, NEW v \in Counter, WriteModulo(v)
    PROVE  Hardware!WriteModulo(v) /\ TimerTypeOK'
<1> DEFINE c == IF timer.reloaded THEN v ELSE timer.counter
           t == [timer EXCEPT !.modulo = v, !.reloaded = FALSE, !.counter = c]
<1>1. /\ timer' = t /\ requested' = requested /\ sequencer' = sequencer
      /\ apu_ticks' = apu_ticks /\ clocked' \in BOOLEAN
  BY DEF WriteModulo, Access
<1>2. timer \in TimerRegisters /\ c \in Counter
  BY RegisterFields DEF TimerTypeOK, TimerRegisters
<1>3. Hardware!State.timer = timer
  BY NowIsState
<1>4. Hardware!WriteModulo(v) <=> Hardware!Becomes([Hardware!State EXCEPT !.timer = t])
  BY <1>3, Zenon DEF Hardware!WriteModulo
<1> HIDE DEF c
<1>5. t \in TimerRegisters
  BY <1>2 DEF TimerRegisters, Hardware!Registers, Counter
<1> HIDE DEF t
<1> QED BY <1>1, <1>4, <1>5, TimerBecomes

LEMMA ControlMaps ==
    ASSUME TimerTypeOK, NEW v \in Control, NEW b \in BOOLEAN, WriteControl(v, b)
    PROVE  /\ \E a \in {0, Propagation} : Hardware!WriteControl(v, a)
           /\ TimerTypeOK'
<1> DEFINE a == IF b THEN Propagation ELSE 0
           d == (timer.divider + a) % DividerSpan
           sampled == [timer EXCEPT !.divider = d]
           t == [timer EXCEPT !.control = v]
           old == /\ timer.control.enabled
                  /\ BitSet(d, Period[timer.control.rate])
           u == IF old /\ ~InputSignal(t) THEN IncrementCounter(t) ELSE t
<1>1. timer \in TimerRegisters
  BY DEF TimerTypeOK, TimerRegisters
<1>2. d \in 0 .. DividerSpan - 1
  <2>1. a \in Nat
    BY TimerSizes
  <2>2. timer.divider + a \in Nat /\ DividerSpan \in Nat \ {0}
    <3> HIDE DEF a
    <3> QED BY <1>1, <2>1, RegisterFields, TimerSizes DEF Divider
  <2> QED BY <2>2, ModDef
<1>3. /\ timer' = u /\ requested' = requested /\ sequencer' = sequencer
      /\ apu_ticks' = apu_ticks /\ clocked' \in BOOLEAN
  BY DEF WriteControl, Access
<1>4. Hardware!WriteControl(v, a) <=>
        Hardware!Becomes([Hardware!State EXCEPT !.timer =
            IF Hardware!Input(sampled) /\ ~Hardware!Input(t) THEN Hardware!Counted(t)
            ELSE t])
  BY Zenon DEF Hardware!WriteControl
<1> HIDE DEF a, d
<1>5. /\ sampled \in TimerRegisters /\ sampled.divider = d
      /\ sampled.control = timer.control
  BY <1>1, <1>2 DEF TimerRegisters, Hardware!Registers
<1>6. t \in TimerRegisters
  BY <1>1 DEF TimerRegisters, Hardware!Registers, Control
<1> HIDE DEF sampled, t
<1>7. (InputSignal(sampled) <=> Hardware!Input(sampled))
      /\ (InputSignal(t) <=> Hardware!Input(t))
  BY <1>5, <1>6, SignalsAgree
<1>8. old <=> InputSignal(sampled)
  BY <1>5, Zenon DEF InputSignal
<1>9. IncrementCounter(t) \in TimerRegisters /\ Hardware!Counted(t) = IncrementCounter(t)
  BY <1>6, CountedType
<1>10. /\ u \in TimerRegisters
       /\ u = IF Hardware!Input(sampled) /\ ~Hardware!Input(t) THEN Hardware!Counted(t)
              ELSE t
  BY <1>6, <1>7, <1>8, <1>9, Zenon
<1> HIDE DEF u
<1>11. Hardware!Becomes([Hardware!State EXCEPT !.timer = u]) /\ TimerTypeOK'
  BY <1>3, <1>10, TimerBecomes
<1>12. Hardware!WriteControl(v, a)
  BY <1>4, <1>10, <1>11, Zenon
<1>13. a \in {0, Propagation}
  BY DEF a
<1> QED BY <1>11, <1>12, <1>13, Zenon

LEMMA SpeedMaps ==
    ASSUME TimerTypeOK, SwitchSpeed
    PROVE  Hardware!SwitchSpeed /\ TimerTypeOK'
<1> DEFINE fast == ~timer.double
           t == [timer EXCEPT !.double = fast]
<1>1. /\ timer' = t /\ requested' = requested /\ sequencer' = sequencer
      /\ apu_ticks' = apu_ticks /\ clocked' \in BOOLEAN
  BY DEF SwitchSpeed, TimerTypeOK
<1>2. timer \in TimerRegisters /\ fast \in BOOLEAN
  BY DEF TimerTypeOK, TimerRegisters
<1>3. Hardware!State.timer = timer
  BY NowIsState
<1>4. Hardware!SwitchSpeed <=> Hardware!Becomes([Hardware!State EXCEPT !.timer = t])
  BY <1>3, Zenon DEF Hardware!SwitchSpeed
<1> HIDE DEF fast
<1>5. t \in TimerRegisters
  BY <1>2 DEF TimerRegisters, Hardware!Registers
<1> HIDE DEF t
<1> QED BY <1>1, <1>4, <1>5, TimerBecomes

LEMMA AcknowledgeMaps ==
    ASSUME TimerTypeOK, Acknowledge
    PROVE  Hardware!Acknowledge /\ TimerTypeOK'
<1> DEFINE none == FALSE
           next == [HardwareNow EXCEPT !.requested = none]
<1>1. /\ requested /\ timer' = timer /\ requested' = none /\ sequencer' = sequencer
      /\ apu_ticks' = apu_ticks /\ clocked' = clocked
  BY DEF Acknowledge
<1>2. none \in BOOLEAN
  OBVIOUS
<1>3. next.timer = timer /\ next.requested = none /\ next.sequencer = sequencer
  <2> HIDE DEF none
  <2> QED BY DEF HardwareNow
<1>4. Hardware!State = HardwareNow
  BY NowIsState
<1>5. next = [Hardware!State EXCEPT !.requested = FALSE]
  BY <1>4, Zenon
<1> HIDE DEF next
<1>6. Hardware!Acknowledge
  BY <1>1, <1>3, <1>5, Zenon DEF Hardware!Acknowledge, Hardware!Becomes
<1> HIDE DEF none
<1>7. TimerTypeOK'
  BY <1>1, <1>2 DEF TimerTypeOK
<1> QED BY <1>6, <1>7

LEMMA PausedMaps ==
    ASSUME TimerTypeOK, TickPaused
    PROVE  UNCHANGED Hardware!vars /\ TimerTypeOK'
<1>1. sequencer \in 0 .. Steps - 1 /\ apu_ticks = 0
  BY DEF TimerTypeOK
<1>2. (sequencer + 0) % Steps = sequencer
  BY <1>1, NextStep
<1>3. /\ sequencer' = sequencer /\ apu_ticks' = 0 /\ timer' = timer
      /\ requested' = requested /\ clocked' = clocked
  BY <1>1, <1>2 DEF TickPaused
<1> QED BY <1>3 DEF Hardware!vars, TimerTypeOK

LEMMA TimerStarts == TimerInit => TimerTypeOK /\ Hardware!Init
<1> SUFFICES ASSUME TimerInit PROVE TimerTypeOK /\ Hardware!Init
  OBVIOUS
<1>1. \A d \in {e \in 0 .. (DividerSpan - 1) : e % ReloadDelay = 0} :
         d \in 0 .. (DividerSpan - 1)
  OBVIOUS
<1>2. Hardware!Init
  BY DEF TimerInit, Hardware!Init
<1>3. timer \in TimerRegisters
  <2>1. 0 \in Counter /\ 0 \in 0 .. ReloadDelay
    BY TimerSizes DEF Counter, Hardware!Counter
  <2>2. FALSE \in BOOLEAN
    OBVIOUS
  <2> QED BY <2>1 DEF TimerInit, TimerRegisters, Hardware!Registers, Counter, Hardware!Control
<1>4. 0 \in 0 .. Steps - 1
  BY TimerSizes
<1> QED BY <1>2, <1>3, <1>4 DEF TimerInit, TimerTypeOK, TimerRegisters

LEMMA TimerSteps ==
    TimerTypeOK /\ [TimerNext]_timerVars => [Hardware!Next]_(Hardware!vars) /\ TimerTypeOK'
<1> SUFFICES ASSUME TimerTypeOK, [TimerNext]_timerVars
             PROVE  (Hardware!Next \/ UNCHANGED Hardware!vars) /\ TimerTypeOK'
  OBVIOUS
<1>1. CASE UNCHANGED timerVars
  BY <1>1 DEF timerVars, Hardware!vars, TimerTypeOK
<1>2. ASSUME NEW n \in Spans, Tick(n)
      PROVE  Hardware!Next /\ TimerTypeOK'
  BY <1>2, TickMaps DEF Hardware!Next
<1>3. CASE TickPaused
  BY <1>3, PausedMaps
<1>4. CASE WriteDivider
  BY <1>4, DividerMaps DEF Hardware!Next
<1>5. CASE SwitchSpeed
  BY <1>5, SpeedMaps DEF Hardware!Next
<1>6. CASE Acknowledge
  BY <1>6, AcknowledgeMaps DEF Hardware!Next
<1>7. ASSUME NEW v \in Counter, WriteCounter(v) \/ WriteModulo(v)
      PROVE  Hardware!Next /\ TimerTypeOK'
  BY <1>7, CounterMaps, ModuloMaps DEF Hardware!Next, Counter
<1>8. ASSUME NEW c \in Control, NEW b \in BOOLEAN, WriteControl(c, b)
      PROVE  Hardware!Next /\ TimerTypeOK'
  <2>1. /\ \E a \in {0, Propagation} : Hardware!WriteControl(c, a)
        /\ TimerTypeOK'
    BY <1>8, ControlMaps
  <2> QED BY <2>1 DEF Hardware!Next, Control
<1> QED BY <1>1, <1>2, <1>3, <1>4, <1>5, <1>6, <1>7, <1>8 DEF TimerNext

(* Every reachable state of the timer is type correct, and the bus leaves  *)
(* no edge of the frame sequencer behind (memory_bus.cpp): its batch never *)
(* crosses one.                                                            *)
THEOREM TimerTypes == TimerSpec => []TimerTypeOK
<1> QED BY TimerStarts, TimerSteps, PTL DEF TimerSpec

(* Skipping and batching are invisible (timer.cpp, memory_bus.cpp): the    *)
(* timer the bus clocks is the hardware's, clock by clock, for every set   *)
(* of periods and every length of the spans.                               *)
THEOREM TimerImplementsCycles == TimerSpec => ImplementsCycles
<1> QED BY TimerTypes, TimerStarts, TimerSteps, PTL
        DEF TimerSpec, ImplementsCycles, Hardware!Spec


-----------------------------------------------------------------------------
(* The picture unit.                                                       *)
Requests == {"stat", "sample", "hblank", "vblank"}

Pictures ==
    [on : BOOLEAN, startup : BOOLEAN, dot : Nat, ly : Nat, mode : 0 .. 3, stat : 0 .. 3,
     equal : BOOLEAN, lyc : Comparands \union {0}, select : Selections \union {{}},
     line : BOOLEAN, scy : Nat, early : BOOLEAN, end : Ends, restart : BOOLEAN,
     asks : SUBSET Requests]

\* A line ends before its length is reached, only the first one after the
\* unit is switched on is a short one, and no line of VBlank is in mode 2.
Placed(p) ==
    /\ p.dot < LengthOf(p)
    /\ p.startup => p.ly = 0
    /\ p.stat = 2 => p.ly < VisibleLines

PicInv == colour \in BOOLEAN /\ pic \in Pictures /\ Placed(pic)

\* q is p but for what a dot decides.
SamePlace(q, p) ==
    /\ q \in Pictures /\ q.dot = p.dot /\ q.ly = p.ly /\ q.startup = p.startup
    /\ q.on = p.on /\ (q.stat = 2 => p.stat = 2)

LEMMA UpdatedStays ==
    ASSUME NEW p \in Pictures
    PROVE  SamePlace(Updated(p), p) /\ Updated(p).stat = p.stat
<1> DEFINE w == Condition(p)
           a == IF w /\ ~p.line THEN p.asks \union {"stat"} ELSE p.asks
<1>1. w \in BOOLEAN
  BY DEF Condition
<1>2. Updated(p) = [p EXCEPT !.line = w, !.asks = a]
  BY DEF Updated
<1>3. a \in SUBSET Requests
  BY DEF Pictures, Requests
<1> HIDE DEF w, a
<1> QED BY <1>1, <1>2, <1>3 DEF Pictures, SamePlace

LEMMA SamePlaceChain ==
    ASSUME NEW p, NEW q, NEW r, SamePlace(q, p), SamePlace(r, q)
    PROVE  SamePlace(r, p)
BY DEF SamePlace

\* Nothing of what a dot assigns is part of the place.
LEMMA ChangesStay ==
    ASSUME NEW p \in Pictures, NEW s \in 0 .. 3, s = 2 => p.stat = 2, NEW m \in 0 .. 3,
           NEW e \in BOOLEAN, NEW w \in BOOLEAN, NEW a \in SUBSET Requests
    PROVE  /\ SamePlace(p, p)
           /\ SamePlace([p EXCEPT !.stat = s, !.mode = m], p)
           /\ SamePlace([p EXCEPT !.stat = s], p)
           /\ SamePlace([p EXCEPT !.mode = m], p)
           /\ SamePlace([p EXCEPT !.mode = m, !.equal = e], p)
           /\ SamePlace([p EXCEPT !.equal = e], p)
           /\ SamePlace([p EXCEPT !.line = w, !.asks = a], p)
           /\ SamePlace([p EXCEPT !.asks = a], p)
           /\ SamePlace([p EXCEPT !.stat = s, !.mode = m, !.asks = a], p)
           /\ SamePlace([p EXCEPT !.mode = m, !.asks = a], p)
<1>1. SamePlace(p, p)
  BY DEF Pictures, SamePlace
<1>2. SamePlace([p EXCEPT !.stat = s, !.mode = m], p)
  BY DEF Pictures, SamePlace
<1>3. SamePlace([p EXCEPT !.stat = s], p)
  BY DEF Pictures, SamePlace
<1>4. SamePlace([p EXCEPT !.mode = m], p)
  BY DEF Pictures, SamePlace
<1>5. SamePlace([p EXCEPT !.mode = m, !.equal = e], p)
  BY DEF Pictures, SamePlace
<1>6. SamePlace([p EXCEPT !.equal = e], p)
  BY DEF Pictures, SamePlace
<1>7. SamePlace([p EXCEPT !.line = w, !.asks = a], p)
  BY DEF Pictures, SamePlace
<1>8. SamePlace([p EXCEPT !.asks = a], p)
  BY DEF Pictures, SamePlace
<1>9. SamePlace([p EXCEPT !.stat = s, !.mode = m, !.asks = a], p)
  BY DEF Pictures, SamePlace
<1>10. SamePlace([p EXCEPT !.mode = m, !.asks = a], p)
  BY DEF Pictures, SamePlace
<1> QED BY <1>1, <1>2, <1>3, <1>4, <1>5, <1>6, <1>7, <1>8, <1>9, <1>10

LEMMA SmallNumbers ==
    /\ 0 \in 0 .. 3 /\ 1 \in 0 .. 3 /\ 2 \in 0 .. 3 /\ 3 \in 0 .. 3
    /\ (0 = 2) = FALSE /\ (1 = 2) = FALSE /\ (3 = 2) = FALSE
OBVIOUS

LEMMA PictureFields ==
    ASSUME NEW p \in Pictures
    PROVE  /\ p.mode \in 0 .. 3 /\ p.stat \in 0 .. 3 /\ p.equal \in BOOLEAN
           /\ p.line \in BOOLEAN /\ p.asks \in SUBSET Requests
           /\ \A r \in Requests : p.asks \union {r} \in SUBSET Requests
           /\ (p.ly = p.lyc) \in BOOLEAN /\ (p.lyc = 0) \in BOOLEAN
           /\ TRUE \in BOOLEAN /\ FALSE \in BOOLEAN
BY DEF Pictures

LEMMA LastLineStays == ASSUME NEW p \in Pictures PROVE SamePlace(LastLineDot(p), p)
<1> DEFINE w == CASE p.dot = Phase     -> p.lyc = LastLine
                  [] p.dot = 2 * Phase -> FALSE
                  [] OTHER             -> p.lyc = 0
           q == [p EXCEPT !.equal = w]
<1>1. w \in BOOLEAN
  OBVIOUS
<1> HIDE DEF w
<1>2. SamePlace(q, p) /\ SamePlace(p, p)
  BY <1>1, ChangesStay, PictureFields, ZenonT(30)
<1>3. SamePlace(Updated(q), p)
  <2> HIDE DEF q
  <2>1. q \in Pictures
    BY <1>2 DEF SamePlace
  <2> QED BY <1>2, <2>1, UpdatedStays, SamePlaceChain
<1> QED BY <1>2, <1>3, Zenon DEF LastLineDot, q, w

LEMMA ScanStays == ASSUME NEW p \in Pictures PROVE SamePlace(ScanDot(p), p)
<1> DEFINE e == p.ly = p.lyc
           a == [p EXCEPT !.stat = 3, !.mode = 3]
           b == [p EXCEPT !.mode = 2, !.equal = e]
           c == [p EXCEPT !.stat = 3]
           d == [p EXCEPT !.mode = 3]
<1>0. e \in BOOLEAN
  OBVIOUS
<1> HIDE DEF e
<1>1. SamePlace(a, p)
  BY SmallNumbers, PictureFields, ChangesStay, ZenonT(30)
<1>2. SamePlace(b, p)
  BY <1>0, SmallNumbers, PictureFields, ChangesStay, ZenonT(30)
<1>3. SamePlace(c, p)
  BY SmallNumbers, PictureFields, ChangesStay, ZenonT(30)
<1>4. SamePlace(d, p) /\ SamePlace(p, p)
  BY SmallNumbers, PictureFields, ChangesStay, ZenonT(30)
<1>5. ScanDot(p) = CASE p.startup /\ p.dot = ScanDots -> Updated(a)
                     [] ~p.startup /\ p.dot = 1 -> Updated(b)
                     [] ~p.startup /\ p.dot = ScanDots -> Updated(c)
                     [] ~p.startup /\ p.dot = ScanDots + 1 -> d
                     [] OTHER -> p
  BY Zenon DEF ScanDot, e
<1> HIDE DEF a, b, c, d
<1>6. SamePlace(Updated(a), p) /\ SamePlace(Updated(b), p) /\ SamePlace(Updated(c), p)
  <2>1. a \in Pictures /\ b \in Pictures /\ c \in Pictures
    BY <1>1, <1>2, <1>3 DEF SamePlace
  <2> QED BY <2>1, <1>1, <1>2, <1>3, UpdatedStays, SamePlaceChain
<1> QED BY <1>4, <1>5, <1>6

LEMMA EarlyStays == ASSUME NEW p \in Pictures PROVE SamePlace(EarlyDot(p), p)
<1> DEFINE a == [p EXCEPT !.line = TRUE, !.asks = p.asks \union {"stat"}]
           b == [p EXCEPT !.asks = p.asks \union {"sample"}]
<1>1. "stat" \in Requests /\ "sample" \in Requests
  BY DEF Requests
<1>2. p.asks \union {"stat"} \in SUBSET Requests /\ p.asks \union {"sample"} \in SUBSET Requests
  BY <1>1, PictureFields
<1>3. SamePlace(a, p)
  BY <1>2, PictureFields, ChangesStay, ZenonT(30)
<1>4. SamePlace(b, p)
  BY <1>2, PictureFields, ChangesStay, ZenonT(30)
<1>5. SamePlace(p, p)
  BY PictureFields, ChangesStay, ZenonT(30)
<1>6. EarlyDot(p) \in {a, b, p}
  BY DEF EarlyDot
<1> HIDE DEF a, b
<1> QED BY <1>3, <1>4, <1>5, <1>6

LEMMA TransferStays == ASSUME NEW p \in Pictures PROVE SamePlace(TransferEnd(p), p)
<1> DEFINE m == IF p.startup THEN 0 ELSE p.mode
           s == IF p.startup THEN p.asks \union {"hblank"} ELSE p.asks
           a == [p EXCEPT !.stat = 0, !.mode = m, !.asks = s]
           b == [p EXCEPT !.mode = 0, !.asks = p.asks \union {"hblank"}]
<1>1. p.asks \union {"hblank"} \in SUBSET Requests
  BY PictureFields DEF Requests
<1>2. m \in 0 .. 3 /\ s \in SUBSET Requests
  BY <1>1, PictureFields, SmallNumbers
<1>3. TransferEnd(p) = CASE p.dot = p.end -> Updated(a)
                         [] ~p.startup /\ p.dot = p.end + 1 -> b
                         [] OTHER -> p
  BY Zenon DEF TransferEnd
<1> HIDE DEF m, s
<1>4. SamePlace(a, p)
  BY <1>2, SmallNumbers, PictureFields, ChangesStay, ZenonT(30)
<1>5. SamePlace(b, p) /\ SamePlace(p, p)
  BY <1>1, SmallNumbers, PictureFields, ChangesStay, ZenonT(30)
<1> HIDE DEF a, b
<1>6. SamePlace(Updated(a), p)
  <2>1. a \in Pictures
    BY <1>4 DEF SamePlace
  <2> QED BY <2>1, <1>4, UpdatedStays, SamePlaceChain
<1> QED BY <1>3, <1>5, <1>6

LEMMA ColourStays == ASSUME NEW p \in Pictures PROVE SamePlace(ColourDot(p), p)
<1> DEFINE a == [p EXCEPT !.line = TRUE, !.asks = p.asks \union {"stat"}]
<1>1. p.asks \union {"stat"} \in SUBSET Requests
  BY PictureFields DEF Requests
<1>2. SamePlace(a, p) /\ SamePlace(p, p)
  BY <1>1, PictureFields, ChangesStay, ZenonT(30)
<1>3. ColourDot(p) \in {a, p}
  BY DEF ColourDot
<1> HIDE DEF a
<1> QED BY <1>2, <1>3

LEMMA VisibleStays == ASSUME NEW p \in Pictures PROVE SamePlace(VisibleDot(p), p)
<1>1. SamePlace(ScanDot(p), p)
  BY ScanStays
<1>2. SamePlace(EarlyDot(ScanDot(p)), p)
  BY <1>1, EarlyStays, SamePlaceChain DEF SamePlace
<1>3. SamePlace(TransferEnd(EarlyDot(ScanDot(p))), p)
  BY <1>2, TransferStays, SamePlaceChain DEF SamePlace
<1>4. SamePlace(ColourDot(TransferEnd(EarlyDot(ScanDot(p)))), p)
  BY <1>3, ColourStays, SamePlaceChain DEF SamePlace
<1>5. SamePlace(p, p)
  BY DEF SamePlace
<1> QED BY <1>4, <1>5, Zenon DEF VisibleDot

LEMMA LengthsArePositive ==
    /\ LineDots \in Nat /\ Notch \in Nat /\ LineDots - Notch > 0 /\ LineDots > 0
    /\ LineDots - Notch <= LineDots
<1>1. PICK e \in Ends : e \in Nat /\ ScanDots + 2 < e /\ e + 1 < LineDots - 2 * Notch
  BY PictureAssumption
<1> QED BY <1>1, PictureAssumption

StartsLine(q, p, d, l, b) ==
    /\ q \in Pictures /\ q.dot = d /\ q.ly = l /\ q.startup = b
    /\ q.stat = p.stat /\ q.on = p.on

Follows(q, p, l, s) ==
    /\ q \in Pictures /\ q.dot = p.dot /\ q.startup = p.startup /\ q.on = p.on
    /\ q.ly = l /\ q.stat = s

LEMMA NewLine ==
    ASSUME NEW p \in Pictures, NEW d \in Nat, NEW l \in Nat, NEW b \in BOOLEAN
    PROVE  StartsLine([p EXCEPT !.dot = d, !.ly = l, !.startup = b], p, d, l, b)
BY DEF Pictures, StartsLine

LEMMA NewMode ==
    ASSUME NEW p \in Pictures, NEW l \in Nat, NEW m \in 0 .. 3, NEW s \in 0 .. 3,
           NEW e \in BOOLEAN, NEW a \in SUBSET Requests
    PROVE  /\ Follows([p EXCEPT !.equal = e, !.mode = m, !.stat = s, !.asks = a], p, p.ly, s)
           /\ Follows([p EXCEPT !.ly = l, !.equal = e], p, l, p.stat)
           /\ Follows([p EXCEPT !.equal = e], p, p.ly, p.stat)
           /\ Follows([p EXCEPT !.mode = m, !.stat = s, !.early = e], p, p.ly, s)
<1>1. Follows([p EXCEPT !.equal = e, !.mode = m, !.stat = s, !.asks = a], p, p.ly, s)
  BY DEF Pictures, Follows
<1>2. Follows([p EXCEPT !.ly = l, !.equal = e], p, l, p.stat)
  BY DEF Pictures, Follows
<1>3. Follows([p EXCEPT !.equal = e], p, p.ly, p.stat)
  BY DEF Pictures, Follows
<1>4. Follows([p EXCEPT !.mode = m, !.stat = s, !.early = e], p, p.ly, s)
  BY DEF Pictures, Follows
<1> QED BY <1>1, <1>2, <1>3, <1>4

LEMMA NextLineKeeps ==
    ASSUME NEW p \in Pictures, p.stat = 2 => p.ly < VisibleLines
    PROVE  NextLine(p) \in Pictures /\ Placed(NextLine(p)) /\ NextLine(p).on = p.on
<1> DEFINE q == [p EXCEPT !.dot = 0, !.ly = p.ly + 1, !.startup = FALSE]
           e == q.ly = q.lyc
           z == q.lyc = 0
           s == q.asks \union {"vblank"}
           a == [q EXCEPT !.equal = e, !.mode = 1, !.stat = 1, !.asks = s]
           b == [q EXCEPT !.ly = 0, !.equal = z]
           c == [q EXCEPT !.equal = FALSE]
           d == [q EXCEPT !.equal = e]
           Begun(x) == x \in Pictures /\ x.dot = 0 /\ ~x.startup /\ x.on = p.on
           Right(x) == Begun(x) /\ (x.stat = 2 => x.ly < VisibleLines)
           r == CASE q.ly = VisibleLines -> a
                  [] q.ly > LastLine -> VisibleLine(b)
                  [] q.ly < VisibleLines -> VisibleLine(c)
                  [] ~colour /\ q.ly \in (VisibleLines + 1) .. (LastLine - 1) -> d
                  [] ~colour /\ q.ly = LastLine -> c
                  [] OTHER -> q
<1>1. VisibleLines \in Nat /\ LastLine \in Nat /\ VisibleLines < LastLine /\ 0 < VisibleLines
  BY PictureAssumption
<1>2. p.ly + 1 \in Nat /\ 0 \in Nat /\ FALSE \in BOOLEAN /\ p.stat \in 0 .. 3
  BY DEF Pictures
<1>3. Begun(q) /\ q.ly = p.ly + 1 /\ q.ly \in Nat /\ q.stat = p.stat
  <2>1. StartsLine(q, p, 0, p.ly + 1, FALSE)
    BY <1>2, NewLine, ZenonT(30)
  <2> HIDE DEF q
  <2> QED BY <1>2, <2>1 DEF StartsLine
<1>4. q.stat = 2 => q.ly <= VisibleLines
  <2>1. p.ly \in Nat
    BY DEF Pictures
  <2> HIDE DEF q
  <2> QED BY <1>1, <1>3, <2>1
<1>5. NextLine(p) = Updated(r)
  BY Zenon DEF NextLine
<1> HIDE DEF q
<1>6. e \in BOOLEAN /\ z \in BOOLEAN /\ s \in SUBSET Requests /\ q.stat \in 0 .. 3
      /\ q.mode \in 0 .. 3 /\ q.equal \in BOOLEAN /\ q.asks \in SUBSET Requests
  BY <1>3, PictureFields DEF Requests
<1> HIDE DEF e, z, s
<1>7. Begun(a) /\ a.stat = 1
  <2>1. 1 \in 0 .. 3
    OBVIOUS
  <2>2. q \in Pictures /\ q.ly \in Nat
    BY <1>3 DEF Begun
  <2>3. Follows(a, q, q.ly, 1)
    BY <2>1, <2>2, <1>6, NewMode, ZenonT(60)
  <2> HIDE DEF a
  <2> QED BY <1>3, <2>3 DEF Follows
<1>8. Begun(b) /\ b.ly = 0
  <2>1. Follows(b, q, 0, q.stat)
    BY <1>3, <1>2, <1>6, NewMode, ZenonT(60)
  <2> HIDE DEF b
  <2> QED BY <1>3, <2>1 DEF Follows
<1>9. Begun(c) /\ c.ly = q.ly /\ c.stat = q.stat
  <2>1. Follows(c, q, q.ly, q.stat)
    BY <1>3, <1>2, <1>6, NewMode, ZenonT(60)
  <2> HIDE DEF c
  <2> QED BY <1>3, <2>1 DEF Follows
<1>10. Begun(d) /\ d.ly = q.ly /\ d.stat = q.stat
  <2>1. Follows(d, q, q.ly, q.stat)
    BY <1>3, <1>2, <1>6, NewMode, ZenonT(60)
  <2> HIDE DEF d
  <2> QED BY <1>3, <2>1 DEF Follows
<1>11. ASSUME NEW x, Begun(x)
      PROVE  Begun(VisibleLine(x)) /\ VisibleLine(x).ly = x.ly
  <2>1. x.ly \in Nat /\ x.asks \in SUBSET Requests
    BY <1>11 DEF Pictures
  <2>2. Follows(VisibleLine(x), x, x.ly, 2)
    BY <1>11, <2>1, <1>2, SmallNumbers, NewMode, ZenonT(60) DEF VisibleLine
  <2> QED BY <1>11, <2>2 DEF Follows
<1> HIDE DEF a, b, c, d
<1>12. Right(r)
  <2>1. CASE q.ly = VisibleLines
    <3>1. r = a
      BY <2>1, <1>1, <1>3
    <3> QED BY <3>1, <1>7
  <2>2. CASE q.ly # VisibleLines /\ q.ly > LastLine
    <3>1. r = VisibleLine(b)
      BY <2>2, <1>1, <1>3
    <3> QED BY <3>1, <1>1, <1>8, <1>11
  <2>3. CASE q.ly < VisibleLines
    <3>1. r = VisibleLine(c)
      BY <2>3, <1>1, <1>3
    <3> QED BY <2>3, <3>1, <1>9, <1>11
  <2>4. CASE VisibleLines < q.ly /\ q.ly <= LastLine
    <3>1. r \in {d, c, q}
      BY <2>4, <1>1, <1>3
    <3>2. q.stat # 2
      BY <2>4, <1>1, <1>3, <1>4
    <3> QED BY <3>1, <3>2, <1>3, <1>9, <1>10
  <2> QED BY <2>1, <2>2, <2>3, <2>4, <1>1, <1>3
<1> HIDE DEF r
<1>13. SamePlace(Updated(r), r) /\ Updated(r).stat = r.stat
  BY <1>12, UpdatedStays
<1> QED BY <1>12, <1>5, <1>13, LengthsArePositive DEF SamePlace, Placed, LengthOf

Advanced(p) == [p EXCEPT !.scy = IF @ = 0 THEN 0 ELSE @ - 1, !.dot = @ + 1]

\* A dot leaves the picture unit in a state of its own.
LEMMA DotKeepsPlace ==
    ASSUME NEW p \in Pictures, Placed(p)
    PROVE  DotOf(p) \in Pictures /\ Placed(DotOf(p)) /\ DotOf(p).on = p.on
<1> DEFINE q == Advanced(p)
           r == VisibleDot(LastLineDot(q))
<1>1. q \in Pictures /\ q.dot = p.dot + 1 /\ q.ly = p.ly /\ q.startup = p.startup
      /\ q.stat = p.stat /\ q.on = p.on
  <2> DEFINE y == IF p.scy = 0 THEN 0 ELSE p.scy - 1
             d == p.dot + 1
  <2>1. y \in Nat /\ d \in Nat
    BY DEF Pictures
  <2>2. Advanced(p) = [p EXCEPT !.scy = y, !.dot = d]
    BY DEF Advanced
  <2> HIDE DEF y
  <2>3. d = p.dot + 1
    OBVIOUS
  <2> HIDE DEF d
  <2> QED BY <2>1, <2>2, <2>3 DEF Pictures
<1>2. DotOf(p) = LineEnd(r)
  BY Zenon DEF DotOf, Advanced
<1> HIDE DEF q
<1>3. SamePlace(LastLineDot(q), q)
  BY <1>1, LastLineStays
<1>4. SamePlace(r, q)
  BY <1>3, VisibleStays, SamePlaceChain DEF SamePlace
<1> HIDE DEF r
<1>5. r \in Pictures /\ r.dot = p.dot + 1 /\ r.ly = p.ly /\ r.startup = p.startup
      /\ r.on = p.on /\ (r.stat = 2 => r.ly < VisibleLines)
  BY <1>1, <1>4 DEF SamePlace, Placed
<1>6. CASE r.dot = LengthOf(r)
  <2>1. LineEnd(r) = NextLine(r)
    BY <1>6 DEF LineEnd
  <2> QED BY <2>1, <1>2, <1>5, NextLineKeeps
<1>7. CASE r.dot # LengthOf(r)
  <2>1. LineEnd(r) = r
    BY <1>7 DEF LineEnd
  <2>2. p.dot \in Nat /\ LengthOf(r) = LengthOf(p) /\ LengthOf(p) \in Nat
    BY <1>5, LengthsArePositive DEF LengthOf, Pictures
  <2>3. r.dot < LengthOf(r)
    BY <1>5, <1>7, <2>2 DEF Placed
  <2> QED BY <2>1, <2>3, <1>2, <1>5 DEF Placed
<1> QED BY <1>6, <1>7

-----------------------------------------------------------------------------
(* The dots at which nothing is due: while mode 2 scans, behind the last   *)
(* pixel of a line, and on the lines of VBlank.                            *)
Scanning(p, d) == ~p.early /\ p.stat = 2 /\ p.ly < VisibleLines /\ 1 < d /\ d < ScanDots

Behind(p, d) ==
    /\ p.ly < VisibleLines /\ p.end + 1 < d
    /\ ~(colour /\ p.ly = VisibleLines - 1 /\ d = LineDots - Notch)

Below(p, d) ==
    /\ p.ly >= VisibleLines
    /\ ~(p.ly = LastLine /\ ~colour /\ d \in {Phase, 2 * Phase, 3 * Phase})

NothingDue(p, d) == d < LengthOf(p) /\ (Scanning(p, d) \/ Behind(p, d) \/ Below(p, d))

MovedBy(p, k) == [p EXCEPT !.dot = p.dot + k]

LEMMA MovedFields ==
    ASSUME NEW p \in Pictures, NEW k \in Nat
    PROVE  /\ MovedBy(p, k) \in Pictures /\ MovedBy(p, k).dot = p.dot + k
           /\ MovedBy(p, k).ly = p.ly /\ MovedBy(p, k).startup = p.startup
           /\ MovedBy(p, k).end = p.end /\ MovedBy(p, k).stat = p.stat
           /\ MovedBy(p, k).early = p.early /\ MovedBy(p, k).scy = p.scy
           /\ MovedBy(p, k).on = p.on
<1> DEFINE d == p.dot + k
<1>1. d \in Nat
  BY DEF Pictures
<1>2. MovedBy(p, k) = [p EXCEPT !.dot = d]
  BY DEF MovedBy
<1> HIDE DEF d
<1>3. MovedBy(p, k) \in Pictures /\ MovedBy(p, k).dot = d /\ MovedBy(p, k).ly = p.ly
      /\ MovedBy(p, k).startup = p.startup /\ MovedBy(p, k).end = p.end
      /\ MovedBy(p, k).stat = p.stat /\ MovedBy(p, k).early = p.early
      /\ MovedBy(p, k).scy = p.scy /\ MovedBy(p, k).on = p.on
  BY <1>1, <1>2 DEF Pictures
<1> QED BY <1>3 DEF d

LEMMA MovedTwice ==
    ASSUME NEW p \in Pictures, NEW k \in Nat
    PROVE  MovedBy(p, 0) = p /\ MovedBy(MovedBy(p, k), 1) = MovedBy(p, k + 1)
<1>1. p.dot \in Nat /\ p.dot + 0 = p.dot /\ (p.dot + k) + 1 = p.dot + (k + 1)
  BY DEF Pictures
<1>2. MovedBy(p, 0) = p
  BY <1>1 DEF MovedBy, Pictures
<1>3. MovedBy(MovedBy(p, k), 1) = [p EXCEPT !.dot = (p.dot + k) + 1]
  BY <1>1 DEF MovedBy, Pictures
<1> QED BY <1>1, <1>2, <1>3 DEF MovedBy

LEMMA QuietKeeps ==
    ASSUME NEW p \in Pictures, NEW k \in Nat, NEW d \in Nat
    PROVE  NothingDue(MovedBy(p, k), d) <=> NothingDue(p, d)
<1> DEFINE q == MovedBy(p, k)
<1>1. /\ q.ly = p.ly /\ q.startup = p.startup /\ q.end = p.end /\ q.stat = p.stat
      /\ q.early = p.early
  BY MovedFields
<1> HIDE DEF q
<1>2. /\ LengthOf(q) = LengthOf(p) /\ (Scanning(q, d) <=> Scanning(p, d))
      /\ (Behind(q, d) <=> Behind(p, d)) /\ (Below(q, d) <=> Below(p, d))
  BY <1>1 DEF Scanning, Behind, Below, LengthOf
<1>3. NothingDue(q, d) <=> NothingDue(p, d)
  BY <1>2 DEF NothingDue
<1> QED BY <1>3 DEF q

\* Whatever could be due is not due at a quiet dot.
LEMMA QuietDot ==
    ASSUME NEW p \in Pictures, p.scy = 0, NothingDue(p, p.dot + 1)
    PROVE  DotOf(p) = MovedBy(p, 1)
<1> DEFINE q == MovedBy(p, 1)
           d == p.dot + 1
<1>1. DotOf(p) = LineEnd(VisibleDot(LastLineDot(q)))
  <2>1. Advanced(p) = q
    <3>1. Advanced(p) = [p EXCEPT !.scy = 0, !.dot = p.dot + 1]
      BY DEF Advanced
    <3>2. [p EXCEPT !.scy = 0] = p
      BY DEF Pictures
    <3>3. [p EXCEPT !.scy = 0, !.dot = p.dot + 1] = [[p EXCEPT !.scy = 0] EXCEPT !.dot = p.dot + 1]
      BY DEF Pictures
    <3> QED BY <3>1, <3>2, <3>3, Zenon DEF MovedBy
  <2> QED BY <2>1, Zenon DEF DotOf, Advanced
<1>2. q \in Pictures /\ q.dot = d /\ NothingDue(q, d) /\ d \in Nat /\ q.end \in Ends
      /\ q.ly \in Nat /\ q.startup \in BOOLEAN
  <2>1. d \in Nat
    BY DEF Pictures
  <2>2. q.dot = d
    BY MovedFields
  <2> HIDE DEF q
  <2>3. q \in Pictures /\ NothingDue(q, d)
    BY <2>1, MovedFields, QuietKeeps DEF q
  <2> QED BY <2>1, <2>2, <2>3 DEF Pictures
<1> HIDE DEF q, d
<1>3. /\ q.end \in Nat /\ ScanDots + 2 < q.end /\ q.end + 1 < LineDots - 2 * Notch
      /\ ScanDots \in Nat /\ Notch \in Nat /\ LineDots \in Nat /\ VisibleLines \in Nat
      /\ LastLine \in Nat /\ VisibleLines < LastLine /\ 1 < ScanDots
  BY <1>2, PictureAssumption
<1>6. \A x \in EarlyDots[q.end] : x \in Nat /\ ScanDots < x /\ x < q.end
  BY <1>2, PictureAssumption
<1>4. LastLineDot(q) = q
  <2>1. ~(q.ly = LastLine /\ ~colour /\ q.dot \in {Phase, 2 * Phase, 3 * Phase})
    BY <1>2, <1>3 DEF NothingDue, Scanning, Behind, Below
  <2> QED BY <2>1, Zenon DEF LastLineDot
<1>5. VisibleDot(q) = q
  <2>1. CASE q.ly >= VisibleLines
    <3>1. ~(q.ly < VisibleLines)
      BY <2>1, <1>2, <1>3
    <3> QED BY <3>1, Zenon DEF VisibleDot
  <2>2. CASE q.ly < VisibleLines
    <3>1. \/ ~q.early /\ 1 < q.dot /\ q.dot < ScanDots
          \/ /\ q.end + 1 < q.dot
             /\ ~(colour /\ q.ly = VisibleLines - 1 /\ q.dot = LineDots - Notch)
      BY <2>2, <1>2, <1>3 DEF NothingDue, Scanning, Behind, Below
    <3>2. q.dot # 1 /\ q.dot # ScanDots /\ q.dot # ScanDots + 1 /\ q.dot # SampleDot
      BY <3>1, <1>2, <1>3 DEF SampleDot
    <3>3. q.dot # q.end /\ q.dot # q.end + 1 /\ (q.early => q.dot \notin EarlyDots[q.end])
      BY <3>1, <1>2, <1>3, <1>6
    <3>4. ~(colour /\ q.ly = VisibleLines - 1 /\ q.dot = LineDots - Notch)
      BY <3>1, <1>2, <1>3
    <3>5. ScanDot(q) = q
      BY <3>2, Zenon DEF ScanDot
    <3>6. EarlyDot(q) = q
      BY <3>2, <3>3, Zenon DEF EarlyDot
    <3>7. TransferEnd(q) = q
      BY <3>3, Zenon DEF TransferEnd
    <3>8. ColourDot(q) = q
      BY <3>4, Zenon DEF ColourDot
    <3> QED BY <3>5, <3>6, <3>7, <3>8, Zenon DEF VisibleDot
  <2> QED BY <2>1, <2>2, <1>2, <1>3
<1>7. LineEnd(q) = q
  <2>1. q.dot # LengthOf(q)
    BY <1>2, <1>3 DEF NothingDue, LengthOf
  <2> QED BY <2>1, Zenon DEF LineEnd
<1> QED BY <1>1, <1>4, <1>5, <1>7, Zenon DEF q

\* Every dot that a shortcut leaves out is quiet.
LEMMA SkipsAreQuiet ==
    ASSUME NEW p \in Pictures, Placed(p), NEW n \in Nat, Skippable(p, n) # 0
    PROVE  /\ p.scy = 0 /\ Skippable(p, n) \in 1 .. n
           /\ \A k \in 1 .. Skippable(p, n) : NothingDue(p, p.dot + k)
<1>1. /\ p.end \in Nat /\ ScanDots + 2 < p.end /\ p.end + 1 < LineDots - 2 * Notch
      /\ ScanDots \in Nat /\ Notch \in Nat /\ LineDots \in Nat /\ VisibleLines \in Nat
      /\ LastLine \in Nat /\ VisibleLines < LastLine /\ 1 < ScanDots /\ 1 < VisibleLines
      /\ Phase \in Nat /\ 3 * Phase < LineDots
  BY PictureAssumption DEF Pictures
<1>2. p.dot \in Nat /\ p.ly \in Nat /\ p.startup \in BOOLEAN
  BY DEF Pictures
<1>3. CASE SkipScan(p, n) # 0
  <2>1. /\ p.scy = 0 /\ p.stat = 2 /\ ~p.early /\ p.dot >= 1 /\ p.dot < ScanDots - 1
        /\ SkipScan(p, n) = ScanDots - 1 - p.dot
    BY <1>3 DEF SkipScan
  <2>2. Skippable(p, n) \in 0 .. n /\ Skippable(p, n) <= ScanDots - 1 - p.dot
    BY <1>1, <1>2, <1>3, <2>1 DEF Skippable
  <2>3. ASSUME NEW k \in 1 .. Skippable(p, n) PROVE NothingDue(p, p.dot + k)
    BY <1>1, <1>2, <2>1, <2>2 DEF NothingDue, Scanning, LengthOf, Placed
  <2> QED BY <2>1, <2>2, <2>3
<1>4. CASE SkipScan(p, n) = 0
  <2> DEFINE end == CASE ~colour /\ p.ly = LastLine /\ p.dot < 3 * Phase ->
                            Phase * (p.dot \div Phase + 1) - 1
                      [] colour /\ p.ly = VisibleLines - 1 /\ p.dot < LineDots - Notch ->
                            LineDots - Notch - 1
                      [] OTHER -> LengthOf(p) - 1
  <2>1. /\ p.scy = 0 /\ p.dot < end /\ SkipBlank(p, n) = end - p.dot
        /\ p.ly >= VisibleLines \/ p.dot >= p.end + 1
    BY <1>4 DEF SkipBlank, Skippable
  <2>2. /\ end \in Int /\ end < LengthOf(p)
        /\ ~colour /\ p.ly = LastLine =>
             \A k \in Nat : p.dot < k /\ k <= end => k \notin {Phase, 2 * Phase, 3 * Phase}
        /\ colour /\ p.ly = VisibleLines - 1 =>
             \A k \in Nat : p.dot < k /\ k <= end => k # LineDots - Notch
    <3>1. CASE ~colour /\ p.ly = LastLine /\ p.dot < 3 * Phase
      <4> DEFINE g == p.dot \div Phase
      <4>1. g \in Nat /\ Phase * g <= p.dot /\ p.dot < Phase * g + Phase
        <5>1. Phase \in Nat \ {0}
          BY <1>1, <1>2, <3>1
        <5>2. p.dot = Phase * g + (p.dot % Phase) /\ g \in Nat /\ p.dot % Phase \in 0 .. (Phase - 1)
          BY <1>2, <5>1, ModDef
        <5>3. Phase * g \in Nat
          BY <5>1, <5>2, Z3
        <5> HIDE DEF g
        <5> QED BY <5>1, <5>2, <5>3
      <4>2. end = Phase * (g + 1) - 1
        BY <3>1
      <4> HIDE DEF g, end
      <4>3. g < 3
        <5>1. SUFFICES ASSUME g > 2 PROVE FALSE
          BY <4>1
        <5>2. Phase * g >= Phase * 2 + Phase
          BY <1>1, <4>1, <5>1, MoreTimes
        <5> QED BY <1>1, <1>2, <3>1, <4>1, <5>2
      <4>4. g \in {0, 1, 2}
        BY <4>1, <4>3
      <4>5. ~p.startup /\ LengthOf(p) = LineDots
        BY <1>1, <3>1 DEF Placed, LengthOf
      <4>6. CASE g = 0
        BY <1>1, <1>2, <3>1, <4>1, <4>2, <4>5, <4>6
      <4>7. CASE g = 1
        BY <1>1, <1>2, <3>1, <4>1, <4>2, <4>5, <4>7
      <4>8. CASE g = 2
        BY <1>1, <1>2, <3>1, <4>1, <4>2, <4>5, <4>8
      <4> QED BY <4>4, <4>6, <4>7, <4>8
    <3>2. CASE colour /\ p.ly = VisibleLines - 1 /\ p.dot < LineDots - Notch
      <4>1. end = LineDots - Notch - 1
        BY <3>2, <1>1
      <4> HIDE DEF end
      <4> QED BY <1>1, <1>2, <3>2, <4>1 DEF LengthOf
    <3>3. CASE /\ ~(~colour /\ p.ly = LastLine /\ p.dot < 3 * Phase)
               /\ ~(colour /\ p.ly = VisibleLines - 1 /\ p.dot < LineDots - Notch)
      <4>1. end = LengthOf(p) - 1
        BY <3>3, Zenon
      <4> HIDE DEF end
      <4> QED BY <1>1, <1>2, <3>3, <4>1 DEF LengthOf
    <3> HIDE DEF end
    <3> QED BY <3>1, <3>2, <3>3, Zenon
  <2> HIDE DEF end
  <2>3. Skippable(p, n) \in 0 .. n /\ Skippable(p, n) <= end - p.dot
    BY <1>2, <1>4, <2>1, <2>2 DEF Skippable
  <2>4. ASSUME NEW k \in 1 .. Skippable(p, n) PROVE NothingDue(p, p.dot + k)
    <3> DEFINE d == p.dot + k
    <3>1. d \in Nat /\ p.dot < d /\ d <= end
      BY <1>2, <2>2, <2>3
    <3> HIDE DEF d
    <3>2. d < LengthOf(p)
      BY <1>1, <2>2, <3>1 DEF LengthOf
    <3>3. ASSUME p.ly >= VisibleLines PROVE NothingDue(p, d)
      <4>1. ~(p.ly = LastLine /\ ~colour /\ d \in {Phase, 2 * Phase, 3 * Phase})
        BY <2>2, <3>1
      <4> QED BY <3>2, <3>3, <4>1, Zenon DEF NothingDue, Below
    <3>4. ASSUME p.ly < VisibleLines PROVE NothingDue(p, d)
      <4>1. p.end + 1 < d
        BY <1>1, <1>2, <2>1, <3>1, <3>4
      <4>2. ~(colour /\ p.ly = VisibleLines - 1 /\ d = LineDots - Notch)
        BY <2>2, <3>1
      <4> QED BY <3>2, <3>4, <4>1, <4>2, Zenon DEF NothingDue, Behind
    <3>5. p.ly >= VisibleLines \/ p.ly < VisibleLines
      BY <1>1, <1>2
    <3>6. NothingDue(p, d)
      BY <3>3, <3>4, <3>5, Zenon
    <3> QED BY <3>6 DEF d
  <2> QED BY <2>1, <2>3, <2>4
<1> QED BY <1>3, <1>4
-----------------------------------------------------------------------------
(* The two loops.                                                          *)
DotsRun(f, p, n) ==
    f[0] = p /\ \A i \in 1 .. n : f[i] = DotOf(f[i - 1])

Turn(t) ==
    LET span == Skippable(t.pic, t.left)
    IN  IF t.left = 0 THEN t
        ELSE IF span # 0
          THEN [pic |-> [t.pic EXCEPT !.dot = @ + span], left |-> t.left - span]
        ELSE [pic |-> DotOf(t.pic), left |-> t.left - 1]

TurnsRun(g, p, n) ==
    g[0] = [pic |-> p, left |-> n] /\ \A i \in 1 .. n : g[i] = Turn(g[i - 1])

PlacedPictures == {p \in Pictures : Placed(p)}

\* So many quiet dots come to as many dots more.
LEMMA QuietRun ==
    ASSUME NEW n \in Nat, NEW p \in Pictures, NEW f, DotsRun(f, p, n),
           NEW m \in 0 .. n, NEW q \in Pictures, f[m] = q, q.scy = 0,
           NEW s \in 0 .. (n - m), \A k \in 1 .. s : NothingDue(q, q.dot + k)
    PROVE  f[m + s] = MovedBy(q, s)
<1> DEFINE S == {k \in 0 .. s : f[m + k] = MovedBy(q, k)}
<1>1. 0 \in S
  <2>1. m + 0 = m
    OBVIOUS
  <2> QED BY <2>1, MovedTwice
<1>2. ASSUME NEW k \in 1 .. s, k - 1 \in S PROVE k \in S
  <2> DEFINE j == k - 1
             r == MovedBy(q, j)
  <2>1. j \in Nat /\ j + 1 = k /\ f[m + j] = r /\ m + k \in 1 .. n /\ (m + k) - 1 = m + j
    BY <1>2
  <2> HIDE DEF j
  <2>2. f[m + k] = DotOf(r)
    <3>1. f[m + k] = DotOf(f[(m + k) - 1])
      BY <2>1 DEF DotsRun
    <3> QED BY <2>1, <3>1
  <2>3. r \in Pictures /\ r.scy = 0 /\ r.dot = q.dot + j
    BY <2>1, MovedFields
  <2>4. NothingDue(r, r.dot + 1)
    <3>1. q.dot \in Nat /\ q.dot + k \in Nat /\ r.dot + 1 = q.dot + k
      <4>1. q.dot \in Nat
        BY DEF Pictures
      <4> HIDE DEF r
      <4> QED BY <2>1, <2>3, <4>1
    <3>2. NothingDue(q, q.dot + k)
      OBVIOUS
    <3> QED BY <2>1, <3>1, <3>2, QuietKeeps
  <2>5. DotOf(r) = MovedBy(r, 1)
    BY <2>3, <2>4, QuietDot
  <2>6. MovedBy(r, 1) = MovedBy(q, k)
    BY <2>1, MovedTwice
  <2> QED BY <2>2, <2>5, <2>6
<1> HIDE DEF S
<1>3. \A k \in 0 .. s : k \in S
  BY <1>1, <1>2, InductionTo
<1> QED BY <1>3 DEF S

\* After every turn the loop with shortcuts stands where the other one is.
LEMMA TurnsAreDots ==
    ASSUME NEW n \in Nat, NEW p \in PlacedPictures, NEW f, NEW g,
           DotsRun(f, p, n), TurnsRun(g, p, n)
    PROVE  g[n].pic = f[n]
<1> DEFINE S == {i \in 0 .. n : /\ g[i].left \in 0 .. (n - i)
                                /\ g[i].pic = f[n - g[i].left]}
<1>1. \A i \in 0 .. n : f[i] \in PlacedPictures
  <2>1. f[0] \in PlacedPictures
    BY DEF DotsRun
  <2>2. ASSUME NEW i \in 1 .. n, f[i - 1] \in PlacedPictures PROVE f[i] \in PlacedPictures
    <3>1. f[i] = DotOf(f[i - 1])
      BY DEF DotsRun
    <3> QED BY <2>2, <3>1, DotKeepsPlace DEF PlacedPictures
  <2> QED BY <2>1, <2>2, LoopKeeps
<1>2. 0 \in S
  <2>1. g[0].pic = p /\ g[0].left = n /\ n - n = 0 /\ f[0] = p
    BY DEF TurnsRun, DotsRun
  <2> QED BY <2>1
<1>3. ASSUME NEW i \in 1 .. n, i - 1 \in S PROVE i \in S
  <2> DEFINE t == g[i - 1]
             span == Skippable(t.pic, t.left)
             m == n - t.left
  <2>1. t.left \in 0 .. (n - (i - 1)) /\ t.pic = f[m]
    BY <1>3
  <2>2. g[i] = Turn(t)
    BY DEF TurnsRun
  <2>3. m \in 0 .. n /\ t.left \in Nat /\ n - m = t.left
    <3> HIDE DEF t
    <3> QED BY <2>1
  <2>4. t.pic \in Pictures /\ Placed(t.pic)
    BY <1>1, <2>1, <2>3 DEF PlacedPictures
  <2> HIDE DEF t
  <2>5. CASE t.left = 0
    <3>1. g[i] = t
      BY <2>2, <2>5, Zenon DEF Turn
    <3>2. g[i].left \in 0 .. (n - i)
      BY <2>5, <3>1
    <3> QED BY <2>1, <3>1, <3>2
  <2>6. CASE t.left # 0 /\ span # 0
    <3>1. g[i] = [pic |-> MovedBy(t.pic, span), left |-> t.left - span]
      BY <2>2, <2>6, Zenon DEF Turn, MovedBy
    <3>2. /\ t.pic.scy = 0 /\ span \in 1 .. t.left
          /\ \A k \in 1 .. span : NothingDue(t.pic, t.pic.dot + k)
      BY <2>3, <2>4, <2>6, SkipsAreQuiet
    <3> HIDE DEF span, m
    <3>3. f[m + span] = MovedBy(t.pic, span)
      <4>1. span \in 0 .. (n - m) /\ p \in Pictures
        BY <2>3, <3>2 DEF PlacedPictures
      <4> QED BY <2>1, <2>3, <2>4, <3>2, <4>1, QuietRun
    <3>4. g[i].left = t.left - span /\ g[i].pic = f[m + span]
      BY <3>1, <3>3
    <3>5. m + span = n - (t.left - span) /\ t.left - span \in 0 .. (n - i)
      BY <2>1, <2>3, <3>2
    <3> QED BY <3>4, <3>5
  <2>7. CASE t.left # 0 /\ span = 0
    <3>1. g[i] = [pic |-> DotOf(t.pic), left |-> t.left - 1]
      BY <2>2, <2>7, Zenon DEF Turn
    <3> HIDE DEF span
    <3>2. m + 1 \in 1 .. n /\ (m + 1) - 1 = m /\ m + 1 = n - (t.left - 1)
          /\ t.left - 1 \in 0 .. (n - i)
      BY <2>1, <2>3, <2>7
    <3> HIDE DEF m
    <3>3. f[m + 1] = DotOf(t.pic)
      <4>1. f[m + 1] = DotOf(f[(m + 1) - 1])
        BY <3>2 DEF DotsRun
      <4> QED BY <2>1, <3>2, <4>1
    <3>4. g[i].left = t.left - 1 /\ g[i].pic = f[m + 1]
      BY <3>1, <3>3
    <3> QED BY <3>2, <3>4
  <2> QED BY <2>5, <2>6, <2>7
<1> HIDE DEF S
<1>4. \A i \in 0 .. n : i \in S
  BY <1>2, <1>3, InductionTo
<1>5. n \in S
  BY <1>4
<1>6. g[n].left = 0 /\ n - 0 = n
  BY <1>5 DEF S
<1> QED BY <1>5, <1>6 DEF S
IsDots(f, p, n) == f = [i \in 0 .. n |-> IF i = 0 THEN p ELSE DotOf(f[i - 1])]

IsTurns(g, start, n) == g = [i \in 0 .. n |-> IF i = 0 THEN start ELSE Turn(g[i - 1])]

Answered(p) == [p EXCEPT !.asks = {}]

LEMMA DotsRunThere ==
    ASSUME NEW p, Answered(p) \in PlacedPictures, NEW n \in Nat
    PROVE  \E f : /\ DotsRun(f, Answered(p), n)
                  /\ EachDot(p, n) = IF p.on THEN f[n] ELSE Answered(p)
<1> DEFINE States == PlacedPictures
           start == Answered(p)
           round == [i \in 1 .. n |-> [x \in States |-> DotOf(x)]]
           c == CHOOSE f : IsDots(f, start, n)
<1>1. \A x \in States : DotOf(x) \in States
  BY DotKeepsPlace DEF PlacedPictures
<1>2. EachDot(p, n) = IF p.on THEN c[n] ELSE c[0]
  BY DEF EachDot, IsDots, Answered
<1> HIDE DEF States, start
<1>3. start \in States
  BY DEF start, States
<1>4. \E f : IsDots(f, start, n)
  <2>1. round \in [1 .. n -> [States -> States]]
    BY <1>1
  <2>2. PICK f \in [0 .. n -> States] : Iterates(f, start, round, n)
    <3> HIDE DEF round
    <3> QED BY <1>3, <2>1, IterationExists
  <2>3. ASSUME NEW i \in 0 .. n
        PROVE  f[i] = IF i = 0 THEN start ELSE DotOf(f[i - 1])
    <3>1. CASE i = 0
      BY <2>2, <3>1 DEF Iterates
    <3>2. CASE i # 0
      <4>1. i \in 1 .. n /\ i - 1 \in 0 .. n /\ f[i - 1] \in States
        BY <2>2, <3>2
      <4>2. f[i] = round[i][f[i - 1]]
        BY <2>2, <4>1 DEF Iterates
      <4> QED BY <3>2, <4>1, <4>2
    <3> QED BY <3>1, <3>2
  <2>4. f = [i \in 0 .. n |-> IF i = 0 THEN start ELSE DotOf(f[i - 1])]
    BY <2>2, <2>3
  <2> QED BY <2>4 DEF IsDots
<1>5. IsDots(c, start, n)
  BY <1>4
<1> HIDE DEF c, round
<1>6. ASSUME NEW i \in 0 .. n
      PROVE  c[i] = IF i = 0 THEN start ELSE DotOf(c[i - 1])
  BY <1>5 DEF IsDots
<1>7. c[0] = start
  <2>1. 0 \in 0 .. n /\ 0 = 0
    OBVIOUS
  <2> QED BY <1>6, <2>1, Zenon
<1>8. ASSUME NEW i \in 1 .. n PROVE c[i] = DotOf(c[i - 1])
  <2>1. i \in 0 .. n /\ i # 0
    OBVIOUS
  <2> QED BY <1>6, <2>1, Zenon
<1>9. DotsRun(c, start, n)
  BY <1>7, <1>8 DEF DotsRun
<1> QED BY <1>2, <1>7, <1>9, Zenon DEF start

Positions(n) == [pic : PlacedPictures, left : 0 .. n]

LEMMA TurnKeeps ==
    ASSUME NEW n \in Nat, NEW t \in Positions(n)
    PROVE  Turn(t) \in Positions(n)
<1> DEFINE span == Skippable(t.pic, t.left)
<1>1. t.pic \in Pictures /\ Placed(t.pic) /\ t.left \in 0 .. n /\ t.left \in Nat
  BY DEF Positions, PlacedPictures
<1>2. CASE t.left = 0
  BY <1>2, Zenon DEF Turn
<1>3. CASE t.left # 0 /\ span # 0
  <2>1. Turn(t) = [pic |-> MovedBy(t.pic, span), left |-> t.left - span]
    BY <1>3, Zenon DEF Turn, MovedBy
  <2>2. span \in 1 .. t.left /\ \A k \in 1 .. span : NothingDue(t.pic, t.pic.dot + k)
    BY <1>1, <1>3, SkipsAreQuiet
  <2> HIDE DEF span
  <2>3. NothingDue(t.pic, t.pic.dot + span) /\ span \in Nat /\ t.left - span \in 0 .. n
    BY <1>1, <2>2
  <2>4. MovedBy(t.pic, span) \in Pictures
    BY <1>1, <2>3, MovedFields
  <2>5. Placed(MovedBy(t.pic, span))
    <3> DEFINE q == MovedBy(t.pic, span)
    <3>1. q.dot = t.pic.dot + span /\ q.ly = t.pic.ly /\ q.startup = t.pic.startup
          /\ q.stat = t.pic.stat
      BY <1>1, <2>3, MovedFields
    <3> HIDE DEF q
    <3>2. LengthOf(q) = LengthOf(t.pic)
      BY <3>1 DEF LengthOf
    <3>3. t.pic.dot + span < LengthOf(t.pic)
      BY <2>3 DEF NothingDue
    <3>4. Placed(q)
      BY <1>1, <3>1, <3>2, <3>3 DEF Placed
    <3> QED BY <3>4 DEF q
  <2> QED BY <2>1, <2>3, <2>4, <2>5 DEF Positions, PlacedPictures
<1>4. CASE t.left # 0 /\ span = 0
  <2>1. Turn(t) = [pic |-> DotOf(t.pic), left |-> t.left - 1]
    BY <1>4, Zenon DEF Turn
  <2> HIDE DEF span
  <2>2. DotOf(t.pic) \in PlacedPictures /\ t.left - 1 \in 0 .. n
    BY <1>1, <1>4, DotKeepsPlace DEF PlacedPictures
  <2> QED BY <2>1, <2>2 DEF Positions
<1> QED BY <1>2, <1>3, <1>4

LEMMA TurnsRunThere ==
    ASSUME NEW p, Answered(p) \in PlacedPictures, NEW n \in Nat
    PROVE  \E g : /\ TurnsRun(g, Answered(p), n)
                  /\ Ticked(p, n) = IF p.on THEN g[n].pic ELSE Answered(p)
<1> DEFINE States == Positions(n)
           start == [pic |-> Answered(p), left |-> n]
           round == [i \in 1 .. n |-> [x \in States |-> Turn(x)]]
           c == CHOOSE g : IsTurns(g, start, n)
<1>1. \A x \in States : Turn(x) \in States
  BY TurnKeeps
<1>2. Ticked(p, n) = IF p.on THEN c[n].pic ELSE Answered(p)
  BY DEF Ticked, IsTurns, Turn, Answered
<1>3. start \in States
  BY DEF Positions
<1> HIDE DEF States, start
<1>4. \E g : IsTurns(g, start, n)
  <2>1. round \in [1 .. n -> [States -> States]]
    BY <1>1
  <2>2. PICK f \in [0 .. n -> States] : Iterates(f, start, round, n)
    <3> HIDE DEF round
    <3> QED BY <1>3, <2>1, IterationExists
  <2>3. ASSUME NEW i \in 0 .. n
        PROVE  f[i] = IF i = 0 THEN start ELSE Turn(f[i - 1])
    <3>1. CASE i = 0
      BY <2>2, <3>1 DEF Iterates
    <3>2. CASE i # 0
      <4>1. i \in 1 .. n /\ i - 1 \in 0 .. n /\ f[i - 1] \in States
        BY <2>2, <3>2
      <4>2. f[i] = round[i][f[i - 1]]
        BY <2>2, <4>1 DEF Iterates
      <4> QED BY <3>2, <4>1, <4>2
    <3> QED BY <3>1, <3>2
  <2>4. f = [i \in 0 .. n |-> IF i = 0 THEN start ELSE Turn(f[i - 1])]
    BY <2>2, <2>3
  <2> QED BY <2>4 DEF IsTurns
<1>5. IsTurns(c, start, n)
  BY <1>4
<1> HIDE DEF c, round
<1>6. ASSUME NEW i \in 0 .. n
      PROVE  c[i] = IF i = 0 THEN start ELSE Turn(c[i - 1])
  BY <1>5 DEF IsTurns
<1>7. c[0] = start
  <2>1. 0 \in 0 .. n /\ 0 = 0
    OBVIOUS
  <2> QED BY <1>6, <2>1, Zenon
<1>8. ASSUME NEW i \in 1 .. n PROVE c[i] = Turn(c[i - 1])
  <2>1. i \in 0 .. n /\ i # 0
    OBVIOUS
  <2> QED BY <1>6, <2>1, Zenon
<1>9. TurnsRun(c, Answered(p), n)
  BY <1>7, <1>8 DEF TurnsRun, start
<1> QED BY <1>2, <1>9, Zenon

LEMMA AnsweredKeeps ==
    ASSUME NEW p \in PlacedPictures
    PROVE  Answered(p) \in PlacedPictures /\ Answered(p).on = p.on
<1>1. SamePlace(Answered(p), p)
  <2>1. p \in Pictures /\ {} \in SUBSET Requests
    BY DEF PlacedPictures
  <2> QED BY <2>1, PictureFields, ChangesStay, ZenonT(30) DEF Answered
<1> QED BY <1>1 DEF SamePlace, PlacedPictures, Placed, LengthOf

\* A call of tick() does what as many literal dots do.
LEMMA TickedIsEachDot ==
    ASSUME NEW p \in PlacedPictures, NEW n \in Nat
    PROVE  Ticked(p, n) = EachDot(p, n) /\ Ticked(p, n) \in PlacedPictures
<1>1. Answered(p) \in PlacedPictures
  BY AnsweredKeeps
<1>2. PICK f : /\ DotsRun(f, Answered(p), n)
               /\ EachDot(p, n) = IF p.on THEN f[n] ELSE Answered(p)
  BY <1>1, DotsRunThere
<1>3. PICK g : /\ TurnsRun(g, Answered(p), n)
               /\ Ticked(p, n) = IF p.on THEN g[n].pic ELSE Answered(p)
  BY <1>1, TurnsRunThere
<1>4. g[n].pic = f[n]
  BY <1>1, <1>2, <1>3, TurnsAreDots
<1>5. f[n] \in PlacedPictures
  <2>1. f[0] \in PlacedPictures
    BY <1>1, <1>2 DEF DotsRun
  <2>2. ASSUME NEW i \in 1 .. n, f[i - 1] \in PlacedPictures PROVE f[i] \in PlacedPictures
    <3>1. f[i] = DotOf(f[i - 1])
      BY <1>2 DEF DotsRun
    <3> QED BY <2>2, <3>1, DotKeepsPlace DEF PlacedPictures
  <2>3. \A i \in 0 .. n : f[i] \in PlacedPictures
    BY <2>1, <2>2, LoopKeeps
  <2> QED BY <2>3
<1> QED BY <1>1, <1>2, <1>3, <1>4, <1>5, Zenon

-----------------------------------------------------------------------------
(* The invariant.                                                          *)
LEMMA PicInvInit == PicInit => PicInv
<1> SUFFICES ASSUME PicInit PROVE PicInv
  OBVIOUS
<1> DEFINE e == CHOOSE x \in Ends : TRUE
<1>1. e \in Ends
  BY PictureAssumption
<1>2. pic = [on |-> FALSE, startup |-> FALSE, dot |-> 0, ly |-> 0, mode |-> 0, stat |-> 0,
             equal |-> FALSE, lyc |-> 0, select |-> {}, line |-> FALSE, scy |-> 0,
             early |-> FALSE, end |-> e, restart |-> FALSE, asks |-> {}]
  BY DEF PicInit
<1> HIDE DEF e
<1>3. pic \in Pictures
  BY <1>1, <1>2, SmallNumbers DEF Pictures
<1>4. Placed(pic)
  BY <1>2, LengthsArePositive DEF Placed, LengthOf
<1> QED BY <1>3, <1>4 DEF PicInv, PicInit

LEMMA WrittenKeeps ==
    ASSUME NEW p \in Pictures, Placed(p)
    PROVE  Written([p EXCEPT !.asks = {}]) \in PlacedPictures
<1> DEFINE q == [p EXCEPT !.asks = {}]
<1>1. q \in PlacedPictures
  <2>1. p \in PlacedPictures
    BY DEF PlacedPictures
  <2> QED BY <2>1, AnsweredKeeps, Zenon DEF Answered
<1> HIDE DEF q
<1>2. SamePlace(Updated(q), q)
  BY <1>1, UpdatedStays DEF PlacedPictures
<1>3. Updated(q) \in PlacedPictures
  BY <1>1, <1>2 DEF SamePlace, PlacedPictures, Placed, LengthOf
<1>4. Written(q) \in PlacedPictures
  BY <1>1, <1>3, Zenon DEF Written
<1> QED BY <1>4 DEF q

LEMMA SwitchedOff ==
    ASSUME NEW p \in Pictures, NEW on \in BOOLEAN, NEW b \in BOOLEAN, NEW r \in BOOLEAN,
           NEW a \in SUBSET Requests, NEW z, z = 0
    PROVE  [p EXCEPT !.on = on, !.dot = z, !.ly = z, !.mode = z, !.stat = z,
                     !.startup = b, !.restart = r, !.asks = a] \in PlacedPictures
<1> DEFINE k == [p EXCEPT !.on = on, !.dot = z, !.ly = z]
           o == [k EXCEPT !.mode = z, !.stat = z]
           u == [o EXCEPT !.startup = b, !.restart = r]
           q == [u EXCEPT !.asks = a]
<1>1. q = [p EXCEPT !.on = on, !.dot = z, !.ly = z, !.mode = z, !.stat = z,
                    !.startup = b, !.restart = r, !.asks = a]
  OBVIOUS
<1>2. z \in Nat /\ z \in 0 .. 3
  OBVIOUS
<1>3. o \in Pictures /\ o.dot = z /\ o.ly = z /\ o.stat = z
  <2>1. k \in Pictures /\ k.dot = z /\ k.ly = z
    BY <1>2 DEF Pictures
  <2> HIDE DEF k
  <2> QED BY <1>2, <2>1 DEF Pictures
<1> HIDE DEF o
<1>4. u \in Pictures /\ u.dot = z /\ u.ly = z /\ u.stat = z
  BY <1>3 DEF Pictures
<1> HIDE DEF u
<1>5. q \in Pictures /\ q.dot = z /\ q.ly = z /\ q.stat = z
  BY <1>4 DEF Pictures
<1> HIDE DEF q
<1>6. q \in PlacedPictures
  BY <1>5, LengthsArePositive DEF PlacedPictures, Placed, LengthOf
<1> QED BY <1>1, <1>6

LEMMA SwitchedOn ==
    ASSUME NEW p \in Pictures, NEW on \in BOOLEAN, NEW b \in BOOLEAN, NEW r \in BOOLEAN,
           NEW a \in SUBSET Requests, NEW z, z = 0, NEW e \in BOOLEAN
    PROVE  [p EXCEPT !.on = on, !.dot = z, !.ly = z, !.mode = z, !.stat = z,
                     !.startup = b, !.restart = r, !.asks = a, !.equal = e] \in PlacedPictures
<1> DEFINE q == [p EXCEPT !.on = on, !.dot = z, !.ly = z, !.mode = z, !.stat = z,
                          !.startup = b, !.restart = r, !.asks = a]
           o == [q EXCEPT !.equal = e]
<1>1. o = [p EXCEPT !.on = on, !.dot = z, !.ly = z, !.mode = z, !.stat = z,
                    !.startup = b, !.restart = r, !.asks = a, !.equal = e]
  OBVIOUS
<1>2. q \in PlacedPictures
  BY SwitchedOff, ZenonT(30)
<1> HIDE DEF q
<1>3. o \in PlacedPictures
  BY <1>2 DEF PlacedPictures, Pictures, Placed, LengthOf
<1> QED BY <1>1, <1>3

LEMMA PicInvNext == PicInv /\ [PicNext]_picVars => PicInv'
<1> SUFFICES ASSUME PicInv, [PicNext]_picVars PROVE PicInv'
  OBVIOUS
<1>1. pic \in Pictures /\ Placed(pic) /\ pic \in PlacedPictures /\ colour \in BOOLEAN
  BY DEF PicInv, PlacedPictures
<1>2. SUFFICES pic' \in PlacedPictures /\ colour' = colour
  <2>1. pic' \in Pictures /\ Placed(pic') /\ colour' \in BOOLEAN
    BY <1>1, <1>2 DEF PlacedPictures
  <2> QED BY <2>1 DEF PicInv, Placed, LengthOf
<1>3. ASSUME NEW q \in PlacedPictures, Put(q) PROVE pic' \in PlacedPictures /\ colour' = colour
  BY <1>3, WrittenKeeps DEF Put, PlacedPictures
<1>4. ASSUME NEW n \in DotSpans, TickPicture(n) PROVE pic' \in PlacedPictures /\ colour' = colour
  <2>1. n \in Nat
    BY PictureAssumption
  <2> QED BY <1>1, <1>4, <2>1, TickedIsEachDot DEF TickPicture
<1>5. ASSUME NEW s \in Selections, SelectSources(s)
      PROVE  pic' \in PlacedPictures /\ colour' = colour
  <2> DEFINE q == [pic EXCEPT !.select = s]
  <2>1. q \in PlacedPictures
    BY <1>1 DEF PlacedPictures, Pictures, Placed, LengthOf
  <2>2. Put(q)
    BY <1>5 DEF SelectSources
  <2> HIDE DEF q
  <2> QED BY <1>3, <2>1, <2>2
<1>6. ASSUME NEW value \in Comparands, CompareWith(value)
      PROVE  pic' \in PlacedPictures /\ colour' = colour
  <2> DEFINE b == IF ~pic.on THEN pic.equal
                  ELSE IF ~colour /\ pic.ly = LastLine
                    THEN IF pic.dot >= 3 * Phase THEN value = 0
                         ELSE pic.dot \in Phase .. (2 * Phase - 1) /\ value = LastLine
                  ELSE pic.ly = value
             q == [pic EXCEPT !.lyc = value, !.equal = b]
  <2>1. Put(q)
    BY <1>6, Zenon DEF CompareWith
  <2>2. b \in BOOLEAN
    BY <1>1, PictureFields
  <2> HIDE DEF b
  <2>3. q \in PlacedPictures
    BY <1>1, <2>2 DEF PlacedPictures, Pictures, Placed, LengthOf
  <2> HIDE DEF q
  <2> QED BY <1>3, <2>1, <2>3
<1>7. ASSUME NEW end \in Ends, NEW fine \in BOOLEAN, ScrollAside(end, fine)
      PROVE  pic' \in PlacedPictures /\ colour' = colour
  <2> DEFINE early == /\ fine
                      /\ \/ ~pic.on
                         \/ ~colour /\ ~pic.startup /\ pic.stat = 2 /\ pic.dot < ScanDots
             b == pic.early \/ early
             q == [pic EXCEPT !.end = end, !.early = b]
  <2>1. Put(q)
    BY <1>7, Zenon DEF ScrollAside
  <2>2. b \in BOOLEAN
    BY DEF Pictures
  <2> HIDE DEF b
  <2>3. q \in PlacedPictures
    BY <1>1, <2>2 DEF PlacedPictures, Pictures, Placed, LengthOf
  <2> HIDE DEF q
  <2> QED BY <1>3, <2>1, <2>3
<1>8. ASSUME ScrollDown PROVE pic' \in PlacedPictures /\ colour' = colour
  <2> DEFINE l == 2
             q == [pic EXCEPT !.scy = l]
  <2>1. Put(q) /\ l \in Nat
    BY <1>8 DEF ScrollDown
  <2> HIDE DEF l
  <2>2. q \in PlacedPictures
    BY <1>1, <2>1 DEF PlacedPictures, Pictures, Placed, LengthOf
  <2> HIDE DEF q
  <2> QED BY <1>3, <2>1, <2>2
<1>9. ASSUME TurnOff PROVE pic' \in PlacedPictures /\ colour' = colour
  <2> DEFINE yes == TRUE
             no == FALSE
             none == {}
             zero == 0
  <2>1. pic' = [pic EXCEPT !.on = no, !.dot = zero, !.ly = zero, !.mode = zero, !.stat = zero,
                           !.startup = no, !.restart = yes, !.asks = none]
        /\ colour' = colour
    BY <1>9, Zenon DEF TurnOff
  <2>2. yes \in BOOLEAN /\ no \in BOOLEAN /\ none \in SUBSET Requests /\ zero = 0
    OBVIOUS
  <2> HIDE DEF yes, no, none, zero
  <2> QED BY <1>1, <2>1, <2>2, SwitchedOff, ZenonT(30)
<1>10. ASSUME TurnOn PROVE pic' \in PlacedPictures /\ colour' = colour
  <2> DEFINE yes == TRUE
             no == FALSE
             none == {}
             zero == 0
             b == pic.lyc = 0
             p == [pic EXCEPT !.on = yes, !.dot = zero, !.ly = zero, !.mode = zero,
                              !.stat = zero, !.startup = yes, !.restart = no, !.asks = none,
                              !.equal = b]
             q == [p EXCEPT !.line = no]
  <2>1. pic' \in {q, Updated(p)} /\ colour' = colour
    BY <1>10 DEF TurnOn
  <2>2. yes \in BOOLEAN /\ no \in BOOLEAN /\ none \in SUBSET Requests /\ zero = 0
        /\ b \in BOOLEAN
    OBVIOUS
  <2> HIDE DEF yes, no, none, zero, b
  <2>3. p \in PlacedPictures
    <3>1. pic \in Pictures
      BY <1>1
    <3> QED BY <2>2, <3>1, SwitchedOn, ZenonT(60)
  <2> HIDE DEF p
  <2>4. q \in PlacedPictures
    BY <2>2, <2>3 DEF PlacedPictures, Pictures, Placed, LengthOf
  <2>5. Updated(p) \in PlacedPictures
    <3>1. SamePlace(Updated(p), p)
      BY <2>3, UpdatedStays DEF PlacedPictures
    <3> QED BY <2>3, <3>1 DEF SamePlace, PlacedPictures, Placed, LengthOf
  <2> QED BY <2>1, <2>4, <2>5
<1>11. ASSUME UNCHANGED picVars PROVE pic' \in PlacedPictures /\ colour' = colour
  BY <1>1, <1>11 DEF picVars
<1> QED BY <1>4, <1>5, <1>6, <1>7, <1>8, <1>9, <1>10, <1>11 DEF PicNext

(* Switched on or off, whatever its registers are written to and however   *)
(* many dots a call of Ppu::tick asks for, the picture unit stands inside  *)
(* a line of the length it has, a shorter first line is line 0, and mode 2 *)
(* is a mode of visible lines.                                             *)
THEOREM PictureInvariant == PicSpec => []PicInv
BY PicInvInit, PicInvNext, PTL DEF PicSpec

(* The two shortcuts of Ppu::tick never show: from every reachable state a *)
(* call ends in the state, with the requests, that as many literal dots    *)
(* would have ended in and asked for.                                      *)
THEOREM PictureSkips == PicSpec => []SkippingIsInvisible
<1>1. PicInv => SkippingIsInvisible
  <2> SUFFICES ASSUME PicInv, NEW n \in DotSpans PROVE Ticked(pic, n) = EachDot(pic, n)
    BY DEF SkippingIsInvisible
  <2>1. n \in Nat /\ pic \in PlacedPictures
    BY PictureAssumption DEF PicInv, PlacedPictures
  <2> QED BY <2>1, TickedIsEachDot
<1> QED BY <1>1, PictureInvariant, PTL
=============================================================================
