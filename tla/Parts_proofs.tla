----------------------------- MODULE Parts_proofs -----------------------------
(***************************************************************************)
(* Proofs about two parts of the core, for every value of the constants:   *)
(* Apu::tick()'s shortcuts cannot be heard (SoundWaves), and the scheduler *)
(* of a local link keeps the consoles together (LinkScheduler).            *)
(***************************************************************************)
EXTENDS SoundWaves, LinkScheduler, Iteration, SequenceTheorems

-----------------------------------------------------------------------------
(* The sound unit. Its channels, in any of their states.                   *)
Pulses ==
    [on : BOOLEAN, dac : BOOLEAN, timer : Int, reloaded : BOOLEAN, step : Int, duty : Int,
     written : Int, due : BOOLEAN, volume : Int, initial : Int, period : Int]

Waves ==
    [on : BOOLEAN, dac : BOOLEAN, timer : Int, odd : BOOLEAN, open : BOOLEAN,
     position : Int, sample : Int, level : Int, period : Int]

Noises ==
    [on : BOOLEAN, dac : BOOLEAN, timer : Int, lfsr : Int \X Int, volume : Int,
     initial : Int, period : Int, stopped : BOOLEAN]

Voltages == [pulse : SUBSET Int, wave : SUBSET Int, noise : SUBSET Int, route : BOOLEAN]

Mixes == Voltages \union {{}}

Sounds ==
    [powered : BOOLEAN, phase : 0 .. 3, startup : BOOLEAN, audible : BOOLEAN, elapsed : Int,
     route : BOOLEAN, dirty : BOOLEAN, mix : Mixes,
     heard : Seq([mix : Mixes, sample : BOOLEAN]),
     pulse : Pulses, wave : Waves, noise : Noises]

\* The mix that is kept is that of the channels, unless it is marked, and no
\* square plays while the power is off.
Kept(s) == (~s.dirty => s.mix = Voltage(s)) /\ (s.pulse.on => s.powered)

SoundStates == {s \in Sounds : Kept(s)}

-----------------------------------------------------------------------------
(* One clock of each channel, and whether it marks the mix.                *)
PulseEnds(p) == p.on /\ p.timer <= 1

PulseClock(p, latched) ==
    LET ends == p.timer <= 1
        take == p.timer = 1 /\ p.due
    IN  IF ~p.on THEN p
        ELSE [p EXCEPT !.duty = IF take THEN p.written ELSE p.duty,
                       !.due = p.due /\ ~take,
                       !.timer = IF ends THEN p.period ELSE p.timer - 1,
                       !.step = IF ends THEN 1 - p.step ELSE p.step,
                       !.reloaded = ends \/ (p.reloaded /\ latched)]

WaveEnds(w) == w.on /\ w.odd /\ ~(w.timer > 0)

WaveClock(w) ==
    LET next == 1 - w.position
    IN  IF ~w.on THEN w
        ELSE IF ~w.odd THEN [w EXCEPT !.odd = TRUE]
        ELSE IF w.timer > 0
          THEN [w EXCEPT !.odd = FALSE, !.open = FALSE, !.timer = w.timer - 1]
        ELSE [w EXCEPT !.odd = FALSE, !.open = TRUE, !.timer = w.period,
                       !.position = next, !.sample = next]

NoiseEnds(v) == v.on /\ ~v.stopped /\ ~(v.timer > 1)

NoiseClock(v) ==
    IF ~v.on \/ v.stopped THEN v
    ELSE IF v.timer > 1 THEN [v EXCEPT !.timer = v.timer - 1]
    ELSE [v EXCEPT !.timer = v.period,
                   !.lfsr = <<v.lfsr[2], (v.lfsr[1] + v.lfsr[2]) % 2>>]

PhaseAfter(s, n) == IF s.powered /\ RevisionE THEN (s.phase + n) % 4 ELSE s.phase

LatchedAt(s, phase) == LatchesPhase /\ s.startup /\ phase # 0

AnyEnds(s) == PulseEnds(s.pulse) \/ WaveEnds(s.wave) \/ NoiseEnds(s.noise)

ChannelsClocked(s) ==
    [s EXCEPT !.phase = PhaseAfter(s, 1), !.dirty = s.dirty \/ AnyEnds(s),
              !.pulse = PulseClock(s.pulse, LatchedAt(s, PhaseAfter(s, 1))),
              !.wave = WaveClock(s.wave), !.noise = NoiseClock(s.noise)]

LEMMA PhaseType ==
    ASSUME NEW s \in Sounds, NEW n \in Nat
    PROVE  PhaseAfter(s, n) \in 0 .. 3 /\ Phased(s, n) = [s EXCEPT !.phase = PhaseAfter(s, n)]
<1>1. s.phase \in 0 .. 3
  BY DEF Sounds
<1>2. (s.phase + n) % 4 \in 0 .. 3
  BY <1>1
<1>3. PhaseAfter(s, n) \in 0 .. 3
  BY <1>1, <1>2, Zenon DEF PhaseAfter
<1>4. CASE s.powered /\ RevisionE
  BY <1>3, <1>4, Zenon DEF Phased, PhaseAfter
<1>5. CASE ~(s.powered /\ RevisionE)
  <2>1. Phased(s, n) = s /\ PhaseAfter(s, n) = s.phase
    BY <1>5, Zenon DEF Phased, PhaseAfter
  <2>2. s = [s EXCEPT !.phase = s.phase]
    BY DEF Sounds
  <2> QED BY <1>3, <2>1, <2>2, Zenon
<1> QED BY <1>3, <1>4, <1>5, Zenon

LEMMA PulseClockType ==
    ASSUME NEW p \in Pulses, NEW l \in BOOLEAN
    PROVE  /\ PulseClock(p, l) \in Pulses /\ PulseClock(p, l).on = p.on
<1> DEFINE ends == p.timer <= 1
           take == p.timer = 1 /\ p.due
           d == IF take THEN p.written ELSE p.duty
           u == p.due /\ ~take
           t == IF ends THEN p.period ELSE p.timer - 1
           st == IF ends THEN 1 - p.step ELSE p.step
           r == ends \/ (p.reloaded /\ l)
           q == [p EXCEPT !.duty = d, !.due = u, !.timer = t, !.step = st, !.reloaded = r]
<1>1. PulseClock(p, l) = IF ~p.on THEN p ELSE q
  BY Zenon DEF PulseClock
<1>2. d \in Int /\ u \in BOOLEAN /\ t \in Int /\ st \in Int /\ r \in BOOLEAN
  BY DEF Pulses
<1> HIDE DEF d, u, t, st, r
<1>3. q \in Pulses /\ q.on = p.on
  BY <1>2 DEF Pulses
<1> QED BY <1>1, <1>3

LEMMA WaveClockType == ASSUME NEW w \in Waves PROVE WaveClock(w) \in Waves
<1> DEFINE yes == TRUE
           no == FALSE
           next == 1 - w.position
           t == w.timer - 1
           a == [w EXCEPT !.odd = yes]
           b == [w EXCEPT !.odd = no, !.open = no, !.timer = t]
           c == [w EXCEPT !.odd = no, !.open = yes, !.timer = w.period,
                          !.position = next, !.sample = next]
<1>1. WaveClock(w) \in {w, a, b, c}
  BY DEF WaveClock
<1>2. yes \in BOOLEAN /\ no \in BOOLEAN /\ next \in Int /\ t \in Int /\ w.period \in Int
  BY DEF Waves
<1> HIDE DEF yes, no, next, t
<1>3. a \in Waves /\ b \in Waves /\ c \in Waves
  BY <1>2 DEF Waves
<1> QED BY <1>1, <1>3

LEMMA NoiseClockType == ASSUME NEW v \in Noises PROVE NoiseClock(v) \in Noises
<1> DEFINE t == v.timer - 1
           l == <<v.lfsr[2], (v.lfsr[1] + v.lfsr[2]) % 2>>
           a == [v EXCEPT !.timer = t]
           b == [v EXCEPT !.timer = v.period, !.lfsr = l]
<1>1. NoiseClock(v) \in {v, a, b}
  BY DEF NoiseClock
<1>2. t \in Int /\ l \in Int \X Int /\ v.period \in Int
  BY DEF Noises
<1> HIDE DEF t, l
<1>3. a \in Noises /\ b \in Noises
  BY <1>2 DEF Noises
<1> QED BY <1>1, <1>3

\* What a cycle assigns, whichever channel it is of.
Assigned(s, b, p, w, v) == [s EXCEPT !.dirty = b, !.pulse = p, !.wave = w, !.noise = v]

LEMMA AssignedType ==
    ASSUME NEW s \in Sounds, NEW b \in BOOLEAN, NEW p \in Pulses, NEW w \in Waves,
           NEW v \in Noises
    PROVE  /\ Assigned(s, b, p, w, v) \in Sounds
           /\ Assigned(s, b, p, w, v).dirty = b /\ Assigned(s, b, p, w, v).pulse = p
           /\ Assigned(s, b, p, w, v).wave = w /\ Assigned(s, b, p, w, v).noise = v
           /\ Assigned(s, b, p, w, v).phase = s.phase
           /\ Assigned(s, b, p, w, v).startup = s.startup
BY DEF Assigned, Sounds

LEMMA AssignedNothing ==
    ASSUME NEW s \in Sounds PROVE Assigned(s, s.dirty, s.pulse, s.wave, s.noise) = s
BY DEF Assigned, Sounds

LEMMA PulseTicks ==
    ASSUME NEW s \in Sounds
    PROVE  TickPulse(s) = Assigned(s, s.dirty \/ PulseEnds(s.pulse),
                                   PulseClock(s.pulse, LatchedAt(s, s.phase)), s.wave, s.noise)
<1> DEFINE p == s.pulse
           l == LatchedAt(s, s.phase)
           b == s.dirty \/ PulseEnds(p)
           q == PulseClock(p, l)
<1>1. p \in Pulses /\ s.wave \in Waves /\ s.noise \in Noises /\ s.dirty \in BOOLEAN
      /\ l \in BOOLEAN /\ b \in BOOLEAN
  BY DEF Sounds, LatchedAt
<1>2. q \in Pulses
  BY <1>1, PulseClockType
<1>3. Latched(s) = l
  BY DEF Latched, LatchedAt
<1>4. TickPulse(s) = Assigned(s, b, q, s.wave, s.noise)
  <2>1. CASE ~p.on
    <3>1. TickPulse(s) = s
      BY <2>1, Zenon DEF TickPulse
    <3>2. q = p /\ b = s.dirty
      BY <1>1, <2>1 DEF PulseClock, PulseEnds
    <3> HIDE DEF q, b
    <3> QED BY <1>1, <3>1, <3>2 DEF Assigned, Sounds
  <2>2. CASE p.on
    <3>1. PulseEnds(p) = (p.timer <= 1)
      <4>1. p.on = TRUE
        BY <1>1, <2>2 DEF Pulses
      <4> QED BY <4>1 DEF PulseEnds
    <3>2. TickPulse(s) = [s EXCEPT !.dirty = b, !.pulse = q]
      BY <1>3, <2>2, <3>1, Zenon DEF TickPulse, PulseClock
    <3> HIDE DEF q, b
    <3> QED BY <1>1, <1>2, <3>2 DEF Assigned, Sounds
  <2> QED BY <2>1, <2>2
<1> QED BY <1>4

LEMMA WaveTicks ==
    ASSUME NEW s \in Sounds
    PROVE  TickWave(s) = Assigned(s, s.dirty \/ WaveEnds(s.wave), s.pulse,
                                  WaveClock(s.wave), s.noise)
<1> DEFINE w == s.wave
           b == s.dirty \/ WaveEnds(w)
           q == WaveClock(w)
<1>1. s.pulse \in Pulses /\ w \in Waves /\ s.noise \in Noises /\ s.dirty \in BOOLEAN
      /\ b \in BOOLEAN
  BY DEF Sounds
<1>2. q \in Waves
  BY <1>1, WaveClockType
<1>3. TickWave(s) = Assigned(s, b, s.pulse, q, s.noise)
  <2>1. CASE ~w.on
    <3>1. TickWave(s) = s
      BY <2>1, Zenon DEF TickWave
    <3>2. q = w /\ b = s.dirty
      BY <1>1, <2>1 DEF WaveClock, WaveEnds
    <3> HIDE DEF q, b
    <3> QED BY <1>1, <3>1, <3>2 DEF Assigned, Sounds
  <2>2. CASE w.on /\ ~w.odd
    <3>1. TickWave(s) = [s EXCEPT !.wave = q]
      BY <2>2 DEF TickWave, WaveClock
    <3>2. b = s.dirty
      BY <1>1, <2>2 DEF WaveEnds
    <3> HIDE DEF q, b
    <3> QED BY <1>1, <1>2, <3>1, <3>2 DEF Assigned, Sounds
  <2>3. CASE w.on /\ w.odd /\ w.timer > 0
    <3>1. TickWave(s) = [s EXCEPT !.wave = q]
      BY <2>3, Zenon DEF TickWave, WaveClock
    <3>2. b = s.dirty
      BY <1>1, <2>3 DEF WaveEnds
    <3> HIDE DEF q, b
    <3> QED BY <1>1, <1>2, <3>1, <3>2 DEF Assigned, Sounds
  <2>4. CASE w.on /\ w.odd /\ ~(w.timer > 0)
    <3>1. b = TRUE
      BY <2>4 DEF WaveEnds
    <3>2. TickWave(s) = [s EXCEPT !.dirty = TRUE, !.wave = q]
      BY <2>4, Zenon DEF TickWave, WaveClock
    <3>3. TickWave(s) = [s EXCEPT !.dirty = b, !.wave = q]
      BY <3>1, <3>2, Zenon
    <3> HIDE DEF q, b
    <3> QED BY <1>1, <1>2, <3>3 DEF Assigned, Sounds
  <2> QED BY <2>1, <2>2, <2>3, <2>4
<1> QED BY <1>3

LEMMA NoiseTicks ==
    ASSUME NEW s \in Sounds
    PROVE  TickNoise(s) = Assigned(s, s.dirty \/ NoiseEnds(s.noise), s.pulse, s.wave,
                                   NoiseClock(s.noise))
<1> DEFINE v == s.noise
           b == s.dirty \/ NoiseEnds(v)
           q == NoiseClock(v)
<1>1. s.pulse \in Pulses /\ s.wave \in Waves /\ v \in Noises /\ s.dirty \in BOOLEAN
      /\ b \in BOOLEAN
  BY DEF Sounds
<1>2. q \in Noises
  BY <1>1, NoiseClockType
<1>3. TickNoise(s) = Assigned(s, b, s.pulse, s.wave, q)
  <2>1. CASE ~v.on \/ v.stopped
    <3>1. TickNoise(s) = s
      BY <2>1, Zenon DEF TickNoise
    <3>2. q = v /\ b = s.dirty
      BY <1>1, <2>1 DEF NoiseClock, NoiseEnds
    <3> HIDE DEF q, b
    <3> QED BY <1>1, <3>1, <3>2 DEF Assigned, Sounds
  <2>2. CASE ~(~v.on \/ v.stopped) /\ v.timer > 1
    <3>1. TickNoise(s) = [s EXCEPT !.noise = q]
      BY <2>2 DEF TickNoise, NoiseClock
    <3>2. b = s.dirty
      BY <1>1, <2>2 DEF NoiseEnds
    <3> HIDE DEF q, b
    <3> QED BY <1>1, <1>2, <3>1, <3>2 DEF Assigned, Sounds
  <2>3. CASE ~(~v.on \/ v.stopped) /\ ~(v.timer > 1)
    <3>1. b = TRUE
      BY <2>3 DEF NoiseEnds
    <3>2. TickNoise(s) = [s EXCEPT !.dirty = TRUE, !.noise = q]
      BY <2>3, Zenon DEF TickNoise, NoiseClock
    <3>3. TickNoise(s) = [s EXCEPT !.dirty = b, !.noise = q]
      BY <3>1, <3>2, Zenon
    <3> HIDE DEF q, b
    <3> QED BY <1>1, <1>2, <3>3 DEF Assigned, Sounds
  <2> QED BY <2>1, <2>2, <2>3
<1> QED BY <1>3

LEMMA AssignedTwice ==
    ASSUME NEW s \in Sounds, NEW b \in BOOLEAN, NEW p \in Pulses, NEW w \in Waves,
           NEW v \in Noises, NEW c \in BOOLEAN, NEW q \in Pulses, NEW x \in Waves,
           NEW y \in Noises
    PROVE  Assigned(Assigned(s, b, p, w, v), c, q, x, y) = Assigned(s, c, q, x, y)
BY DEF Assigned, Sounds

\* The channels after a cycle, in one assignment.
LEMMA ChannelsAre ==
    ASSUME NEW s \in Sounds
    PROVE  Channels(s) = ChannelsClocked(s) /\ Channels(s) \in Sounds
<1> DEFINE ph == PhaseAfter(s, 1)
           l == LatchedAt(s, ph)
           P == PulseClock(s.pulse, l)
           W == WaveClock(s.wave)
           V == NoiseClock(s.noise)
           d1 == s.dirty \/ PulseEnds(s.pulse)
           d2 == d1 \/ WaveEnds(s.wave)
           d3 == d2 \/ NoiseEnds(s.noise)
           s1 == [s EXCEPT !.phase = ph]
           s2 == Assigned(s1, d1, P, s.wave, s.noise)
           s3 == Assigned(s2, d2, P, W, s.noise)
           s4 == Assigned(s3, d3, P, W, V)
<1>1. /\ s.pulse \in Pulses /\ s.wave \in Waves /\ s.noise \in Noises
      /\ d1 \in BOOLEAN /\ d2 \in BOOLEAN /\ d3 \in BOOLEAN /\ l \in BOOLEAN
      /\ Phased(s, 1) = s1 /\ ph \in 0 .. 3
  BY PhaseType DEF Sounds, LatchedAt
<1>2. P \in Pulses /\ W \in Waves /\ V \in Noises
  BY <1>1, PulseClockType, WaveClockType, NoiseClockType
<1>3. s1 \in Sounds /\ s1.pulse = s.pulse /\ s1.wave = s.wave /\ s1.noise = s.noise
      /\ s1.dirty = s.dirty /\ s1.phase = ph /\ s1.startup = s.startup
  <2> HIDE DEF ph
  <2> QED BY <1>1 DEF Sounds
<1>4. d3 = (s.dirty \/ AnyEnds(s))
  BY DEF AnyEnds
<1>5. Assigned(s1, d3, P, W, V) = [s EXCEPT !.phase = ph, !.dirty = d3, !.pulse = P,
                                            !.wave = W, !.noise = V]
  <2> HIDE DEF ph, d3, P, W, V
  <2> QED BY DEF Assigned
<1>6. LatchedAt(s1, s1.phase) = l
  <2> HIDE DEF ph, s1
  <2> QED BY <1>3 DEF LatchedAt, l
<1> HIDE DEF s1
<1>7. TickPulse(s1) = s2
  BY <1>3, <1>6, PulseTicks, Zenon
<1> HIDE DEF P, W, V, d1, d2, d3, l, ph
<1>8. s2 \in Sounds /\ s2.dirty = d1 /\ s2.pulse = P /\ s2.wave = s.wave
      /\ s2.noise = s.noise
  <2>1. s1 \in Sounds /\ d1 \in BOOLEAN /\ P \in Pulses /\ s.wave \in Waves
        /\ s.noise \in Noises
    BY <1>1, <1>2, <1>3
  <2>2. s2.dirty = d1
    BY <2>1 DEF Assigned, Sounds
  <2>3. s2 \in Sounds /\ s2.pulse = P /\ s2.wave = s.wave /\ s2.noise = s.noise
    BY <2>1, AssignedType
  <2> QED BY <2>2, <2>3
<1> HIDE DEF s2
<1>9. TickWave(s2) = s3
  BY <1>8, WaveTicks, Zenon DEF d2, W
<1>10. s3 \in Sounds /\ s3.dirty = d2 /\ s3.pulse = P /\ s3.wave = W
       /\ s3.noise = s.noise
  <2>1. s2 \in Sounds /\ d2 \in BOOLEAN /\ P \in Pulses /\ W \in Waves
        /\ s.noise \in Noises
    BY <1>1, <1>2, <1>8
  <2>2. s3.dirty = d2
    BY <2>1 DEF Assigned, Sounds
  <2>3. s3 \in Sounds /\ s3.pulse = P /\ s3.wave = W /\ s3.noise = s.noise
    BY <2>1, AssignedType
  <2> QED BY <2>2, <2>3
<1> HIDE DEF s3
<1>11. TickNoise(s3) = s4
  BY <1>10, NoiseTicks, Zenon DEF d3, V
<1>12. s4 = Assigned(s1, d3, P, W, V) /\ s4 \in Sounds
  <2>1. s3 = Assigned(s1, d2, P, W, s.noise)
    BY <1>3 DEF Assigned, Sounds, s2, s3
  <2>2. s4 = Assigned(s1, d3, P, W, V)
    BY <1>3, <2>1 DEF Assigned, Sounds, s4
  <2>3. s4 \in Sounds
    <3>1. s3 \in Sounds /\ d3 \in BOOLEAN /\ P \in Pulses /\ W \in Waves /\ V \in Noises
      BY <1>1, <1>2, <1>10
    <3> HIDE DEF s1
    <3> QED BY <3>1, AssignedType
  <2> QED BY <2>2, <2>3
<1>13. Channels(s) = s4
  BY <1>1, <1>7, <1>9, <1>11, Zenon DEF Channels
<1> QED BY <1>4, <1>5, <1>12, <1>13, Zenon DEF ChannelsClocked, P, W, V, l, ph

-----------------------------------------------------------------------------
(* The mix.                                                                *)
LEMMA PulseIsHeard ==
    ASSUME NEW p \in Pulses, NEW l \in BOOLEAN, ~PulseEnds(p), NEW q, q = PulseClock(p, l)
    PROVE  q.on = p.on /\ q.dac = p.dac /\ q.step = p.step /\ q.duty = p.duty
           /\ q.volume = p.volume
<1>1. CASE ~p.on
  BY <1>1 DEF PulseClock
<1>2. CASE p.on
  <2> DEFINE u == p.due
             t == p.timer - 1
             r == p.reloaded /\ l
  <2>1. p.timer \in Int /\ ~(p.timer <= 1) /\ p.timer # 1
    BY <1>2 DEF PulseEnds, Pulses
  <2>2. u \in BOOLEAN /\ r \in BOOLEAN /\ t \in Int
    BY <2>1 DEF Pulses
  <2>3. q = [p EXCEPT !.duty = p.duty, !.due = u, !.timer = t, !.step = p.step, !.reloaded = r]
    BY <1>2, <2>1 DEF PulseClock, Pulses
  <2> HIDE DEF u, t, r
  <2> QED BY <2>2, <2>3 DEF Pulses
<1> QED BY <1>1, <1>2

LEMMA WaveIsHeard ==
    ASSUME NEW w \in Waves, ~WaveEnds(w), NEW q, q = WaveClock(w)
    PROVE  q.on = w.on /\ q.dac = w.dac /\ q.level = w.level /\ q.sample = w.sample
BY DEF WaveClock, WaveEnds, Waves

LEMMA NoiseIsHeard ==
    ASSUME NEW v \in Noises, ~NoiseEnds(v), NEW q, q = NoiseClock(v)
    PROVE  q.on = v.on /\ q.dac = v.dac /\ q.lfsr = v.lfsr /\ q.volume = v.volume
BY DEF NoiseClock, NoiseEnds, Noises

\* What is heard of a channel, which the rest of it does not matter to.
SameHeard(s, x) ==
    /\ s.pulse.on = x.pulse.on /\ s.pulse.dac = x.pulse.dac /\ s.pulse.step = x.pulse.step
    /\ s.pulse.duty = x.pulse.duty /\ s.pulse.volume = x.pulse.volume
    /\ s.wave.on = x.wave.on /\ s.wave.dac = x.wave.dac /\ s.wave.level = x.wave.level
    /\ s.wave.sample = x.wave.sample
    /\ s.noise.on = x.noise.on /\ s.noise.dac = x.noise.dac /\ s.noise.lfsr = x.noise.lfsr
    /\ s.noise.volume = x.noise.volume
    /\ s.route = x.route

LEMMA SameVoltage == ASSUME NEW s, NEW x, SameHeard(s, x) PROVE Voltage(s) = Voltage(x)
BY DEF SameHeard, Voltage, Output

LEMMA OutputType ==
    ASSUME NEW dac \in BOOLEAN, NEW c, c.dac = dac, NEW high \in BOOLEAN, NEW volume \in Int
    PROVE  Output(c, high, volume) \in SUBSET Int
BY DEF Output

LEMMA VoltageType == ASSUME NEW s \in Sounds PROVE Voltage(s) \in Mixes
<1>1. /\ s.pulse \in Pulses /\ s.wave \in Waves /\ s.noise \in Noises /\ s.route \in BOOLEAN
  BY DEF Sounds
<1>2. /\ s.pulse.dac \in BOOLEAN /\ s.pulse.volume \in Int
      /\ s.wave.dac \in BOOLEAN /\ s.wave.sample \in Int
      /\ s.noise.dac \in BOOLEAN /\ s.noise.volume \in Int
  BY <1>1 DEF Pulses, Waves, Noises
<1>3. /\ (s.pulse.step # s.pulse.duty) \in BOOLEAN /\ (s.wave.level # 0) \in BOOLEAN
      /\ (s.noise.lfsr[1] = 0) \in BOOLEAN
  OBVIOUS
<1>4. Output(s.pulse, s.pulse.step # s.pulse.duty, s.pulse.volume) \in SUBSET Int
  BY <1>2 DEF Output
<1>5. Output(s.wave, s.wave.level # 0, s.wave.sample) \in SUBSET Int
  BY <1>2 DEF Output
<1>6. Output(s.noise, s.noise.lfsr[1] = 0, s.noise.volume) \in SUBSET Int
  BY <1>2 DEF Output
<1>7. Voltage(s) \in Voltages
  BY <1>1, <1>4, <1>5, <1>6 DEF Voltage, Voltages
<1> QED BY <1>7 DEF Mixes

LEMMA ClockedFields ==
    ASSUME NEW s \in Sounds, NEW c, c = Channels(s)
    PROVE  /\ c \in Sounds /\ c.powered = s.powered /\ c.startup = s.startup
           /\ c.audible = s.audible /\ c.elapsed = s.elapsed /\ c.route = s.route
           /\ c.mix = s.mix /\ c.heard = s.heard /\ c.phase = PhaseAfter(s, 1)
           /\ c.pulse = PulseClock(s.pulse, LatchedAt(s, PhaseAfter(s, 1)))
           /\ c.wave = WaveClock(s.wave) /\ c.noise = NoiseClock(s.noise)
           /\ c.dirty = (s.dirty \/ AnyEnds(s))
<1> DEFINE ph == PhaseAfter(s, 1)
           b == s.dirty \/ AnyEnds(s)
           p == PulseClock(s.pulse, LatchedAt(s, ph))
           w == WaveClock(s.wave)
           v == NoiseClock(s.noise)
<1>1. c = [s EXCEPT !.phase = ph, !.dirty = b, !.pulse = p, !.wave = w, !.noise = v]
      /\ c \in Sounds
  BY ChannelsAre, Zenon DEF ChannelsClocked
<1>2. b \in BOOLEAN
  BY DEF Sounds
<1> HIDE DEF ph, b, p, w, v
<1>3. /\ c.powered = s.powered /\ c.startup = s.startup /\ c.audible = s.audible
      /\ c.elapsed = s.elapsed /\ c.route = s.route /\ c.mix = s.mix
      /\ c.heard = s.heard /\ c.phase = ph /\ c.pulse = p /\ c.wave = w /\ c.noise = v
      /\ c.dirty = b
  BY <1>1, <1>2 DEF Sounds
<1> QED BY <1>1, <1>3 DEF ph, b, p, w, v

LEMMA SilentClock ==
    ASSUME NEW s \in Sounds, ~AnyEnds(s)
    PROVE  Voltage(Channels(s)) = Voltage(s)
<1> DEFINE c == Channels(s)
           l == LatchedAt(s, PhaseAfter(s, 1))
<1>1. c.route = s.route /\ c.pulse = PulseClock(s.pulse, l) /\ c.wave = WaveClock(s.wave)
      /\ c.noise = NoiseClock(s.noise)
  BY ClockedFields
<1>2. s.pulse \in Pulses /\ s.wave \in Waves /\ s.noise \in Noises /\ l \in BOOLEAN
  BY DEF Sounds, LatchedAt
<1>3. ~PulseEnds(s.pulse) /\ ~WaveEnds(s.wave) /\ ~NoiseEnds(s.noise)
  BY DEF AnyEnds
<1> HIDE DEF c, l
<1>4. c.pulse.on = s.pulse.on /\ c.pulse.dac = s.pulse.dac /\ c.pulse.step = s.pulse.step
      /\ c.pulse.duty = s.pulse.duty /\ c.pulse.volume = s.pulse.volume
  BY <1>1, <1>2, <1>3, PulseIsHeard
<1>5. c.wave.on = s.wave.on /\ c.wave.dac = s.wave.dac /\ c.wave.level = s.wave.level
      /\ c.wave.sample = s.wave.sample
  BY <1>1, <1>2, <1>3, WaveIsHeard
<1>6. c.noise.on = s.noise.on /\ c.noise.dac = s.noise.dac /\ c.noise.lfsr = s.noise.lfsr
      /\ c.noise.volume = s.noise.volume
  BY <1>1, <1>2, <1>3, NoiseIsHeard
<1>7. SameHeard(c, s)
  BY <1>1, <1>4, <1>5, <1>6, Zenon DEF SameHeard
<1> QED BY <1>7, SameVoltage DEF c

-----------------------------------------------------------------------------
(* A cycle, with the mix kept and with the mix computed anew.              *)
Mixed(c) == [c EXCEPT !.mix = Voltage(c), !.dirty = FALSE]

LEMMA MixedType ==
    ASSUME NEW c \in Sounds
    PROVE  /\ Mixed(c) \in Sounds /\ Voltage(Mixed(c)) = Voltage(c)
           /\ Mixed(c).mix = Voltage(c) /\ Mixed(c).dirty = FALSE
           /\ Mixed(c).powered = c.powered /\ Mixed(c).phase = c.phase
           /\ Mixed(c).startup = c.startup /\ Mixed(c).audible = c.audible
           /\ Mixed(c).elapsed = c.elapsed /\ Mixed(c).route = c.route
           /\ Mixed(c).heard = c.heard /\ Mixed(c).pulse = c.pulse
           /\ Mixed(c).wave = c.wave /\ Mixed(c).noise = c.noise
<1> DEFINE m == Voltage(c)
           no == FALSE
           x == [c EXCEPT !.mix = m, !.dirty = no]
<1>1. m \in Mixes /\ no \in BOOLEAN
  BY VoltageType
<1> HIDE DEF m, no
<1>2. /\ x \in Sounds /\ x.mix = m /\ x.dirty = no
      /\ x.powered = c.powered /\ x.phase = c.phase
      /\ x.startup = c.startup /\ x.audible = c.audible
      /\ x.elapsed = c.elapsed /\ x.route = c.route
      /\ x.heard = c.heard /\ x.pulse = c.pulse
      /\ x.wave = c.wave /\ x.noise = c.noise
  BY <1>1 DEF Sounds
<1>3. SameHeard(x, c)
  <2> HIDE DEF x
  <2> QED BY <1>2 DEF SameHeard
<1>4. Voltage(x) = Voltage(c)
  BY <1>3, SameVoltage
<1>5. Mixed(c) = x
  BY Zenon DEF Mixed, m, no, x
<1> HIDE DEF x
<1> QED BY <1>2, <1>4, <1>5 DEF m, no

LEMMA Refreshing ==
    ASSUME NEW c \in Sounds, ~c.dirty => c.mix = Voltage(c)
    PROVE  /\ Refreshed(c) = Mixed(c)
           /\ Refreshed([c EXCEPT !.dirty = TRUE]) = Mixed(c)
<1> DEFINE m == Voltage(c)
           yes == TRUE
           no == FALSE
           d == [c EXCEPT !.dirty = yes]
<1>1. m \in Mixes /\ yes \in BOOLEAN /\ no \in BOOLEAN /\ yes = TRUE /\ no = FALSE
  BY VoltageType
<1>2. Mixed(c) = [c EXCEPT !.mix = m, !.dirty = no]
  BY Zenon DEF Mixed, m, no
<1>3. Refreshed(c) = Mixed(c)
  <2>1. CASE c.dirty
    BY <2>1, <1>2, Zenon DEF Refreshed, m, no
  <2>2. CASE ~c.dirty
    <3>1. c.mix = m /\ c.dirty = no
      BY <2>2 DEF Sounds
    <3>2. [c EXCEPT !.mix = c.mix, !.dirty = c.dirty] = c
      BY DEF Sounds
    <3>3. Refreshed(c) = c
      BY <2>2, Zenon DEF Refreshed
    <3> HIDE DEF m, no
    <3> QED BY <1>2, <3>1, <3>2, <3>3, Zenon
  <2> QED BY <2>1, <2>2
<1> HIDE DEF yes
<1>4. SameHeard(d, c) /\ d.dirty = yes
  BY <1>1 DEF SameHeard, Sounds
<1>5. Voltage(d) = m
  BY <1>4, SameVoltage
<1>6. Refreshed(d) = [d EXCEPT !.mix = m, !.dirty = no]
  <2> HIDE DEF d, m
  <2> QED BY <1>1, <1>4, <1>5, Zenon DEF Refreshed, no
<1>7. [d EXCEPT !.mix = m, !.dirty = no] = [c EXCEPT !.mix = m, !.dirty = no]
  <2> HIDE DEF m, no
  <2> QED BY <1>1 DEF Sounds
<1> QED BY <1>2, <1>3, <1>6, <1>7, Zenon DEF d, yes

LEMMA IntegratedType ==
    ASSUME NEW s \in Sounds, NEW x, x = Integrated(s)
    PROVE  /\ x \in Sounds /\ Voltage(x) = Voltage(s)
           /\ x.elapsed = (IF s.elapsed + Rate < MasterClock THEN s.elapsed + Rate
                           ELSE s.elapsed + Rate - MasterClock)
           /\ x.heard = Append(s.heard, [mix |-> s.mix,
                                         sample |-> s.elapsed + Rate >= MasterClock])
           /\ x.mix = s.mix /\ x.dirty = s.dirty
           /\ x.powered = s.powered /\ x.phase = s.phase /\ x.startup = s.startup
           /\ x.audible = s.audible /\ x.route = s.route /\ x.pulse = s.pulse
           /\ x.wave = s.wave /\ x.noise = s.noise
<1> DEFINE e == IF s.elapsed + Rate < MasterClock THEN s.elapsed + Rate
                ELSE s.elapsed + Rate - MasterClock
           b == s.elapsed + Rate >= MasterClock
           v == [mix |-> s.mix, sample |-> b]
           h == Append(s.heard, v)
<1>1. e \in Int
  BY SoundAssumption DEF Sounds
<1>2. h \in Seq([mix : Mixes, sample : BOOLEAN])
  <2>1. b \in BOOLEAN /\ s.mix \in Mixes /\ s.heard \in Seq([mix : Mixes, sample : BOOLEAN])
    BY DEF Sounds
  <2> HIDE DEF b
  <2>2. v \in [mix : Mixes, sample : BOOLEAN]
    BY <2>1
  <2> HIDE DEF v
  <2> QED BY <2>1, <2>2, AppendProperties
<1>3. x = [s EXCEPT !.elapsed = e, !.heard = h]
  BY Zenon DEF Integrated
<1> HIDE DEF e, h
<1>4. /\ x \in Sounds /\ x.elapsed = e /\ x.heard = h /\ x.mix = s.mix /\ x.dirty = s.dirty
      /\ x.powered = s.powered /\ x.phase = s.phase /\ x.startup = s.startup
      /\ x.audible = s.audible /\ x.route = s.route /\ x.pulse = s.pulse
      /\ x.wave = s.wave /\ x.noise = s.noise
  BY <1>1, <1>2, <1>3 DEF Sounds
<1>5. SameHeard(x, s)
  BY <1>4 DEF SameHeard
<1>6. Voltage(x) = Voltage(s)
  BY <1>5, SameVoltage
<1> QED BY <1>4, <1>6 DEF e, h

\* Every cycle hears what the mix computed anew would be.
LEMMA CyclesAgree ==
    ASSUME NEW s \in SoundStates
    PROVE  /\ CachedCycle(s) = UncachedCycle(s) /\ CachedCycle(s) \in SoundStates
           /\ UncachedCycle(s) = IF s.audible THEN Integrated(Mixed(Channels(s)))
                                 ELSE Channels(s)
<1> DEFINE c == Channels(s)
<1>1. s \in Sounds /\ Kept(s)
  BY DEF SoundStates
<1>2. /\ c \in Sounds /\ c.powered = s.powered /\ c.mix = s.mix
      /\ c.dirty = (s.dirty \/ AnyEnds(s))
      /\ c.pulse = PulseClock(s.pulse, LatchedAt(s, PhaseAfter(s, 1)))
  BY <1>1, ClockedFields
<1>3. c.pulse.on = s.pulse.on
  <2>1. s.pulse \in Pulses /\ LatchedAt(s, PhaseAfter(s, 1)) \in BOOLEAN
    BY <1>1 DEF Sounds, LatchedAt
  <2> QED BY <1>2, <2>1, PulseClockType
<1>4. ~c.dirty => c.mix = Voltage(c)
  <2> SUFFICES ASSUME ~c.dirty PROVE c.mix = Voltage(c)
    OBVIOUS
  <2>1. ~s.dirty /\ ~AnyEnds(s)
    BY <1>2
  <2>2. Voltage(c) = Voltage(s)
    BY <1>1, <2>1, SilentClock
  <2> QED BY <1>1, <1>2, <2>1, <2>2 DEF Kept
<1>5. c \in SoundStates
  BY <1>1, <1>2, <1>3, <1>4 DEF Kept, SoundStates
<1> HIDE DEF c
<1>6. Refreshed(c) = Mixed(c) /\ Refreshed([c EXCEPT !.dirty = TRUE]) = Mixed(c)
  BY <1>2, <1>4, Refreshing
<1>7. Integrated(Mixed(c)) \in SoundStates
  <2> DEFINE m == Mixed(c)
             x == Integrated(m)
  <2>1. /\ m \in Sounds /\ Voltage(m) = Voltage(c) /\ m.mix = Voltage(c)
        /\ m.powered = c.powered /\ m.pulse = c.pulse
    BY <1>2, MixedType
  <2> HIDE DEF m
  <2>2. /\ x \in Sounds /\ Voltage(x) = Voltage(m) /\ x.mix = m.mix
        /\ x.powered = m.powered /\ x.pulse = m.pulse
    BY <2>1, IntegratedType
  <2> HIDE DEF x
  <2>3. x \in SoundStates
    BY <1>5, <2>1, <2>2 DEF Kept, SoundStates
  <2> QED BY <2>3 DEF x, m
<1>8. UncachedCycle(s) = IF s.audible THEN Integrated(Mixed(c)) ELSE c
  BY <1>6, Zenon DEF UncachedCycle, c
<1>9. CachedCycle(s) = IF s.audible THEN Integrated(Mixed(c)) ELSE c
  BY <1>6, Zenon DEF CachedCycle, c
<1>10. CachedCycle(s) \in SoundStates
  BY <1>5, <1>7, <1>9
<1> QED BY <1>8, <1>9, <1>10 DEF c

-----------------------------------------------------------------------------
(* k cycles without a transition.                                          *)
PulseDown(p, k, l) ==
    IF ~p.on THEN p ELSE [p EXCEPT !.timer = p.timer - k, !.reloaded = p.reloaded /\ l]

HalfClocks(odd, k) == k \div 2 + (IF odd THEN k % 2 ELSE 0)

WaveDown(w, k) ==
    IF ~w.on THEN w
    ELSE [w EXCEPT !.odd = w.odd # (k % 2 = 1), !.timer = w.timer - HalfClocks(w.odd, k),
                   !.open = w.open /\ HalfClocks(w.odd, k) = 0]

NoiseDown(v, k) ==
    IF v.on /\ ~v.stopped THEN [v EXCEPT !.timer = v.timer - k] ELSE v

LEMMA PulseGoesDown ==
    ASSUME NEW p \in Pulses, NEW k \in Nat, p.on => p.timer > k + 1,
           NEW l \in BOOLEAN, NEW m \in BOOLEAN
    PROVE  /\ PulseDown(p, k, l) \in Pulses /\ PulseDown(p, k, l).on = p.on
           /\ ~PulseEnds(PulseDown(p, k, l))
           /\ PulseClock(PulseDown(p, k, l), m) = PulseDown(p, k + 1, l /\ m)
<1>1. CASE ~p.on
  BY <1>1 DEF PulseDown, PulseEnds, PulseClock
<1>2. CASE p.on
  <2> DEFINE t == p.timer - k
             u == t - 1
             r == p.reloaded /\ l
             z == p.reloaded /\ (l /\ m)
             q == [p EXCEPT !.timer = t, !.reloaded = r]
  <2>1. t \in Int /\ u \in Int /\ r \in BOOLEAN /\ z \in BOOLEAN /\ ~(t <= 1) /\ t # 1
        /\ u = p.timer - (k + 1) /\ (r /\ m <=> z)
    BY <1>2 DEF Pulses
  <2>2. /\ PulseDown(p, k, l) = q
        /\ PulseDown(p, k + 1, l /\ m) = [p EXCEPT !.timer = u, !.reloaded = z]
    BY <1>2, <2>1, Zenon DEF PulseDown
  <2> HIDE DEF t, r, z
  <2>3. /\ q \in Pulses /\ q.timer = t /\ q.reloaded = r /\ q.on = p.on /\ q.duty = p.duty
        /\ q.due = p.due /\ q.step = p.step
    BY <2>1 DEF Pulses
  <2> DEFINE w == r /\ m
             y == [q EXCEPT !.duty = q.duty, !.due = q.due, !.timer = u, !.step = q.step,
                            !.reloaded = w]
  <2>4. PulseClock(q, m) = y
    <3> HIDE DEF q, u
    <3>1. ~(q.timer <= 1) /\ q.timer # 1 /\ q.on /\ q.due \in BOOLEAN /\ q.timer - 1 = u
      BY <1>2, <2>1, <2>3 DEF Pulses, u
    <3>2. (q.due /\ ~(q.timer = 1 /\ q.due)) = q.due
      BY <3>1
    <3>3. (FALSE \/ (q.reloaded /\ m)) = w
      BY <2>1, <2>3
    <3>4. (q.timer <= 1) = FALSE /\ (q.timer = 1) = FALSE
      BY <3>1
    <3> HIDE DEF w
    <3> QED BY <3>1, <3>2, <3>3, <3>4, Zenon DEF PulseClock
  <2>5. w = z
    BY <2>1
  <2> HIDE DEF w, u
  <2>6. y = [p EXCEPT !.timer = u, !.reloaded = z]
    BY <2>1, <2>3, <2>5, ZenonT(30) DEF Pulses
  <2>7. ~PulseEnds(q)
    BY <2>1, <2>3 DEF PulseEnds
  <2> QED BY <2>2, <2>3, <2>4, <2>6, <2>7, Zenon
<1> QED BY <1>1, <1>2

LEMMA HalfClocksNext ==
    ASSUME NEW odd \in BOOLEAN, NEW k \in Nat
    PROVE  /\ HalfClocks(odd, k) \in Nat /\ HalfClocks(odd, k + 1) \in Nat
           /\ HalfClocks(odd, 0) = 0
           /\ odd # (k % 2 = 1) => HalfClocks(odd, k + 1) = HalfClocks(odd, k) + 1
           /\ ~(odd # (k % 2 = 1)) => HalfClocks(odd, k + 1) = HalfClocks(odd, k)
           /\ (k + 1) % 2 = 1 <=> ~(k % 2 = 1)
<1> DEFINE a == k \div 2
           b == k % 2
<1>1. a \in Nat /\ b \in {0, 1} /\ k = 2 * a + b
  OBVIOUS
<1>2. CASE b = 0
  <2>1. (k + 1) \div 2 = a /\ (k + 1) % 2 = 1
    BY <1>1, <1>2
  <2> QED BY <1>1, <1>2, <2>1 DEF HalfClocks
<1>3. CASE b = 1
  <2>1. (k + 1) \div 2 = a + 1 /\ (k + 1) % 2 = 0
    BY <1>1, <1>3
  <2> QED BY <1>1, <1>3, <2>1 DEF HalfClocks
<1> QED BY <1>1, <1>2, <1>3

LEMMA HalfClocksGrow ==
    ASSUME NEW odd \in BOOLEAN, NEW k \in Nat, NEW n \in Nat, k < n
    PROVE  /\ HalfClocks(odd, k + 1) \in Nat /\ HalfClocks(odd, n) \in Nat
           /\ HalfClocks(odd, k + 1) <= HalfClocks(odd, n)
<1> DEFINE j == k + 1
           a == j \div 2
           b == j % 2
           c == n \div 2
           d == n % 2
<1>1. a \in Nat /\ b \in {0, 1} /\ j = 2 * a + b
  OBVIOUS
<1>2. c \in Nat /\ d \in {0, 1} /\ n = 2 * c + d
  OBVIOUS
<1>3. j <= n
  OBVIOUS
<1>4. HalfClocks(odd, j) = a + (IF odd THEN b ELSE 0)
      /\ HalfClocks(odd, n) = c + (IF odd THEN d ELSE 0)
  BY DEF HalfClocks
<1> HIDE DEF a, b, c, d, j
<1>5. HalfClocks(odd, j) \in Nat /\ HalfClocks(odd, n) \in Nat
      /\ HalfClocks(odd, j) <= HalfClocks(odd, n)
  BY <1>1, <1>2, <1>3, <1>4
<1> QED BY <1>5 DEF j

LEMMA WaveGoesDown ==
    ASSUME NEW w \in Waves, NEW k \in Nat, w.on => HalfClocks(w.odd, k + 1) <= w.timer
    PROVE  /\ WaveDown(w, k) \in Waves /\ ~WaveEnds(WaveDown(w, k))
           /\ WaveClock(WaveDown(w, k)) = WaveDown(w, k + 1)
<1>1. CASE ~w.on
  BY <1>1 DEF WaveDown, WaveEnds, WaveClock
<1>2. CASE w.on
  <2> DEFINE c == HalfClocks(w.odd, k)
             d == HalfClocks(w.odd, k + 1)
             o == w.odd # (k % 2 = 1)
             x == w.odd # ((k + 1) % 2 = 1)
             t == w.timer - c
             u == w.timer - d
             f == w.open /\ c = 0
             g == w.open /\ d = 0
             q == [w EXCEPT !.odd = o, !.timer = t, !.open = f]
             y == [w EXCEPT !.odd = x, !.timer = u, !.open = g]
  <2>1. /\ w.odd \in BOOLEAN /\ w.open \in BOOLEAN /\ w.timer \in Int /\ w.position \in Int
    BY DEF Waves
  <2>2. /\ c \in Nat /\ d \in Nat /\ o \in BOOLEAN /\ x \in BOOLEAN /\ (x <=> ~o)
        /\ (o => d = c + 1) /\ (~o => d = c) /\ d <= w.timer
    BY <1>2, <2>1, HalfClocksNext
  <2>3. WaveDown(w, k) = q /\ WaveDown(w, k + 1) = y
    BY <1>2, Zenon DEF WaveDown
  <2> HIDE DEF c, d, o, x
  <2>4. t \in Int /\ u \in Int /\ f \in BOOLEAN /\ g \in BOOLEAN
    BY <2>1, <2>2
  <2>5. (o => t > 0 /\ u = t - 1 /\ ~g /\ ~x) /\ (~o => u = t /\ (g <=> f) /\ x)
    BY <2>1, <2>2
  <2> HIDE DEF t, u, f, g
  <2>6. /\ q \in Waves /\ q.odd = o /\ q.timer = t /\ q.open = f /\ q.on = w.on
    BY <2>1, <2>2, <2>4 DEF Waves
  <2>7. CASE o
    <3> DEFINE no == FALSE
               v == [q EXCEPT !.odd = no, !.open = no, !.timer = u]
    <3>1. WaveClock(q) = [q EXCEPT !.odd = FALSE, !.open = FALSE, !.timer = q.timer - 1]
      <4>1. q.on /\ q.odd /\ q.timer > 0
        BY <1>2, <2>5, <2>6, <2>7
      <4> HIDE DEF q
      <4> QED BY <4>1, Zenon DEF WaveClock
    <3>2. WaveClock(q) = v
      <4>1. q.timer - 1 = u
        BY <2>5, <2>6, <2>7
      <4> HIDE DEF q
      <4> QED BY <3>1, <4>1, Zenon
    <3>3. x = no /\ g = no /\ no \in BOOLEAN
      BY <2>2, <2>4, <2>5, <2>7
    <3> HIDE DEF no
    <3>4. v = y
      BY <2>2, <2>4, <3>3 DEF Waves
    <3>5. ~WaveEnds(q)
      <4> HIDE DEF q
      <4> QED BY <2>5, <2>6, <2>7 DEF WaveEnds
    <3> QED BY <2>3, <2>6, <3>2, <3>4, <3>5, Zenon
  <2>8. CASE ~o
    <3> DEFINE yes == TRUE
               v == [q EXCEPT !.odd = yes]
    <3>1. WaveClock(q) = v
      <4>1. q.on /\ ~q.odd
        BY <1>2, <2>6, <2>8
      <4> HIDE DEF q
      <4> QED BY <4>1, Zenon DEF WaveClock
    <3>3. x = yes /\ g = f /\ u = t /\ yes \in BOOLEAN
      BY <2>2, <2>4, <2>5, <2>8
    <3> HIDE DEF yes
    <3>4. v = y
      BY <2>2, <2>4, <3>3 DEF Waves
    <3>5. ~WaveEnds(q)
      <4> HIDE DEF q
      <4> QED BY <2>6, <2>8 DEF WaveEnds
    <3> QED BY <2>3, <2>6, <3>1, <3>4, <3>5, Zenon
  <2> QED BY <2>7, <2>8
<1> QED BY <1>1, <1>2

LEMMA NoiseGoesDown ==
    ASSUME NEW v \in Noises, NEW k \in Nat, v.on /\ ~v.stopped => v.timer > k + 1
    PROVE  /\ NoiseDown(v, k) \in Noises /\ ~NoiseEnds(NoiseDown(v, k))
           /\ NoiseClock(NoiseDown(v, k)) = NoiseDown(v, k + 1)
<1>1. CASE ~(v.on /\ ~v.stopped)
  BY <1>1 DEF NoiseDown, NoiseEnds, NoiseClock
<1>2. CASE v.on /\ ~v.stopped
  <2> DEFINE t == v.timer - k
             u == v.timer - (k + 1)
             q == [v EXCEPT !.timer = t]
  <2>1. t \in Int /\ u \in Int /\ t > 1 /\ u = t - 1
    BY <1>2 DEF Noises
  <2>2. NoiseDown(v, k) = q /\ NoiseDown(v, k + 1) = [v EXCEPT !.timer = u]
    BY <1>2, Zenon DEF NoiseDown
  <2> HIDE DEF t, u
  <2>3. q \in Noises /\ q.timer = t /\ q.on = v.on /\ q.stopped = v.stopped
    BY <2>1 DEF Noises
  <2>4. [q EXCEPT !.timer = u] = [v EXCEPT !.timer = u]
    BY <2>1 DEF Noises
  <2>5. NoiseClock(q) = [q EXCEPT !.timer = u] /\ ~NoiseEnds(q)
    <3> HIDE DEF q
    <3>1. q.on /\ ~q.stopped /\ q.timer > 1 /\ q.timer - 1 = u
      BY <1>2, <2>1, <2>3
    <3> QED BY <3>1, Zenon DEF NoiseClock, NoiseEnds
  <2> QED BY <2>2, <2>3, <2>4, <2>5, Zenon
<1> QED BY <1>1, <1>2

-----------------------------------------------------------------------------
(* A span in which no channel changes.                                     *)
StillLatched(s, k) == k = 0 \/ (LatchesPhase /\ s.startup /\ s.phase + k < 4)

Same(s, k) == [i \in 1 .. k |-> [mix |-> Voltage(s), sample |-> FALSE]]

\* x is what k cycles make of s when nothing ends in them.
Reached(x, s, k) ==
    /\ x \in Sounds /\ Voltage(x) = Voltage(s)
    /\ x.powered = s.powered /\ x.startup = s.startup /\ x.audible = s.audible
    /\ x.route = s.route /\ x.phase = PhaseAfter(s, k)
    /\ x.pulse = PulseDown(s.pulse, k, StillLatched(s, k))
    /\ x.wave = WaveDown(s.wave, k) /\ x.noise = NoiseDown(s.noise, k)
    /\ x.mix = (IF s.audible /\ k > 0 THEN Voltage(s) ELSE s.mix)
    /\ x.dirty = (s.dirty /\ ~(s.audible /\ k > 0))
    /\ x.elapsed = (IF s.audible THEN s.elapsed + k * Rate ELSE s.elapsed)
    /\ x.heard = (IF s.audible THEN s.heard \o Same(s, k) ELSE s.heard)

Uneventful(s, n) ==
    /\ ~BoundaryWithin(s, n)
    /\ s.pulse.on => s.pulse.timer > n
    /\ s.wave.on => WaveClocks(s, n) <= s.wave.timer
    /\ s.noise.on /\ ~s.noise.stopped => s.noise.timer > n

LEMMA SameSounds ==
    ASSUME NEW x \in Sounds, NEW y \in Sounds,
           x.powered = y.powered, x.phase = y.phase, x.startup = y.startup,
           x.audible = y.audible, x.elapsed = y.elapsed, x.route = y.route,
           x.dirty = y.dirty, x.mix = y.mix, x.heard = y.heard, x.pulse = y.pulse,
           x.wave = y.wave, x.noise = y.noise
    PROVE  x = y
BY DEF Sounds

LEMMA SameOnce ==
    ASSUME NEW s \in Sounds, NEW k \in Nat, NEW h \in Seq([mix : Mixes, sample : BOOLEAN])
    PROVE  /\ h \o Same(s, k) \in Seq([mix : Mixes, sample : BOOLEAN])
           /\ h \o Same(s, 0) = h
           /\ Append(h \o Same(s, k), [mix |-> Voltage(s), sample |-> FALSE])
                = h \o Same(s, k + 1)
<1> DEFINE S == [mix : Mixes, sample : BOOLEAN]
           v == [mix |-> Voltage(s), sample |-> FALSE]
           a == Same(s, k)
           b == Same(s, k + 1)
<1>1. v \in S
  BY VoltageType
<1>2. a = [i \in 1 .. k |-> v] /\ b = [i \in 1 .. k + 1 |-> v]
  BY DEF Same
<1>3. Same(s, 0) = <<>>
  BY DEF Same
<1> HIDE DEF v, S, a, b
<1>4. a \in Seq(S) /\ Len(a) = k /\ b \in Seq(S) /\ Len(b) = k + 1
      /\ (\A i \in 1 .. k : a[i] = v) /\ (\A i \in 1 .. k + 1 : b[i] = v)
  BY <1>1, <1>2
<1>5. Append(a, v) = b
  <2> DEFINE c == Append(a, v)
  <2>1. c \in Seq(S) /\ Len(c) = k + 1
    BY <1>1, <1>4
  <2>2. \A i \in 1 .. k + 1 : c[i] = v
    <3>1. (\A i \in 1 .. k : c[i] = a[i]) /\ c[k + 1] = v
      BY <1>1, <1>4, AppendProperties
    <3>2. \A i \in 1 .. k + 1 : i \in 1 .. k \/ i = k + 1
      OBVIOUS
    <3> QED BY <1>4, <3>1, <3>2
  <2> HIDE DEF c
  <2>3. \A i \in 1 .. Len(c) : c[i] = b[i]
    BY <1>4, <2>1, <2>2
  <2>4. Len(c) = Len(b)
    BY <1>4, <2>1
  <2>5. c = b
    BY <1>4, <2>1, <2>3, <2>4, SeqEqual, ZenonT(30)
  <2> QED BY <2>5 DEF c
<1>6. h \in Seq(S)
  BY DEF S
<1>7. h \o a \in Seq(S) /\ h \o b \in Seq(S) /\ h \o <<>> = h
  BY <1>4, <1>6, ConcatProperties, ConcatEmptySeq
<1>8. Append(h \o a, v) = h \o Append(a, v)
  <2>1. Append(h \o a, v) = (h \o a) \o <<v>>
    BY <1>1, <1>7, AppendIsConcat
  <2>2. Append(a, v) = a \o <<v>>
    BY <1>1, <1>4, AppendIsConcat
  <2>3. <<v>> \in Seq(S)
    BY <1>1
  <2>4. (h \o a) \o <<v>> = h \o (a \o <<v>>)
    <3> DEFINE w == <<v>>
    <3>1. w \in Seq(S) /\ a \in Seq(S) /\ h \in Seq(S)
      BY <1>4, <1>6, <2>3
    <3> HIDE DEF w
    <3>2. (h \o a) \o w = h \o (a \o w)
      BY <3>1, ConcatAssociative
    <3> QED BY <3>2 DEF w
  <2> QED BY <2>1, <2>2, <2>4
<1> QED BY <1>3, <1>5, <1>7, <1>8 DEF a, b, v, S

LEMMA NothingReached == ASSUME NEW s \in SoundStates PROVE Reached(s, s, 0)
<1>1. s \in Sounds
  BY DEF SoundStates
<1>2. /\ s.pulse \in Pulses /\ s.wave \in Waves /\ s.noise \in Noises
      /\ s.heard \in Seq([mix : Mixes, sample : BOOLEAN]) /\ s.phase \in 0 .. 3
      /\ s.dirty \in BOOLEAN /\ s.elapsed \in Int
  BY <1>1 DEF Sounds
<1>3. PulseDown(s.pulse, 0, StillLatched(s, 0)) = s.pulse
  <2> DEFINE r == s.pulse.reloaded /\ TRUE
             t == s.pulse.timer - 0
  <2>1. StillLatched(s, 0) = TRUE
    BY DEF StillLatched
  <2>2. PulseDown(s.pulse, 0, TRUE)
          = IF ~s.pulse.on THEN s.pulse ELSE [s.pulse EXCEPT !.timer = t, !.reloaded = r]
    BY Zenon DEF PulseDown
  <2>3. t = s.pulse.timer /\ r = s.pulse.reloaded
    BY <1>2 DEF Pulses
  <2> HIDE DEF t, r
  <2>4. [s.pulse EXCEPT !.timer = t, !.reloaded = r] = s.pulse
    BY <1>2, <2>3 DEF Pulses
  <2> QED BY <2>1, <2>2, <2>4, Zenon
<1>4. WaveDown(s.wave, 0) = s.wave
  <2> DEFINE o == s.wave.odd # (0 % 2 = 1)
             t == s.wave.timer - HalfClocks(s.wave.odd, 0)
             f == s.wave.open /\ HalfClocks(s.wave.odd, 0) = 0
  <2>1. HalfClocks(s.wave.odd, 0) = 0
    BY <1>2, HalfClocksNext DEF Waves
  <2>2. o = s.wave.odd /\ t = s.wave.timer /\ f = s.wave.open
    BY <1>2, <2>1 DEF Waves
  <2>3. WaveDown(s.wave, 0)
          = IF ~s.wave.on THEN s.wave
            ELSE [s.wave EXCEPT !.odd = o, !.timer = t, !.open = f]
    BY Zenon DEF WaveDown
  <2> HIDE DEF o, t, f
  <2>4. [s.wave EXCEPT !.odd = o, !.timer = t, !.open = f] = s.wave
    BY <1>2, <2>2 DEF Waves
  <2> QED BY <2>3, <2>4, Zenon
<1>5. NoiseDown(s.noise, 0) = s.noise
  <2> DEFINE t == s.noise.timer - 0
  <2>1. t = s.noise.timer
    BY <1>2 DEF Noises
  <2>2. [s.noise EXCEPT !.timer = t] = s.noise
    BY <1>2, <2>1 DEF Noises
  <2> QED BY <2>2, Zenon DEF NoiseDown
<1>6. PhaseAfter(s, 0) = s.phase
  BY <1>2 DEF PhaseAfter
<1>7. s.heard \o Same(s, 0) = s.heard
  BY <1>1, <1>2, SameOnce
<1>8. s.dirty = (s.dirty /\ ~(s.audible /\ 0 > 0))
  BY <1>2
<1>9. s.elapsed = (IF s.audible THEN s.elapsed + 0 * Rate ELSE s.elapsed)
  <2>1. 0 * Rate = 0
    BY SoundAssumption
  <2> QED BY <1>2, <2>1
<1>10. s.mix = (IF s.audible /\ 0 > 0 THEN Voltage(s) ELSE s.mix)
  OBVIOUS
<1> QED BY <1>1, <1>3, <1>4, <1>5, <1>6, <1>7, <1>8, <1>9, <1>10, Zenon DEF Reached

\* The register's phase, which a reloaded square stays latched by.
LEMMA LatchedNext ==
    ASSUME NEW s \in SoundStates, s.pulse.on, NEW k \in Nat
    PROVE  (StillLatched(s, k) /\ LatchedAt(s, PhaseAfter(s, k + 1)))
             <=> StillLatched(s, k + 1)
<1>1. s.powered /\ s.phase \in 0 .. 3
  BY DEF SoundStates, Kept, Sounds
<1>2. LatchesPhase => RevisionE
  BY DEF LatchesPhase, RevisionE
<1>3. (s.phase + k < 4 \/ k = 0)
      => ((s.phase + (k + 1)) % 4 # 0 <=> s.phase + (k + 1) < 4)
  <2> DEFINE z == s.phase + (k + 1)
  <2>1. s.phase + k < 4 \/ k = 0 => z \in {1, 2, 3, 4}
    BY <1>1
  <2> HIDE DEF z
  <2>2. z \in {1, 2, 3, 4} => (z % 4 # 0 <=> z < 4)
    OBVIOUS
  <2> QED BY <2>1, <2>2 DEF z
<1>4. s.phase + (k + 1) < 4 => s.phase + k < 4
  BY <1>1
<1>5. k + 1 # 0
  OBVIOUS
<1>6. CASE RevisionE
  <2>1. PhaseAfter(s, k + 1) = (s.phase + (k + 1)) % 4
    BY <1>1, <1>6 DEF PhaseAfter
  <2> QED BY <1>3, <1>4, <1>5, <2>1 DEF StillLatched, LatchedAt
<1>7. CASE ~RevisionE
  <2>1. ~LatchesPhase
    BY <1>2, <1>7
  <2> QED BY <1>5, <2>1 DEF StillLatched, LatchedAt
<1> QED BY <1>6, <1>7

\* The countdowns of one more cycle.
LEMMA ClockReached ==
    ASSUME NEW s \in SoundStates, NEW n \in Nat, Uneventful(s, n), NEW k \in Nat, k < n,
           NEW x, Reached(x, s, k)
    PROVE  /\ ~AnyEnds(x) /\ PhaseAfter(x, 1) = PhaseAfter(s, k + 1)
           /\ PulseClock(x.pulse, LatchedAt(x, PhaseAfter(x, 1)))
                = PulseDown(s.pulse, k + 1, StillLatched(s, k + 1))
           /\ WaveClock(x.wave) = WaveDown(s.wave, k + 1)
           /\ NoiseClock(x.noise) = NoiseDown(s.noise, k + 1)
<1>1. /\ s.pulse \in Pulses /\ s.wave \in Waves /\ s.noise \in Noises /\ s.phase \in 0 .. 3
  BY DEF SoundStates, Sounds
<1>2. /\ x.powered = s.powered /\ x.startup = s.startup /\ x.phase = PhaseAfter(s, k)
      /\ x.pulse = PulseDown(s.pulse, k, StillLatched(s, k))
      /\ x.wave = WaveDown(s.wave, k) /\ x.noise = NoiseDown(s.noise, k)
  BY DEF Reached
<1>3. PhaseAfter(x, 1) = PhaseAfter(s, k + 1)
  <2>1. (((s.phase + k) % 4) + 1) % 4 = (s.phase + (k + 1)) % 4
    BY <1>1
  <2> QED BY <1>2, <2>1, Zenon DEF PhaseAfter
<1> DEFINE l == StillLatched(s, k)
           m == LatchedAt(s, PhaseAfter(s, k + 1))
           g == StillLatched(s, k + 1)
<1>4. LatchedAt(x, PhaseAfter(x, 1)) = m
  BY <1>2, <1>3, Zenon DEF LatchedAt
<1>5. l \in BOOLEAN /\ m \in BOOLEAN /\ g \in BOOLEAN
  BY DEF StillLatched, LatchedAt
<1>6. s.pulse.on => ((l /\ m) = g)
  BY <1>5, LatchedNext
<1> HIDE DEF l, m, g
<1>7. /\ ~PulseEnds(PulseDown(s.pulse, k, l))
      /\ PulseClock(PulseDown(s.pulse, k, l), m) = PulseDown(s.pulse, k + 1, g)
  <2>1. s.pulse.on => s.pulse.timer > k + 1 \/ k + 1 = n
    BY <1>1 DEF Uneventful, Pulses
  <2>2. s.pulse.on => s.pulse.timer > k + 1
    BY <1>1, <2>1 DEF Uneventful, Pulses
  <2>3. /\ ~PulseEnds(PulseDown(s.pulse, k, l))
        /\ PulseClock(PulseDown(s.pulse, k, l), m) = PulseDown(s.pulse, k + 1, l /\ m)
    BY <1>1, <1>5, <2>2, PulseGoesDown
  <2>4. PulseDown(s.pulse, k + 1, l /\ m) = PulseDown(s.pulse, k + 1, g)
    BY <1>6, Zenon DEF PulseDown
  <2> QED BY <2>3, <2>4
<1>8. /\ ~WaveEnds(WaveDown(s.wave, k))
      /\ WaveClock(WaveDown(s.wave, k)) = WaveDown(s.wave, k + 1)
  <2>1. s.wave.on => HalfClocks(s.wave.odd, k + 1) <= s.wave.timer
    <3> SUFFICES ASSUME s.wave.on PROVE HalfClocks(s.wave.odd, k + 1) <= s.wave.timer
      OBVIOUS
    <3>1. HalfClocks(s.wave.odd, n) <= s.wave.timer
      BY DEF Uneventful, WaveClocks, HalfClocks
    <3>2. s.wave.odd \in BOOLEAN /\ s.wave.timer \in Int
      BY <1>1 DEF Waves
    <3>3. /\ HalfClocks(s.wave.odd, k + 1) <= HalfClocks(s.wave.odd, n)
          /\ HalfClocks(s.wave.odd, k + 1) \in Nat /\ HalfClocks(s.wave.odd, n) \in Nat
      BY <3>2, HalfClocksGrow
    <3> QED BY <3>1, <3>2, <3>3
  <2> QED BY <1>1, <2>1, WaveGoesDown
<1>9. /\ ~NoiseEnds(NoiseDown(s.noise, k))
      /\ NoiseClock(NoiseDown(s.noise, k)) = NoiseDown(s.noise, k + 1)
  <2>1. s.noise.on /\ ~s.noise.stopped => s.noise.timer > k + 1
    BY <1>1 DEF Uneventful, Noises
  <2> QED BY <1>1, <2>1, NoiseGoesDown
<1>10. ~AnyEnds(x)
  BY <1>2, <1>7, <1>8, <1>9, Zenon DEF AnyEnds, l
<1> QED BY <1>2, <1>3, <1>4, <1>7, <1>8, <1>9, <1>10, Zenon DEF l, g

LEMMA TimesNext ==
    ASSUME NEW k \in Nat, NEW r \in Nat
    PROVE  k * r \in Nat /\ (k + 1) * r \in Nat /\ (k + 1) * r = k * r + r
OBVIOUS

LEMMA TimesGrows ==
    ASSUME NEW k \in Nat, NEW n \in Nat, NEW r \in Nat, k <= n
    PROVE  n * r \in Nat /\ k * r <= n * r
<1> DEFINE d == n - k
<1>1. d \in Nat /\ n = k + d
  OBVIOUS
<1> HIDE DEF d
<1>2. d * r \in Nat /\ k * r \in Nat /\ (k + d) * r = k * r + d * r
  BY <1>1
<1> QED BY <1>1, <1>2

LEMMA ReachedNext ==
    ASSUME NEW s \in SoundStates, NEW n \in Nat, Uneventful(s, n), NEW k \in Nat, k < n,
           NEW x \in SoundStates, Reached(x, s, k)
    PROVE  Reached(UncachedCycle(x), s, k + 1)
<1> DEFINE c == Channels(x)
           V == Voltage(s)
<1>1. /\ x \in Sounds /\ Voltage(x) = V
      /\ x.powered = s.powered /\ x.startup = s.startup /\ x.audible = s.audible
      /\ x.route = s.route
      /\ x.mix = (IF s.audible /\ k > 0 THEN V ELSE s.mix)
      /\ x.dirty = (s.dirty /\ ~(s.audible /\ k > 0))
      /\ x.elapsed = (IF s.audible THEN s.elapsed + k * Rate ELSE s.elapsed)
      /\ x.heard = (IF s.audible THEN s.heard \o Same(s, k) ELSE s.heard)
  BY DEF Reached
<1>2. s \in Sounds
  BY DEF SoundStates
<1>3. /\ c \in Sounds /\ c.powered = x.powered /\ c.startup = x.startup
      /\ c.audible = x.audible /\ c.elapsed = x.elapsed /\ c.route = x.route
      /\ c.mix = x.mix /\ c.heard = x.heard /\ c.phase = PhaseAfter(x, 1)
      /\ c.pulse = PulseClock(x.pulse, LatchedAt(x, PhaseAfter(x, 1)))
      /\ c.wave = WaveClock(x.wave) /\ c.noise = NoiseClock(x.noise)
      /\ c.dirty = (x.dirty \/ AnyEnds(x))
  BY <1>1, ClockedFields
<1>4. /\ ~AnyEnds(x) /\ c.phase = PhaseAfter(s, k + 1)
      /\ c.pulse = PulseDown(s.pulse, k + 1, StillLatched(s, k + 1))
      /\ c.wave = WaveDown(s.wave, k + 1) /\ c.noise = NoiseDown(s.noise, k + 1)
  BY <1>3, ClockReached
<1>5. Voltage(c) = V
  BY <1>1, <1>4, SilentClock
<1>6. c.dirty = x.dirty
  <2>1. x.dirty \in BOOLEAN
    BY <1>1 DEF Sounds
  <2> QED BY <1>3, <1>4, <2>1
<1>7. k + 1 > 0
  OBVIOUS
<1> HIDE DEF c, V
<1>8. CASE ~s.audible
  <2>1. UncachedCycle(x) = c
    BY <1>1, <1>8, CyclesAgree DEF c
  <2>2. Reached(c, s, k + 1)
    <3>1. /\ c.mix = s.mix /\ c.elapsed = s.elapsed /\ c.heard = s.heard /\ c.dirty = s.dirty
      <4>1. s.dirty \in BOOLEAN
        BY <1>2 DEF Sounds
      <4> QED BY <1>1, <1>3, <1>6, <1>8, <4>1
    <3>2. s.dirty = (s.dirty /\ ~(s.audible /\ k + 1 > 0))
      BY <1>2, <1>8 DEF Sounds
    <3> QED BY <1>1, <1>3, <1>4, <1>5, <1>8, <3>1, <3>2, Zenon DEF Reached, V
  <2> QED BY <2>1, <2>2
<1>9. CASE s.audible
  <2> DEFINE m == Mixed(c)
             y == Integrated(m)
  <2>1. UncachedCycle(x) = y
    BY <1>1, <1>9, CyclesAgree DEF c
  <2>2. /\ m \in Sounds /\ Voltage(m) = V /\ m.mix = V /\ m.dirty = FALSE
        /\ m.powered = c.powered /\ m.phase = c.phase
        /\ m.startup = c.startup /\ m.audible = c.audible
        /\ m.elapsed = c.elapsed /\ m.route = c.route
        /\ m.heard = c.heard /\ m.pulse = c.pulse
        /\ m.wave = c.wave /\ m.noise = c.noise
    BY <1>3, <1>5, MixedType
  <2> HIDE DEF m
  <2>3. /\ y \in Sounds /\ Voltage(y) = V
        /\ y.elapsed = (IF m.elapsed + Rate < MasterClock THEN m.elapsed + Rate
                        ELSE m.elapsed + Rate - MasterClock)
        /\ y.heard = Append(m.heard, [mix |-> m.mix,
                                      sample |-> m.elapsed + Rate >= MasterClock])
        /\ y.mix = m.mix /\ y.dirty = m.dirty
        /\ y.powered = m.powered /\ y.phase = m.phase /\ y.startup = m.startup
        /\ y.audible = m.audible /\ y.route = m.route /\ y.pulse = m.pulse
        /\ y.wave = m.wave /\ y.noise = m.noise
    BY <2>2, IntegratedType
  <2> HIDE DEF y
  <2>4. m.elapsed = s.elapsed + k * Rate
    BY <1>1, <1>3, <1>9, <2>2
  <2>5. /\ m.elapsed + Rate = s.elapsed + (k + 1) * Rate
        /\ m.elapsed + Rate < MasterClock /\ ~(m.elapsed + Rate >= MasterClock)
    <3> DEFINE a == k * Rate
               b == (k + 1) * Rate
               z == n * Rate
    <3>1. Rate \in Nat /\ MasterClock \in Nat /\ s.elapsed \in Int
      BY <1>2, SoundAssumption DEF Sounds
    <3>2. s.elapsed + z < MasterClock
      <4>1. ~(s.elapsed + z >= MasterClock)
        BY <1>9 DEF Uneventful, BoundaryWithin
      <4>2. z \in Nat
        BY <3>1
      <4> HIDE DEF z
      <4> QED BY <3>1, <4>1, <4>2
    <3>3. a \in Nat /\ b \in Nat /\ z \in Nat /\ b = a + Rate /\ b <= z
      <4>1. k + 1 \in Nat /\ k + 1 <= n
        OBVIOUS
      <4> QED BY <3>1, <4>1, TimesGrows, TimesNext
    <3> HIDE DEF a, b, z
    <3>4. m.elapsed = s.elapsed + a
      BY <2>4 DEF a
    <3>5. /\ m.elapsed + Rate = s.elapsed + b
          /\ m.elapsed + Rate < MasterClock /\ ~(m.elapsed + Rate >= MasterClock)
      BY <3>1, <3>2, <3>3, <3>4
    <3> QED BY <3>5 DEF b
  <2>6. y.heard = s.heard \o Same(s, k + 1)
    <3>1. y.heard = Append(s.heard \o Same(s, k), [mix |-> V, sample |-> FALSE])
      <4>1. (m.elapsed + Rate >= MasterClock) = FALSE
        BY <2>5
      <4>2. m.heard = s.heard \o Same(s, k)
        BY <1>1, <1>3, <1>9, <2>2
      <4> QED BY <2>2, <2>3, <4>1, <4>2, Zenon
    <3>2. s.heard \in Seq([mix : Mixes, sample : BOOLEAN])
      BY <1>2 DEF Sounds
    <3> QED BY <1>2, <3>1, <3>2, SameOnce DEF V
  <2>7. y.elapsed = s.elapsed + (k + 1) * Rate
    BY <2>3, <2>5
  <2>8. y.dirty = (s.dirty /\ ~(s.audible /\ k + 1 > 0))
    <3>1. (s.dirty /\ ~(s.audible /\ k + 1 > 0)) = FALSE
      BY <1>7, <1>9
    <3> QED BY <2>2, <2>3, <3>1, Zenon
  <2>9. y.mix = (IF s.audible /\ k + 1 > 0 THEN V ELSE s.mix)
    BY <1>7, <1>9, <2>2, <2>3, Zenon
  <2>10. Reached(y, s, k + 1)
    BY <1>1, <1>3, <1>4, <1>9, <2>2, <2>3, <2>6, <2>7, <2>8, <2>9, ZenonT(60)
       DEF Reached, V
  <2> QED BY <2>1, <2>10
<1> QED BY <1>8, <1>9

\* n uneventful cycles in one go.
LEMMA ReachedInOneGo ==
    ASSUME NEW s \in SoundStates, NEW n \in Nat \ {0}, NEW x, Reached(x, s, n)
    PROVE  x = InOneGo(s, n)
<1> DEFINE l == LatchesPhase /\ s.startup /\ s.phase + n < 4
           p == IF ~s.pulse.on THEN s.pulse
                ELSE [s.pulse EXCEPT !.timer = s.pulse.timer - n,
                                     !.reloaded = s.pulse.reloaded /\ l]
           w == IF ~s.wave.on THEN s.wave
                ELSE [s.wave EXCEPT !.odd = s.wave.odd # (n % 2 = 1),
                                    !.timer = s.wave.timer - WaveClocks(s, n),
                                    !.open = s.wave.open /\ WaveClocks(s, n) = 0]
           v == IF s.noise.on /\ ~s.noise.stopped
                THEN [s.noise EXCEPT !.timer = s.noise.timer - n] ELSE s.noise
           ph == PhaseAfter(s, n)
           c == CountedDown(s, n)
           V == Voltage(s)
<1>1. /\ x \in Sounds /\ Voltage(x) = V
      /\ x.powered = s.powered /\ x.startup = s.startup /\ x.audible = s.audible
      /\ x.route = s.route /\ x.phase = ph
      /\ x.pulse = PulseDown(s.pulse, n, StillLatched(s, n))
      /\ x.wave = WaveDown(s.wave, n) /\ x.noise = NoiseDown(s.noise, n)
      /\ x.mix = (IF s.audible /\ n > 0 THEN V ELSE s.mix)
      /\ x.dirty = (s.dirty /\ ~(s.audible /\ n > 0))
      /\ x.elapsed = (IF s.audible THEN s.elapsed + n * Rate ELSE s.elapsed)
      /\ x.heard = (IF s.audible THEN s.heard \o Same(s, n) ELSE s.heard)
  BY DEF Reached
<1>2. s \in Sounds /\ Kept(s)
  BY DEF SoundStates
<1>3. x.pulse = p
  <2>1. StillLatched(s, n) = l
    <3>1. (n = 0) = FALSE
      OBVIOUS
    <3> QED BY <3>1 DEF StillLatched
  <2>2. PulseDown(s.pulse, n, l) = p
    BY Zenon DEF PulseDown
  <2> HIDE DEF l, p
  <2> QED BY <1>1, <2>1, <2>2
<1>4. x.wave = w
  <2>1. HalfClocks(s.wave.odd, n) = WaveClocks(s, n)
    BY Zenon DEF HalfClocks, WaveClocks
  <2>2. WaveDown(s.wave, n) = w
    BY <2>1, Zenon DEF WaveDown
  <2> HIDE DEF w
  <2> QED BY <1>1, <2>2
<1>5. x.noise = v
  BY <1>1, Zenon DEF NoiseDown
<1>6. c = [[s EXCEPT !.phase = ph] EXCEPT !.pulse = p, !.wave = w, !.noise = v]
  <2>1. Phased(s, n) = [s EXCEPT !.phase = ph]
    BY <1>2, PhaseType
  <2> QED BY <2>1, Zenon DEF CountedDown
<1>7. n > 0
  OBVIOUS
<1> HIDE DEF p, w, v, ph, c
<1>8. ph \in 0 .. 3 /\ p \in Pulses /\ w \in Waves /\ v \in Noises
  BY <1>1, <1>3, <1>4, <1>5 DEF Sounds
<1>9. /\ c \in Sounds /\ c.powered = s.powered /\ c.phase = ph /\ c.startup = s.startup
      /\ c.audible = s.audible /\ c.elapsed = s.elapsed /\ c.route = s.route
      /\ c.dirty = s.dirty /\ c.mix = s.mix /\ c.heard = s.heard /\ c.pulse = p
      /\ c.wave = w /\ c.noise = v
  BY <1>2, <1>6, <1>8 DEF Sounds
<1>10. Voltage(c) = V
  <2>1. SameHeard(c, x)
    BY <1>1, <1>3, <1>4, <1>5, <1>9, Zenon DEF SameHeard
  <2> QED BY <1>1, <2>1, SameVoltage
<1>11. Refreshed(c) = Mixed(c)
  <2>1. ~c.dirty => c.mix = Voltage(c)
    BY <1>2, <1>9, <1>10 DEF Kept
  <2> QED BY <1>9, <2>1, Refreshing
<1>12. CASE ~s.audible
  <2>1. InOneGo(s, n) = c
    BY <1>12, Zenon DEF InOneGo, c
  <2>2. /\ x.dirty = c.dirty /\ x.mix = c.mix /\ x.elapsed = c.elapsed /\ x.heard = c.heard
    <3>1. s.dirty \in BOOLEAN
      BY <1>2 DEF Sounds
    <3> QED BY <1>1, <1>9, <1>12, <3>1
  <2>3. x = c
    BY <1>1, <1>3, <1>4, <1>5, <1>9, <2>2, SameSounds, ZenonT(30)
  <2> QED BY <2>1, <2>3
<1>13. CASE s.audible
  <2> DEFINE m == Mixed(c)
             e == m.elapsed + n * Rate
             h == m.heard \o [i \in 1 .. n |-> [mix |-> m.mix, sample |-> FALSE]]
             y == [m EXCEPT !.elapsed = e, !.heard = h]
  <2>1. InOneGo(s, n) = y
    BY <1>11, <1>13, Zenon DEF InOneGo, c
  <2>2. /\ m \in Sounds /\ m.mix = V /\ m.dirty = FALSE
        /\ m.powered = c.powered /\ m.phase = c.phase
        /\ m.startup = c.startup /\ m.audible = c.audible
        /\ m.elapsed = c.elapsed /\ m.route = c.route
        /\ m.heard = c.heard /\ m.pulse = c.pulse
        /\ m.wave = c.wave /\ m.noise = c.noise
    BY <1>9, <1>10, MixedType
  <2> HIDE DEF m
  <2>3. e = x.elapsed /\ h = x.heard
    <3>1. h = s.heard \o Same(s, n)
      BY <1>9, <2>2, Zenon DEF Same, V
    <3> HIDE DEF h
    <3> QED BY <1>1, <1>9, <1>13, <2>2, <3>1
  <2>4. e \in Int /\ h \in Seq([mix : Mixes, sample : BOOLEAN])
    <3> HIDE DEF e, h
    <3> QED BY <1>1, <2>3 DEF Sounds
  <2> HIDE DEF e, h
  <2>5. /\ y \in Sounds /\ y.mix = V /\ y.dirty = FALSE /\ y.elapsed = e /\ y.heard = h
        /\ y.powered = m.powered /\ y.phase = m.phase /\ y.startup = m.startup
        /\ y.audible = m.audible /\ y.route = m.route /\ y.pulse = m.pulse
        /\ y.wave = m.wave /\ y.noise = m.noise
    BY <2>2, <2>4 DEF Sounds
  <2> HIDE DEF y
  <2>6. x.mix = V /\ x.dirty = FALSE
    BY <1>1, <1>7, <1>13
  <2>7. /\ x.powered = y.powered /\ x.phase = y.phase /\ x.startup = y.startup
        /\ x.audible = y.audible /\ x.route = y.route /\ x.pulse = y.pulse
        /\ x.wave = y.wave /\ x.noise = y.noise
    BY <1>1, <1>3, <1>4, <1>5, <1>9, <2>2, <2>5
  <2>8. x.elapsed = y.elapsed /\ x.heard = y.heard /\ x.mix = y.mix /\ x.dirty = y.dirty
    BY <2>3, <2>5, <2>6
  <2>9. x = y
    BY <1>1, <2>5, <2>7, <2>8, SameSounds, ZenonT(30)
  <2> QED BY <2>1, <2>9
<1> QED BY <1>12, <1>13

-----------------------------------------------------------------------------
(* The loops: the function each of the two definitions by recursion is of. *)
IsCached(f, s, n) == f = [i \in 0 .. n |-> IF i = 0 THEN s ELSE CachedCycle(f[i - 1])]

IsLiteral(f, s, n) == f = [i \in 0 .. n |-> IF i = 0 THEN s ELSE UncachedCycle(f[i - 1])]

\* f holds the sound after each of n cycles from s.
CyclesRun(f, s, n) ==
    /\ f[0] = s
    /\ \A i \in 1 .. n : f[i] = UncachedCycle(f[i - 1])
    /\ \A i \in 0 .. n : f[i] \in SoundStates

LEMMA CyclesRunThere ==
    ASSUME NEW s \in SoundStates, NEW n \in Nat
    PROVE  \E f : CyclesRun(f, s, n) /\ IsCached(f, s, n) /\ IsLiteral(f, s, n)
<1> DEFINE round == [i \in 1 .. n |-> [x \in SoundStates |-> UncachedCycle(x)]]
<1>1. \A x \in SoundStates : UncachedCycle(x) \in SoundStates
                             /\ CachedCycle(x) = UncachedCycle(x)
  BY CyclesAgree
<1>2. round \in [1 .. n -> [SoundStates -> SoundStates]]
  BY <1>1
<1>3. PICK f \in [0 .. n -> SoundStates] : Iterates(f, s, round, n)
  <2> HIDE DEF round
  <2> QED BY <1>2, IterationExists
<1>4. ASSUME NEW i \in 1 .. n
      PROVE  f[i - 1] \in SoundStates /\ f[i] = UncachedCycle(f[i - 1])
             /\ f[i] = CachedCycle(f[i - 1])
  <2>1. i - 1 \in 0 .. n /\ f[i - 1] \in SoundStates
    BY <1>3
  <2>2. f[i] = round[i][f[i - 1]]
    BY <1>3 DEF Iterates
  <2>3. round[i][f[i - 1]] = UncachedCycle(f[i - 1])
    BY <2>1
  <2> QED BY <1>1, <2>1, <2>2, <2>3
<1>5. f[0] = s
  BY <1>3 DEF Iterates
<1>6. ASSUME NEW i \in 0 .. n
      PROVE  /\ f[i] = IF i = 0 THEN s ELSE CachedCycle(f[i - 1])
             /\ f[i] = IF i = 0 THEN s ELSE UncachedCycle(f[i - 1])
  <2>1. CASE i = 0
    BY <1>5, <2>1
  <2>2. CASE i # 0
    <3>1. i \in 1 .. n
      BY <2>2
    <3> QED BY <1>4, <2>2, <3>1
  <2> QED BY <2>1, <2>2
<1> HIDE DEF round
<1>7. f = [i \in 0 .. n |-> f[i]]
  BY <1>3
<1>8. IsCached(f, s, n) /\ IsLiteral(f, s, n)
  BY <1>6, <1>7 DEF IsCached, IsLiteral
<1>9. CyclesRun(f, s, n)
  BY <1>3, <1>4, <1>5 DEF CyclesRun
<1> QED BY <1>8, <1>9

LEMMA LiteralRuns ==
    ASSUME NEW s \in SoundStates, NEW n \in Nat, NEW f, CyclesRun(f, s, n),
           NEW c, IsLiteral(c, s, n)
    PROVE  c[n] = f[n]
<1>1. ASSUME NEW i \in 0 .. n PROVE c[i] = IF i = 0 THEN s ELSE UncachedCycle(c[i - 1])
  BY DEF IsLiteral
<1> DEFINE S == {i \in 0 .. n : c[i] = f[i]}
<1>2. 0 \in S
  <2>1. 0 \in 0 .. n /\ 0 = 0
    OBVIOUS
  <2>2. c[0] = s
    BY <1>1, <2>1, Zenon
  <2> QED BY <2>1, <2>2 DEF CyclesRun
<1>3. ASSUME NEW i \in 1 .. n, i - 1 \in S PROVE i \in S
  <2>1. i \in 0 .. n /\ i # 0
    OBVIOUS
  <2>2. c[i] = UncachedCycle(c[i - 1])
    BY <1>1, <2>1, Zenon
  <2>3. f[i] = UncachedCycle(f[i - 1])
    BY DEF CyclesRun
  <2>4. c[i - 1] = f[i - 1]
    BY <1>3
  <2>5. c[i] = f[i]
    BY <2>2, <2>3, <2>4, Zenon
  <2> QED BY <2>1, <2>5
<1> HIDE DEF S
<1>4. \A i \in 0 .. n : i \in S
  BY <1>2, <1>3, InductionTo
<1>5. n \in S
  BY <1>4
<1> QED BY <1>5 DEF S

LEMMA CachedRuns ==
    ASSUME NEW s \in SoundStates, NEW n \in Nat, NEW f, CyclesRun(f, s, n),
           NEW c, IsCached(c, s, n)
    PROVE  c[n] = f[n]
<1>1. ASSUME NEW i \in 0 .. n PROVE c[i] = IF i = 0 THEN s ELSE CachedCycle(c[i - 1])
  BY DEF IsCached
<1> DEFINE S == {i \in 0 .. n : c[i] = f[i]}
<1>2. 0 \in S
  <2>1. 0 \in 0 .. n /\ 0 = 0
    OBVIOUS
  <2>2. c[0] = s
    BY <1>1, <2>1, Zenon
  <2> QED BY <2>1, <2>2 DEF CyclesRun
<1>3. ASSUME NEW i \in 1 .. n, i - 1 \in S PROVE i \in S
  <2>1. i \in 0 .. n /\ i # 0 /\ i - 1 \in 0 .. n
    OBVIOUS
  <2>2. c[i] = CachedCycle(c[i - 1])
    BY <1>1, <2>1, Zenon
  <2>3. f[i] = UncachedCycle(f[i - 1]) /\ f[i - 1] \in SoundStates
    BY <2>1 DEF CyclesRun
  <2>4. c[i - 1] = f[i - 1]
    BY <1>3
  <2>5. CachedCycle(f[i - 1]) = UncachedCycle(f[i - 1])
    BY <2>3, CyclesAgree
  <2>6. c[i] = f[i]
    BY <2>2, <2>3, <2>4, <2>5, Zenon
  <2> QED BY <2>1, <2>6
<1> HIDE DEF S
<1>4. \A i \in 0 .. n : i \in S
  BY <1>2, <1>3, InductionTo
<1>5. n \in S
  BY <1>4
<1> QED BY <1>5 DEF S

LEMMA UneventfulRun ==
    ASSUME NEW s \in SoundStates, NEW n \in Nat \ {0}, Uneventful(s, n),
           NEW f, CyclesRun(f, s, n)
    PROVE  f[n] = InOneGo(s, n)
<1> DEFINE S == {i \in 0 .. n : Reached(f[i], s, i)}
<1>1. 0 \in S
  <2>1. f[0] = s
    BY DEF CyclesRun
  <2> QED BY <2>1, NothingReached
<1>2. ASSUME NEW i \in 1 .. n, i - 1 \in S PROVE i \in S
  <2> DEFINE k == i - 1
  <2>1. k \in Nat /\ k < n /\ k + 1 = i /\ k \in 0 .. n /\ i \in 0 .. n
    OBVIOUS
  <2>2. Reached(f[k], s, k)
    BY <1>2
  <2>3. f[k] \in SoundStates
    BY <2>1 DEF CyclesRun
  <2>4. f[i] = UncachedCycle(f[k])
    BY DEF CyclesRun
  <2> HIDE DEF k, S
  <2>5. Reached(UncachedCycle(f[k]), s, k + 1)
    BY <2>1, <2>2, <2>3, ReachedNext
  <2>6. Reached(f[i], s, i)
    BY <2>1, <2>4, <2>5
  <2> QED BY <2>1, <2>6 DEF S
<1> HIDE DEF S
<1>3. \A i \in 0 .. n : i \in S
  BY <1>1, <1>2, InductionTo
<1>4. n \in S
  BY <1>3
<1>5. Reached(f[n], s, n)
  BY <1>4 DEF S
<1> QED BY <1>5, ReachedInOneGo

\* However many cycles a call asks for.
LEMMA SpansAgree ==
    ASSUME NEW s \in SoundStates, NEW n \in Nat
    PROVE  SoundAfter(s, n) = Literal(s, n) /\ SoundAfter(s, n) \in SoundStates
<1>1. PICK f : CyclesRun(f, s, n) /\ IsCached(f, s, n) /\ IsLiteral(f, s, n)
  BY CyclesRunThere
<1> DEFINE c == CHOOSE g : IsCached(g, s, n)
           d == CHOOSE g : IsLiteral(g, s, n)
<1>2. CycleByCycle(s, n) = c[n] /\ Literal(s, n) = d[n]
  BY DEF CycleByCycle, Literal, IsCached, IsLiteral
<1>3. IsCached(c, s, n) /\ IsLiteral(d, s, n)
  BY <1>1
<1> HIDE DEF c, d
<1>4. CycleByCycle(s, n) = f[n] /\ Literal(s, n) = f[n]
  BY <1>1, <1>2, <1>3, LiteralRuns, CachedRuns
<1>5. f[n] \in SoundStates
  BY <1>1 DEF CyclesRun
<1>6. Batches(s, n) => InOneGo(s, n) = f[n]
  <2> SUFFICES ASSUME Batches(s, n) PROVE InOneGo(s, n) = f[n]
    OBVIOUS
  <2>1. n \in Nat \ {0} /\ Uneventful(s, n)
    BY DEF Batches, Uneventful
  <2> QED BY <1>1, <2>1, UneventfulRun
<1> QED BY <1>4, <1>5, <1>6, Zenon DEF SoundAfter

-----------------------------------------------------------------------------
(* The invariant: the mix that is kept is the voltage of the channels.     *)
WavesInv == sound \in SoundStates /\ voices \subseteq {"pulse", "wave", "noise"}

LEMMA PeriodsAreNumbers ==
    /\ PulsePeriods \subseteq Nat /\ WavePeriods \subseteq Nat /\ NoisePeriods \subseteq Nat
    /\ Longest(PulsePeriods) \in Int /\ Longest(WavePeriods) \in Int
    /\ Longest(NoisePeriods) \in Int
BY SoundAssumption DEF Longest

LEMMA ChangeKeeps ==
    ASSUME WavesInv, NEW s \in Sounds, s.pulse.on => s.powered, ChangeSound(s)
    PROVE  WavesInv'
<1> DEFINE yes == TRUE
           none == {}
<1>1. sound' = [s EXCEPT !.dirty = yes, !.mix = none] /\ voices' = voices
  BY Zenon DEF ChangeSound
<1>2. yes \in BOOLEAN /\ none \in Mixes /\ yes
  BY DEF Mixes
<1> HIDE DEF yes, none
<1>3. sound' \in Sounds /\ sound'.dirty = yes /\ sound'.pulse = s.pulse
      /\ sound'.powered = s.powered
  BY <1>1, <1>2 DEF Sounds
<1> QED BY <1>1, <1>2, <1>3 DEF WavesInv, SoundStates, Kept

LEMMA CountedKeeps ==
    ASSUME WavesInv, NEW s \in Sounds, s.pulse.on => s.powered, CountedChange(s)
    PROVE  WavesInv'
BY ChangeKeeps, Zenon DEF CountedChange

LEMMA WrittenVoiceKeeps ==
    ASSUME WavesInv, NEW voice, NEW channel, WriteVoice(voice, channel),
           \/ voice = "pulse" /\ channel \in Pulses
           \/ voice = "wave" /\ channel \in Waves
           \/ voice = "noise" /\ channel \in Noises
    PROVE  WavesInv'
<1> DEFINE s == [sound EXCEPT ![voice] = channel]
<1>1. sound \in Sounds /\ sound.powered
  BY DEF WavesInv, SoundStates, WriteVoice
<1>2. s \in Sounds /\ s.powered = sound.powered
  <2>1. CASE voice = "pulse" /\ channel \in Pulses
    BY <1>1, <2>1 DEF Sounds
  <2>2. CASE voice = "wave" /\ channel \in Waves
    BY <1>1, <2>2 DEF Sounds
  <2>3. CASE voice = "noise" /\ channel \in Noises
    BY <1>1, <2>3 DEF Sounds
  <2> QED BY <2>1, <2>2, <2>3
<1>3. CountedChange(s) \/ ChangeSound(s)
  BY Zenon DEF WriteVoice
<1> HIDE DEF s
<1> QED BY <1>1, <1>2, <1>3, ChangeKeeps, CountedKeeps, Zenon

LEMMA PowerKeeps ==
    ASSUME NEW s, NEW x \in Sounds, s = PoweredOff(x) \/ s = PoweredOn(x)
    PROVE  s \in Sounds /\ (s.pulse.on => s.powered)
<1> DEFINE yes == TRUE
           no == FALSE
           zero == 0
           ones == <<1, 1>>
           P == [on |-> no, dac |-> no, timer |-> zero, reloaded |-> no, step |-> zero,
                 duty |-> zero, written |-> zero, due |-> no, volume |-> zero,
                 initial |-> zero, period |-> Longest(PulsePeriods)]
           W == [on |-> no, dac |-> no, timer |-> zero, odd |-> no, open |-> no,
                 position |-> zero, sample |-> zero, level |-> zero,
                 period |-> Longest(WavePeriods)]
           N == [on |-> no, dac |-> no, timer |-> zero, lfsr |-> ones, volume |-> zero,
                 initial |-> zero, period |-> Longest(NoisePeriods), stopped |-> no]
           a == [x EXCEPT !.powered = no, !.phase = zero, !.dirty = yes, !.route = no,
                          !.pulse = P, !.wave = W, !.noise = N]
           e == RevisionE
           b == [x EXCEPT !.powered = yes, !.phase = zero, !.startup = e]
<1>1. s = a \/ s = b
  BY Zenon DEF PoweredOff, PoweredOn
<1>2. /\ yes \in BOOLEAN /\ no \in BOOLEAN /\ zero \in 0 .. 3 /\ zero \in Int
      /\ ones \in Int \X Int /\ e \in BOOLEAN /\ yes /\ ~no
  BY DEF RevisionE
<1> HIDE DEF yes, no, zero, ones, e
<1>3. P \in Pulses /\ P.on = no
  BY <1>2, PeriodsAreNumbers DEF Pulses
<1>4. W \in Waves /\ N \in Noises
  BY <1>2, PeriodsAreNumbers DEF Waves, Noises
<1> HIDE DEF P, W, N
<1>5. a \in Sounds /\ a.pulse = P
  BY <1>2, <1>3, <1>4 DEF Sounds
<1>6. b \in Sounds /\ b.powered = yes
  BY <1>2 DEF Sounds
<1> QED BY <1>1, <1>2, <1>3, <1>5, <1>6

LEMMA PulseWrites ==
    ASSUME WavesInv, NEW d \in {0, 1}, NEW period \in PulsePeriods, NEW b \in BOOLEAN,
           SetDuty(d) \/ SetPulseLow(period) \/ SetPulseHigh(period, b) \/ TriggerPulse(period, b)
    PROVE  WavesInv'
<1> DEFINE p == sound.pulse
<1>1. p \in Pulses /\ sound.phase \in 0 .. 3 /\ period \in Int /\ d \in Int
  BY PeriodsAreNumbers DEF WavesInv, SoundStates, Sounds
<1>2. /\ p.on \in BOOLEAN /\ p.dac \in BOOLEAN /\ p.duty \in Int /\ p.written \in Int
      /\ p.due \in BOOLEAN /\ p.initial \in Int /\ p.timer \in Int
  BY <1>1 DEF Pulses
<1>3. ASSUME NEW high \in BOOLEAN, NEW q \in Pulses PROVE Retimed(q, high) \in Pulses
  <2> DEFINE t == q.period - (IF LatchesPhase /\ sound.startup THEN sound.phase ELSE 0)
  <2>1. t \in Int
    BY <1>1, <1>3 DEF Pulses
  <2>2. Retimed(q, high) \in {q, [q EXCEPT !.timer = t]}
    BY DEF Retimed
  <2> HIDE DEF t
  <2>3. [q EXCEPT !.timer = t] \in Pulses
    BY <1>3, <2>1 DEF Pulses
  <2> QED BY <1>3, <2>2, <2>3
<1>4. CASE SetDuty(d)
  <2> DEFINE u == IF sound.pulse.on THEN p.duty ELSE d
             q == [p EXCEPT !.written = d, !.due = p.on, !.duty = u]
  <2>1. WriteVoice("pulse", q)
    BY <1>4 DEF SetDuty
  <2>2. u \in Int
    BY <1>1, <1>2
  <2> HIDE DEF u
  <2>3. q \in Pulses
    BY <1>1, <1>2, <2>2 DEF Pulses
  <2> QED BY <2>1, <2>3, WrittenVoiceKeeps
<1>5. CASE SetPulseLow(period)
  <2> DEFINE q == [p EXCEPT !.period = period]
  <2>1. q \in Pulses
    BY <1>1 DEF Pulses
  <2>2. WriteVoice("pulse", Retimed(q, FALSE))
    BY <1>5 DEF SetPulseLow
  <2> HIDE DEF q
  <2> QED BY <1>3, <2>1, <2>2, WrittenVoiceKeeps
<1>6. CASE SetPulseHigh(period, b)
  <2> DEFINE o == p.on /\ ~b
             q == [p EXCEPT !.period = period, !.on = o]
  <2>1. o \in BOOLEAN
    BY <1>2
  <2>2. WriteVoice("pulse", Retimed(q, TRUE))
    BY <1>6 DEF SetPulseHigh
  <2> HIDE DEF o
  <2>3. q \in Pulses
    BY <1>1, <2>1 DEF Pulses
  <2> HIDE DEF q
  <2> QED BY <1>3, <2>2, <2>3, WrittenVoiceKeeps
<1>7. CASE TriggerPulse(period, b)
  <2> DEFINE o == p.dac /\ ~b
             u == IF p.on THEN p.duty ELSE p.written
             f == p.due /\ p.on
             t == Startup(p, period)
             no == FALSE
             q == [p EXCEPT !.period = period, !.on = o, !.duty = u, !.due = f, !.timer = t,
                            !.reloaded = no, !.volume = p.initial]
  <2>1. WriteVoice("pulse", q)
    BY <1>7 DEF TriggerPulse
  <2>2. o \in BOOLEAN /\ u \in Int /\ f \in BOOLEAN /\ no \in BOOLEAN
    BY <1>2
  <2>3. t \in Int
    <3> DEFINE base == period + (IF RevisionE THEN 0 ELSE p.timer % 4)
               cycled == RevisionE /\ sound.startup
               delay == IF ~cycled THEN 5 ELSE IF ~p.on THEN 8 ELSE IF LatchesPhase THEN 4 ELSE 1
               align == IF period >= LongPeriod THEN 4 ELSE 2
               wait == (4 - sound.phase) % 4
    <3>1. base \in Int /\ delay \in Int /\ align \in Int /\ wait \in Int
      BY <1>1, <1>2
    <3>2. t = IF cycled /\ (~p.on \/ LatchesPhase) THEN base + delay + wait
              ELSE IF ModernCgb /\ ~p.on THEN base + delay - align
              ELSE base + delay
      BY Zenon DEF Startup
    <3> HIDE DEF base, delay, align, wait, cycled, t
    <3> QED BY <3>1, <3>2
  <2> HIDE DEF o, u, f, t, no
  <2>4. q \in Pulses
    BY <1>1, <1>2, <2>2, <2>3 DEF Pulses
  <2> QED BY <2>1, <2>4, WrittenVoiceKeeps
<1> QED BY <1>4, <1>5, <1>6, <1>7

LEMMA WaveWrites ==
    ASSUME WavesInv, NEW dac \in BOOLEAN, NEW level \in Volumes, NEW period \in WavePeriods,
           SetWaveDac(dac) \/ SetWaveLevel(level) \/ SetWavePeriod(period, dac)
             \/ TriggerWave(period)
    PROVE  WavesInv'
<1> DEFINE w == sound.wave
           o == w.on /\ dac
           e == w.on /\ ~dac
           t == period + 3
           zero == 0
           c == CgbSound
<1>1. /\ w \in Waves /\ w.dac \in BOOLEAN /\ o \in BOOLEAN /\ e \in BOOLEAN /\ period \in Int
      /\ level \in Int /\ t \in Int /\ zero \in Int /\ c \in BOOLEAN
  BY PeriodsAreNumbers DEF WavesInv, SoundStates, Sounds, Waves, Volumes, CgbSound
<1>2. \/ WriteVoice("wave", [w EXCEPT !.dac = dac, !.on = o])
      \/ WriteVoice("wave", [w EXCEPT !.level = level])
      \/ WriteVoice("wave", [w EXCEPT !.period = period, !.on = e])
      \/ WriteVoice("wave", [w EXCEPT !.period = period, !.on = w.dac, !.timer = t,
                                      !.position = zero, !.open = c])
  BY DEF SetWaveDac, SetWaveLevel, SetWavePeriod, TriggerWave
<1> HIDE DEF o, e, t, zero, c
<1>3. /\ [w EXCEPT !.dac = dac, !.on = o] \in Waves
      /\ [w EXCEPT !.level = level] \in Waves
      /\ [w EXCEPT !.period = period, !.on = e] \in Waves
      /\ [w EXCEPT !.period = period, !.on = w.dac, !.timer = t, !.position = zero,
                   !.open = c] \in Waves
  BY <1>1 DEF Waves
<1> QED BY <1>2, <1>3, WrittenVoiceKeeps

LEMMA NoiseWrites ==
    ASSUME WavesInv, NEW period \in NoisePeriods, NEW stopped \in BOOLEAN,
           SetNoise(period, stopped) \/ TriggerNoise
    PROVE  WavesInv'
<1> DEFINE v == sound.noise
           delay == IF CgbSound /\ ~ModernCgb THEN 4
                    ELSE IF RevisionE /\ sound.startup THEN 1 ELSE 0
           t == v.period + delay
           ones == <<1, 1>>
<1>1. /\ v \in Noises /\ v.dac \in BOOLEAN /\ v.initial \in Int /\ period \in Int
      /\ v.period \in Int /\ ones \in Int \X Int
  <2>1. v \in Noises
    BY DEF WavesInv, SoundStates, Sounds
  <2> HIDE DEF v
  <2>2. ones \in Int \X Int
    OBVIOUS
  <2> QED BY <2>1, <2>2, PeriodsAreNumbers DEF Noises
<1>2. t \in Int
  BY <1>1
<1>3. \/ WriteVoice("noise", [v EXCEPT !.period = period, !.stopped = stopped])
      \/ WriteVoice("noise", [v EXCEPT !.on = v.dac, !.lfsr = ones, !.timer = t,
                                       !.volume = v.initial])
  BY Zenon DEF SetNoise, TriggerNoise
<1> HIDE DEF t, ones
<1>4. /\ [v EXCEPT !.period = period, !.stopped = stopped] \in Noises
      /\ [v EXCEPT !.on = v.dac, !.lfsr = ones, !.timer = t, !.volume = v.initial] \in Noises
  BY <1>1, <1>2 DEF Noises
<1> QED BY <1>3, <1>4, WrittenVoiceKeeps

LEMMA EnvelopeWrites ==
    ASSUME WavesInv, NEW voice, NEW dac \in BOOLEAN, NEW level \in Volumes,
           NEW volume \in Volumes, SetEnvelope(voice, dac, level, volume)
    PROVE  WavesInv'
<1>1. level \in Int /\ volume \in Int /\ sound.pulse \in Pulses /\ sound.noise \in Noises
  BY DEF Volumes, WavesInv, SoundStates, Sounds
<1>2. CASE voice = "pulse"
  <2> DEFINE p == sound.pulse
             o == p.on /\ dac
  <2>1. WriteVoice("pulse", [p EXCEPT !.dac = dac, !.on = o, !.initial = level, !.volume = volume])
    BY <1>2 DEF SetEnvelope
  <2>2. o \in BOOLEAN
    BY <1>1 DEF Pulses
  <2> HIDE DEF o
  <2>3. [p EXCEPT !.dac = dac, !.on = o, !.initial = level, !.volume = volume] \in Pulses
    BY <1>1, <2>2 DEF Pulses
  <2> QED BY <2>1, <2>3, WrittenVoiceKeeps
<1>3. CASE voice = "noise"
  <2> DEFINE p == sound.noise
             o == p.on /\ dac
  <2>1. WriteVoice("noise", [p EXCEPT !.dac = dac, !.on = o, !.initial = level, !.volume = volume])
    BY <1>3 DEF SetEnvelope
  <2>2. o \in BOOLEAN
    BY <1>1 DEF Noises
  <2> HIDE DEF o
  <2>3. [p EXCEPT !.dac = dac, !.on = o, !.initial = level, !.volume = volume] \in Noises
    BY <1>1, <2>2 DEF Noises
  <2> QED BY <2>1, <2>3, WrittenVoiceKeeps
<1> QED BY <1>2, <1>3 DEF SetEnvelope

LEMMA SequencerKeeps ==
    ASSUME WavesInv, NEW voice \in voices, NEW ends \in BOOLEAN, NEW volume \in Volumes,
           Sequencer(voice, ends, volume)
    PROVE  WavesInv'
<1>1. /\ sound \in Sounds /\ sound.powered /\ volume \in Int /\ sound.pulse \in Pulses
      /\ sound.wave \in Waves /\ sound.noise \in Noises
      /\ (sound.pulse.on => sound.powered)
  <2>1. sound.powered
    BY Zenon DEF Sequencer
  <2> QED BY <2>1 DEF Volumes, WavesInv, SoundStates, Sounds
<1>2. CASE voice = "wave"
  <2> DEFINE o == sound.wave.on /\ ~ends
             w == [sound.wave EXCEPT !.on = o]
             s == [sound EXCEPT !.wave = w]
  <2>1. CountedChange(s)
    <3>1. CountedChange([sound EXCEPT !.wave.on = @ /\ ~ends])
      BY <1>2, Zenon DEF Sequencer
    <3> QED BY <3>1, Zenon
  <2>2. o \in BOOLEAN
    BY <1>1 DEF Waves
  <2> HIDE DEF o
  <2>3. w \in Waves
    BY <1>1, <2>2 DEF Waves
  <2> HIDE DEF w
  <2>4. s \in Sounds /\ s.powered = sound.powered /\ s.pulse = sound.pulse
    BY <1>1, <2>3 DEF Sounds
  <2> HIDE DEF s
  <2> QED BY <1>1, <2>1, <2>4, CountedKeeps
<1>3. CASE voice = "noise"
  <2> DEFINE o == sound.noise.on /\ ~ends
             w == [sound.noise EXCEPT !.on = o, !.volume = volume]
             s == [sound EXCEPT !.noise = w]
  <2>1. CountedChange(s)
    <3>1. CountedChange([sound EXCEPT !.noise.on = @ /\ ~ends, !.noise.volume = volume])
      BY <1>3, Zenon DEF Sequencer
    <3> QED BY <1>1, <3>1 DEF Sounds, Noises
  <2>2. o \in BOOLEAN
    BY <1>1 DEF Noises
  <2> HIDE DEF o
  <2>3. w \in Noises
    BY <1>1, <2>2 DEF Noises
  <2> HIDE DEF w
  <2>4. s \in Sounds /\ s.powered = sound.powered /\ s.pulse = sound.pulse
    BY <1>1, <2>3 DEF Sounds
  <2> HIDE DEF s
  <2> QED BY <1>1, <2>1, <2>4, CountedKeeps
<1>4. CASE voice = "pulse"
  <2>1. PICK period \in PulsePeriods :
          CountedChange([sound EXCEPT !.pulse.on = @ /\ ~ends, !.pulse.volume = volume,
                                      !.pulse.period = period])
    BY <1>4, Zenon DEF Sequencer
  <2> DEFINE o == sound.pulse.on /\ ~ends
             w == [sound.pulse EXCEPT !.on = o, !.volume = volume, !.period = period]
             s == [sound EXCEPT !.pulse = w]
  <2>2. CountedChange(s)
    BY <1>1, <2>1 DEF Sounds, Pulses
  <2>3. o \in BOOLEAN /\ period \in Int
    BY <1>1, PeriodsAreNumbers DEF Pulses
  <2> HIDE DEF o
  <2>4. w \in Pulses
    BY <1>1, <2>3 DEF Pulses
  <2> HIDE DEF w
  <2>5. s \in Sounds /\ s.powered = sound.powered
    BY <1>1, <2>4 DEF Sounds
  <2> HIDE DEF s
  <2> QED BY <1>1, <2>2, <2>5, CountedKeeps
<1> QED BY <1>2, <1>3, <1>4 DEF WavesInv

LEMMA UnitWrites ==
    ASSUME WavesInv, SetRoute \/ SwitchPower \/ Mute
    PROVE  WavesInv'
<1>1. sound \in Sounds /\ (sound.pulse.on => sound.powered) /\ sound.route \in BOOLEAN
      /\ sound.audible \in BOOLEAN
  BY DEF WavesInv, SoundStates, Kept, Sounds
<1>2. CASE SetRoute
  <2> DEFINE r == ~sound.route
             s == [sound EXCEPT !.route = r]
  <2>1. CountedChange(s)
    BY <1>2, Zenon DEF SetRoute
  <2>2. r \in BOOLEAN
    BY <1>1
  <2> HIDE DEF r
  <2>3. s \in Sounds /\ s.pulse = sound.pulse /\ s.powered = sound.powered
    BY <1>1, <2>2 DEF Sounds
  <2> HIDE DEF s
  <2> QED BY <1>1, <2>1, <2>3, CountedKeeps
<1>3. CASE SwitchPower
  <2> DEFINE s == IF sound.powered THEN PoweredOff(sound) ELSE PoweredOn(sound)
  <2>1. CountedChange(s) /\ (s = PoweredOff(sound) \/ s = PoweredOn(sound))
    BY <1>3, Zenon DEF SwitchPower
  <2> HIDE DEF s
  <2>2. s \in Sounds /\ (s.pulse.on => s.powered)
    BY <1>1, <2>1, PowerKeeps
  <2> QED BY <2>1, <2>2, CountedKeeps
<1>4. CASE Mute
  <2> DEFINE a == ~sound.audible
             zero == 0
             s == [sound EXCEPT !.audible = a, !.elapsed = zero]
  <2>1. CountedChange(s)
    BY <1>4, Zenon DEF Mute
  <2>2. a \in BOOLEAN /\ zero \in Int
    BY <1>1
  <2> HIDE DEF a, zero
  <2>3. s \in Sounds /\ s.pulse = sound.pulse /\ s.powered = sound.powered
    BY <1>1, <2>2 DEF Sounds
  <2> HIDE DEF s
  <2> QED BY <1>1, <2>1, <2>3, CountedKeeps
<1> QED BY <1>2, <1>3, <1>4

LEMMA TickKeepsWaves ==
    ASSUME WavesInv, NEW n \in SoundSpans, TickSound(n)
    PROVE  WavesInv'
<1> DEFINE s == SoundAfter(sound, n)
           h == <<>>
<1>1. sound' = [s EXCEPT !.heard = h] /\ voices' = voices
  BY Zenon DEF TickSound
<1>2. s \in SoundStates
  <2>1. n \in Nat /\ sound \in SoundStates
    BY SoundAssumption DEF WavesInv
  <2> QED BY <2>1, SpansAgree
<1>3. h \in Seq([mix : Mixes, sample : BOOLEAN])
  OBVIOUS
<1> HIDE DEF s, h
<1>4. /\ sound' \in Sounds /\ sound'.powered = s.powered /\ sound'.dirty = s.dirty
      /\ sound'.mix = s.mix /\ sound'.route = s.route /\ sound'.pulse = s.pulse
      /\ sound'.wave = s.wave /\ sound'.noise = s.noise
  BY <1>1, <1>2, <1>3 DEF SoundStates, Sounds
<1>5. Voltage(sound') = Voltage(s)
  <2>1. SameHeard(sound', s)
    BY <1>4 DEF SameHeard
  <2> QED BY <2>1, SameVoltage
<1>6. sound' \in SoundStates
  BY <1>2, <1>4, <1>5 DEF SoundStates, Kept
<1> QED BY <1>1, <1>6 DEF WavesInv

LEMMA WavesInvInit == SoundInit => WavesInv
<1> SUFFICES ASSUME SoundInit PROVE WavesInv
  OBVIOUS
<1> DEFINE yes == TRUE
           no == FALSE
           zero == 0
           one == 1
           ones == <<1, 1>>
           none == {}
           nothing == <<>>
           P == [on |-> no, dac |-> no, timer |-> zero, reloaded |-> no, step |-> zero,
                 duty |-> zero, written |-> zero, due |-> no, volume |-> zero,
                 initial |-> zero, period |-> Longest(PulsePeriods)]
           W == [on |-> no, dac |-> no, timer |-> zero, odd |-> no, open |-> no,
                 position |-> zero, sample |-> zero, level |-> zero,
                 period |-> Longest(WavePeriods)]
           N == [on |-> no, dac |-> no, timer |-> zero, lfsr |-> ones, volume |-> zero,
                 initial |-> zero, period |-> Longest(NoisePeriods), stopped |-> no]
           r == [powered |-> no, phase |-> zero, startup |-> no, audible |-> yes,
                 elapsed |-> zero, route |-> no, dirty |-> yes, mix |-> none,
                 heard |-> nothing, pulse |-> none, wave |-> none, noise |-> none]
           q == [r EXCEPT !.powered = no, !.phase = zero, !.dirty = yes, !.route = no,
                          !.pulse = P, !.wave = W, !.noise = N]
           Q == [P EXCEPT !.on = yes, !.dac = yes, !.initial = one, !.duty = one,
                          !.written = one]
           b == [q EXCEPT !.powered = yes, !.route = yes, !.pulse = Q]
<1>1. NoSound = q
  BY Zenon DEF NoSound, PoweredOff
<1>2. /\ yes \in BOOLEAN /\ no \in BOOLEAN /\ zero \in 0 .. 3 /\ zero \in Int /\ one \in Int
      /\ ones \in Int \X Int /\ yes
  OBVIOUS
<1>3. none \in Mixes /\ nothing \in Seq([mix : Mixes, sample : BOOLEAN])
  BY DEF Mixes
<1>4. Booted = [q EXCEPT !.powered = yes, !.route = yes, !.pulse.on = yes, !.pulse.dac = yes,
                         !.pulse.initial = one, !.pulse.duty = one, !.pulse.written = one]
  BY <1>1, Zenon DEF Booted
<1> HIDE DEF yes, no, zero, one, ones, none, nothing
<1>5. P \in Pulses /\ W \in Waves /\ N \in Noises
  BY <1>2, PeriodsAreNumbers DEF Pulses, Waves, Noises
<1> HIDE DEF P, W, N
<1>6. Q \in Pulses
  BY <1>2, <1>5 DEF Pulses
<1>7. q \in Sounds /\ q.pulse = P /\ q.dirty = yes
  BY <1>2, <1>3, <1>5 DEF Sounds
<1> HIDE DEF q
<1>8. Booted = b
  BY <1>4, <1>5, <1>7, ZenonT(30) DEF Sounds, Pulses
<1> HIDE DEF Q
<1>9. b \in Sounds /\ b.powered = yes /\ b.dirty = yes
  BY <1>2, <1>6, <1>7 DEF Sounds
<1>10. b \in SoundStates
  BY <1>2, <1>9 DEF SoundStates, Kept
<1> HIDE DEF b
<1> DEFINE o == PoweredOff(Booted)
           u == PoweredOn(o)
<1>11. o \in Sounds
  BY <1>8, <1>9, PowerKeeps
<1>12. o.dirty
  <2> HIDE DEF b
  <2> QED BY <1>8, <1>9 DEF PoweredOff, Sounds
<1> HIDE DEF o
<1>13. u \in Sounds /\ (u.pulse.on => u.powered)
  BY <1>11, PowerKeeps
<1>14. u.dirty
  BY <1>11, <1>12 DEF PoweredOn, Sounds
<1> HIDE DEF u
<1>15. u \in SoundStates
  BY <1>13, <1>14 DEF SoundStates, Kept
<1>16. sound \in {u, b}
  BY <1>8 DEF SoundInit, u, o
<1>17. voices \subseteq {"pulse", "wave", "noise"}
  BY SoundAssumption DEF SoundInit
<1> QED BY <1>10, <1>15, <1>16, <1>17 DEF WavesInv

LEMMA WavesInvStep == WavesInv /\ [SoundNext]_soundVars => WavesInv'
<1> SUFFICES ASSUME WavesInv, [SoundNext]_soundVars PROVE WavesInv'
  OBVIOUS
<1>1. ASSUME NEW n \in SoundSpans, TickSound(n) PROVE WavesInv'
  BY <1>1, TickKeepsWaves
<1>2. ASSUME NEW d \in {0, 1}, SetDuty(d) PROVE WavesInv'
  <2>1. PICK period : period \in PulsePeriods
    BY SoundAssumption
  <2>2. FALSE \in BOOLEAN
    OBVIOUS
  <2> QED BY <1>2, <2>1, <2>2, PulseWrites, Zenon
<1>3. ASSUME NEW voice \in voices, NEW dac \in BOOLEAN, NEW level \in Volumes,
             NEW volume \in Volumes, SetEnvelope(voice, dac, level, volume)
      PROVE  WavesInv'
  BY <1>3, EnvelopeWrites, Zenon
<1>4. ASSUME NEW period \in PulsePeriods, NEW b \in BOOLEAN,
             SetPulseLow(period) \/ SetPulseHigh(period, b) \/ TriggerPulse(period, b)
      PROVE  WavesInv'
  <2>1. 0 \in {0, 1}
    OBVIOUS
  <2> QED BY <1>4, <2>1, PulseWrites, Zenon
<1>5. ASSUME NEW dac \in BOOLEAN, SetWaveDac(dac) PROVE WavesInv'
  <2>1. PICK period : period \in WavePeriods
    BY SoundAssumption
  <2>2. 0 \in Volumes
    BY DEF Volumes
  <2> QED BY <1>5, <2>1, <2>2, WaveWrites, Zenon
<1>6. ASSUME NEW level \in Volumes, SetWaveLevel(level) PROVE WavesInv'
  <2>1. PICK period : period \in WavePeriods
    BY SoundAssumption
  <2>2. FALSE \in BOOLEAN
    OBVIOUS
  <2> QED BY <1>6, <2>1, <2>2, WaveWrites, Zenon
<1>7. ASSUME NEW period \in WavePeriods, NEW ends \in BOOLEAN,
             SetWavePeriod(period, ends) \/ TriggerWave(period)
      PROVE  WavesInv'
  <2>1. 0 \in Volumes
    BY DEF Volumes
  <2> QED BY <1>7, <2>1, WaveWrites, Zenon
<1>8. ASSUME NEW period \in NoisePeriods, NEW stopped \in BOOLEAN, SetNoise(period, stopped)
      PROVE  WavesInv'
  BY <1>8, NoiseWrites, Zenon
<1>9. ASSUME TriggerNoise PROVE WavesInv'
  <2>1. PICK period : period \in NoisePeriods
    BY SoundAssumption
  <2>2. FALSE \in BOOLEAN
    OBVIOUS
  <2> QED BY <1>9, <2>1, <2>2, NoiseWrites, Zenon
<1>10. ASSUME SetRoute \/ SwitchPower \/ Mute PROVE WavesInv'
  BY <1>10, UnitWrites
<1>11. ASSUME NEW voice \in voices, NEW ends \in BOOLEAN, NEW volume \in Volumes,
              Sequencer(voice, ends, volume)
       PROVE  WavesInv'
  BY <1>11, SequencerKeeps, Zenon
<1>12. ASSUME UNCHANGED soundVars PROVE WavesInv'
  BY <1>12 DEF soundVars, WavesInv
<1>13. ASSUME NEW period \in WavePeriods, TriggerWave(period) PROVE WavesInv'
  <2>1. FALSE \in BOOLEAN
    OBVIOUS
  <2> QED BY <1>7, <1>13, <2>1, Zenon
<1> QED BY <1>1, <1>2, <1>3, <1>4, <1>5, <1>6, <1>7, <1>8, <1>9, <1>10, <1>11, <1>12, <1>13,
           ZenonT(60)
        DEF SoundNext

(* The invariant of the sound unit: while a mix is not marked as out of    *)
(* date it is the voltage of the channels as they are, and no square plays *)
(* with the power off.                                                     *)
THEOREM WavesInvariant == SoundSpec => []WavesInv
<1> QED BY WavesInvInit, WavesInvStep, PTL DEF SoundSpec

(* Apu::tick() hears, in every cycle of a call of any length, what it      *)
(* would with no span run in one go and no mix kept from cycle to cycle.   *)
THEOREM ShortcutsHeard == SoundSpec => []ShortcutsAreInaudible
<1>1. WavesInv => ShortcutsAreInaudible
  <2> SUFFICES ASSUME WavesInv, NEW n \in SoundSpans
               PROVE  SoundAfter(sound, n) = Literal(sound, n)
    BY DEF ShortcutsAreInaudible
  <2>1. n \in Nat /\ sound \in SoundStates
    BY SoundAssumption DEF WavesInv
  <2> QED BY <2>1, SpansAgree
<1> QED BY <1>1, WavesInvariant, PTL

-----------------------------------------------------------------------------
(* The scheduler.                                                          *)
USE SchedulerAssumption DEF SchedulerAssumption

IInv == TypeOK /\ Balanced

(* Only a console that is not ahead, and is below the target, has a turn.  *)
LEMMA TurnIsFair ==
    ASSUME TypeOK, NEW c \in Consoles, Turn(c)
    PROVE  slicing /\ ran[c] < Slice /\ ran[c] <= ran[Peer(c)]
<1>1. CASE c = First
  BY <1>1 DEF Turn, Consoles, Peer, TypeOK
<1>2. CASE c = Second
  <2>1. Peer(c) = First /\ c # First
    BY <1>2 DEF Peer
  <2>2. ran[First] \in Int /\ ran[Second] \in Int
    BY DEF TypeOK, Consoles
  <2>3. slicing /\ ran[Second] < Slice /\ ~(ran[First] <= ran[Second] /\ ran[First] < Slice)
    BY <1>2, <2>1 DEF Turn
  <2> QED
    BY <1>2, <2>1, <2>2, <2>3
<1> QED
  BY <1>1, <1>2 DEF Consoles

(* One step of a console keeps types and balance.                          *)
LEMMA StepKeepsBalance ==
    ASSUME IInv, NEW c \in Consoles, NEW clocks \in Ticks, Step(c, clocks)
    PROVE  IInv'
<1>1. /\ slicing /\ slicing' = slicing
      /\ ran' = [ran EXCEPT ![c] = @ + clocks]
      /\ ran[c] < Slice /\ ran[c] <= ran[Peer(c)]
  BY TurnIsFair DEF IInv, Step
<1>2. clocks \in 1..LongestStep /\ Peer(c) \in Consoles /\ Peer(c) # c
  BY DEF Consoles, Peer
<1>3. Consoles = {c, Peer(c)}
  BY DEF Consoles, Peer
<1>4. /\ ran[c] \in 0..(Slice + LongestStep - 1)
      /\ ran[Peer(c)] \in 0..(Slice + LongestStep - 1)
  BY <1>2 DEF IInv, TypeOK
<1>5. ran'[c] = ran[c] + clocks /\ ran'[Peer(c)] = ran[Peer(c)]
  BY <1>1, <1>2 DEF IInv, TypeOK
<1>6. ran'[c] \in 0..(Slice + LongestStep - 1)
  BY <1>1, <1>2, <1>4, <1>5
<1>7. TypeOK'
  BY <1>1, <1>6, <1>2, <1>4 DEF IInv, TypeOK
<1>8. /\ ran[c] <= ran[Peer(c)] + LongestStep
      /\ ran[Peer(c)] <= ran[c] + LongestStep
      /\ Peer(Peer(c)) = c
  BY <1>2 DEF IInv, Balanced, Peer, Consoles
<1>9. /\ ran'[c] <= ran'[Peer(c)] + LongestStep
      /\ ran'[Peer(c)] <= ran'[c] + LongestStep
  BY <1>1, <1>2, <1>4, <1>5, <1>8
<1>10. Balanced'
  BY <1>3, <1>8, <1>9 DEF Balanced
<1> QED
  BY <1>7, <1>10 DEF IInv

(* Where a slice starts, both are at zero.                                 *)
LEMMA StartIsBalanced ==
    /\ NoCycles \in [Consoles -> 0..(Slice + LongestStep - 1)]
    /\ \A c \in Consoles : NoCycles[c] <= NoCycles[Peer(c)] + LongestStep
    /\ ran = NoCycles /\ slicing \in BOOLEAN => IInv
<1>1. 0 \in 0..(Slice + LongestStep - 1) /\ 0 <= 0 + LongestStep
  OBVIOUS
<1>2. \A c \in Consoles : Peer(c) \in Consoles
  BY DEF Peer, Consoles
<1>3. NoCycles \in [Consoles -> 0..(Slice + LongestStep - 1)]
  BY <1>1 DEF NoCycles
<1>4. \A c \in Consoles : NoCycles[c] <= NoCycles[Peer(c)] + LongestStep
  BY <1>1, <1>2 DEF NoCycles
<1> QED
  BY <1>3, <1>4 DEF IInv, TypeOK, Balanced

(* Types and balance are inductive: a step needs only the turn's guard.    *)
THEOREM SchedulerInvariant == Spec => []IInv
<1>1. Init => IInv
  BY StartIsBalanced DEF Init
<1>2. IInv /\ [Next]_vars => IInv'
  <2> SUFFICES ASSUME IInv, [Next]_vars PROVE IInv'
    OBVIOUS
  <2>1. CASE Begin
    <3>1. slicing' = TRUE /\ ran' = NoCycles
      BY <2>1 DEF Begin
    <3> QED
      BY <3>1, StartIsBalanced DEF IInv, TypeOK, Balanced
  <2>2. CASE End
    <3>1. slicing' = FALSE /\ ran' = NoCycles
      BY <2>2 DEF End
    <3> QED
      BY <3>1, StartIsBalanced DEF IInv, TypeOK, Balanced
  <2>3. CASE \E c \in Consoles, clocks \in Ticks : Step(c, clocks)
    BY <2>3, StepKeepsBalance
  <2>4. CASE UNCHANGED vars
    BY <2>4 DEF vars, IInv, TypeOK, Balanced
  <2> QED
    BY <2>1, <2>2, <2>3, <2>4 DEF Next
<1> QED
  BY <1>1, <1>2, PTL DEF Spec

(* No console is ever ahead of the other by more than one step, and none   *)
(* overshoots advance_balanced's target by as much as a step.              *)
THEOREM SchedulerBalance == Spec => [](TypeOK /\ Balanced)
BY SchedulerInvariant, PTL DEF IInv

(* While a console is below the target, one of the loop's first two        *)
(* branches is open: advance_balanced never gives up early.                *)
THEOREM SchedulerRuns == Spec => []SomebodyRuns
<1>1. IInv => SomebodyRuns
  <2> SUFFICES ASSUME IInv, slicing, NEW c \in Consoles, ran[c] < Slice
               PROVE  \E d \in Consoles : Turn(d)
    BY DEF SomebodyRuns
  <2>1. ran[First] \in Int /\ ran[Second] \in Int
    BY DEF IInv, TypeOK, Consoles
  <2>2. CASE ran[First] < Slice /\ ran[First] <= ran[Second]
    BY <2>2 DEF Turn, Consoles
  <2>3. CASE ~(ran[First] < Slice /\ ran[First] <= ran[Second])
    <3>1. ran[Second] < Slice
      BY <2>1, <2>3 DEF Consoles
    <3>2. Turn(Second)
      BY <2>3, <3>1 DEF Turn
    <3> QED
      BY <3>2 DEF Consoles
  <2> QED
    BY <2>2, <2>3
<1> QED
  BY <1>1, SchedulerInvariant, PTL
=============================================================================
