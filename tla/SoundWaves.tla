------------------------------ MODULE SoundWaves ------------------------------
(***************************************************************************)
(* The sound unit's waveforms and its mixer (src/src/apu.cpp): a square    *)
(* channel, the wave channel and the noise channel, the voltage they are   *)
(* mixed to and the samples made of it. tick() takes two shortcuts: a span *)
(* in which no channel changes is run in one go, and the mix is kept until *)
(* something marks it as out of date. Volumes, duties and frequencies are   *)
(* few, the noise register has two bits, and what only PCM12 shows is left *)
(* out; of the frame sequencer there is what it may do to a channel, and   *)
(* SoundLength has the reason.                                             *)
(***************************************************************************)
EXTENDS Integers, Sequences

CONSTANTS
    Boards,        \* hardware models
    VoiceSets,     \* the sets of channels a behaviour may be about
    PulsePeriods,  \* multiples of four
    LongPeriod,    \* the period from which on a startup is aligned to four clocks
    WavePeriods, NoisePeriods,
    Rate, MasterClock,   \* a sample is made of every MasterClock / Rate cycles
    SoundSpans,    \* bound: the cycles a call of tick() may be given
    MaxWrites      \* bound: writes and sequencer events while a channel plays

ASSUME SoundAssumption ==
    /\ VoiceSets \subseteq SUBSET {"pulse", "wave", "noise"}
    /\ \A periods \in {PulsePeriods, WavePeriods, NoisePeriods} :
          periods \subseteq Nat /\ \E p \in periods : \A q \in periods : q <= p
    /\ Rate \in Nat /\ MasterClock \in Nat /\ SoundSpans \subseteq Nat

VARIABLES model, voices, sound, writes

soundVars == <<model, voices, sound, writes>>

CgbSound       == model # "dmg"
ModernCgb == model \in {"cgb", "cgb_e", "agb"}
RevisionE == model \in {"cgb_e", "agb"}
LatchesPhase   == model = "cgb_e"

Longest(periods) == CHOOSE p \in periods : \A q \in periods : q <= p

\* Channels and registers as power_off() leaves them.
PoweredOff(s) ==
    [s EXCEPT
        !.powered = FALSE, !.phase = 0, !.dirty = TRUE, !.route = FALSE,
        !.pulse = [on |-> FALSE, dac |-> FALSE, timer |-> 0, reloaded |-> FALSE, step |-> 0,
                   duty |-> 0, written |-> 0, due |-> FALSE, volume |-> 0, initial |-> 0,
                   period |-> Longest(PulsePeriods)],
        !.wave  = [on |-> FALSE, dac |-> FALSE, timer |-> 0, odd |-> FALSE, open |-> FALSE,
                   position |-> 0, sample |-> 0, level |-> 0, period |-> Longest(WavePeriods)],
        !.noise = [on |-> FALSE, dac |-> FALSE, timer |-> 0, lfsr |-> <<1, 1>>, volume |-> 0,
                   initial |-> 0, period |-> Longest(NoisePeriods), stopped |-> FALSE]]

PoweredOn(s) == [s EXCEPT !.powered = TRUE, !.phase = 0, !.startup = RevisionE]

-----------------------------------------------------------------------------
(* The mixer. A converter that is off gives no voltage, {}.                *)
Output(channel, high, volume) ==
    IF ~channel.dac THEN {} ELSE {IF channel.on /\ high THEN volume ELSE 0}

Voltage(s) ==
    [pulse |-> Output(s.pulse, s.pulse.step # s.pulse.duty, s.pulse.volume),
     wave  |-> Output(s.wave, s.wave.level # 0, s.wave.sample),
     noise |-> Output(s.noise, s.noise.lfsr[1] = 0, s.noise.volume),
     route |-> s.route]

Refreshed(s) ==
    IF s.dirty THEN [s EXCEPT !.mix = Voltage(s), !.dirty = FALSE] ELSE s

Integrated(s) ==
    [s EXCEPT !.elapsed = IF @ + Rate < MasterClock THEN @ + Rate ELSE @ + Rate - MasterClock,
              !.heard = Append(@, [mix |-> s.mix, sample |-> s.elapsed + Rate >= MasterClock])]

-----------------------------------------------------------------------------
(* One clock of a channel.                                                 *)
Latched(s) == LatchesPhase /\ s.startup /\ s.phase # 0

TickPulse(s) ==
    LET p    == s.pulse
        ends == p.timer <= 1
        take == p.timer = 1 /\ p.due
    IN  IF ~p.on THEN s
        ELSE [s EXCEPT
                !.dirty = @ \/ ends,
                !.pulse = [p EXCEPT !.duty = IF take THEN p.written ELSE p.duty,
                                    !.due = p.due /\ ~take,
                                    !.timer = IF ends THEN p.period ELSE p.timer - 1,
                                    !.step = IF ends THEN 1 - p.step ELSE p.step,
                                    !.reloaded = ends \/ (p.reloaded /\ Latched(s))]]

TickWave(s) ==
    LET w    == s.wave
        next == 1 - w.position
    IN  IF ~w.on THEN s
        ELSE IF ~w.odd THEN [s EXCEPT !.wave.odd = TRUE]
        ELSE IF w.timer > 0
          THEN [s EXCEPT !.wave = [w EXCEPT !.odd = FALSE, !.open = FALSE, !.timer = w.timer - 1]]
        ELSE [s EXCEPT !.dirty = TRUE,
                       !.wave = [w EXCEPT !.odd = FALSE, !.open = TRUE, !.timer = w.period,
                                          !.position = next, !.sample = next]]

TickNoise(s) ==
    LET n == s.noise
    IN  IF ~n.on \/ n.stopped THEN s
        ELSE IF n.timer > 1 THEN [s EXCEPT !.noise.timer = @ - 1]
        ELSE [s EXCEPT !.dirty = TRUE,
                       !.noise = [n EXCEPT !.timer = n.period,
                                           !.lfsr = <<n.lfsr[2], (n.lfsr[1] + n.lfsr[2]) % 2>>]]

Phased(s, n) ==
    IF s.powered /\ RevisionE THEN [s EXCEPT !.phase = (@ + n) % 4] ELSE s

Channels(s) == TickNoise(TickWave(TickPulse(Phased(s, 1))))

CachedCycle(s) == IF s.audible THEN Integrated(Refreshed(Channels(s))) ELSE Channels(s)

\* debug_set_mixer_cache_enabled(false): the mix is computed in every cycle.
UncachedCycle(s) ==
    IF s.audible THEN Integrated(Refreshed([Channels(s) EXCEPT !.dirty = TRUE]))
    ELSE Channels(s)

-----------------------------------------------------------------------------
(* tick() over a span of n cycles.                                         *)
WaveClocks(s, n) == n \div 2 + (IF s.wave.odd THEN n % 2 ELSE 0)

BoundaryWithin(s, n) == s.audible /\ s.elapsed + n * Rate >= MasterClock

BatchesAnyWave(s, n) ==
    /\ n > 1 /\ ~BoundaryWithin(s, n)
    /\ s.pulse.on => s.pulse.timer > n
    /\ s.wave.on => WaveClocks(s, n) <= s.wave.timer + 1
    /\ s.noise.on /\ ~s.noise.stopped => s.noise.timer > n

Batches(s, n) ==
    /\ n > 1 /\ ~BoundaryWithin(s, n)
    /\ s.pulse.on => s.pulse.timer > n
    /\ s.wave.on => WaveClocks(s, n) <= s.wave.timer
    /\ s.noise.on /\ ~s.noise.stopped => s.noise.timer > n

\* The countdowns of n cycles without a transition.
CountedDown(s, n) ==
    LET p == s.pulse
        w == s.wave
        v == s.noise
        latched == LatchesPhase /\ s.startup /\ s.phase + n < 4
    IN  [Phased(s, n) EXCEPT
            !.pulse = IF ~p.on THEN p
                      ELSE [p EXCEPT !.timer = p.timer - n, !.reloaded = p.reloaded /\ latched],
            !.wave  = IF ~w.on THEN w
                      ELSE [w EXCEPT !.odd = w.odd # (n % 2 = 1),
                                     !.timer = w.timer - WaveClocks(s, n),
                                     !.open = w.open /\ WaveClocks(s, n) = 0],
            !.noise = IF v.on /\ ~v.stopped THEN [v EXCEPT !.timer = v.timer - n] ELSE v]

InOneGo(s, n) ==
    LET counted == CountedDown(s, n)
        mixed   == Refreshed(counted)
        voltage == [mix |-> mixed.mix, sample |-> FALSE]
    IN  IF ~s.audible THEN counted
        ELSE [mixed EXCEPT !.elapsed = @ + n * Rate, !.heard = @ \o [i \in 1..n |-> voltage]]

CycleByCycle(s, n) ==
    LET after[i \in 0..n] == IF i = 0 THEN s ELSE CachedCycle(after[i - 1]) IN after[n]

SoundAfter(s, n) == IF Batches(s, n) THEN InOneGo(s, n) ELSE CycleByCycle(s, n)

Literal(s, n) ==
    LET after[i \in 0..n] == IF i = 0 THEN s ELSE UncachedCycle(after[i - 1]) IN after[n]

-----------------------------------------------------------------------------
(* Register writes. What the frame sequencer decides is left open: a write *)
(* to NRx4 may count a length down to its end, a trigger may overflow the  *)
(* sweep.                                                                  *)
Volumes == {0, 1}

NoSound ==
    PoweredOff([powered |-> FALSE, phase |-> 0, startup |-> FALSE, audible |-> TRUE,
         elapsed |-> 0, route |-> FALSE, dirty |-> TRUE, mix |-> {}, heard |-> <<>>,
         pulse |-> {}, wave |-> {}, noise |-> {}])

\* initialize_post_boot()
Booted ==
    [NoSound EXCEPT !.powered = TRUE, !.route = TRUE,
                  !.pulse.on = TRUE, !.pulse.dac = TRUE, !.pulse.initial = 1,
                  !.pulse.duty = 1, !.pulse.written = 1]

SoundInit ==
    /\ model \in Boards /\ voices \in VoiceSets
    /\ sound \in {PoweredOn(PoweredOff(Booted))}
                    \union (IF "pulse" \in voices THEN {Booted} ELSE {})
    /\ writes = 0

\* A mix that is out of date is of no use any more.
ChangeSound(s) ==
    /\ sound' = [s EXCEPT !.dirty = TRUE, !.mix = {}]
    /\ UNCHANGED <<model, voices>>

CountedChange(s) == writes < MaxWrites /\ writes' = writes + 1 /\ ChangeSound(s)

\* The writes that start a channel are not counted.
WriteVoice(voice, channel) ==
    /\ voice \in voices /\ sound.powered
    /\ LET s == [sound EXCEPT ![voice] = channel]
       IN  IF sound[voice].on THEN CountedChange(s) ELSE ChangeSound(s) /\ UNCHANGED writes

SetDuty(d) ==
    WriteVoice("pulse", [sound.pulse EXCEPT !.written = d, !.due = sound.pulse.on,
                                       !.duty = IF sound.pulse.on THEN @ ELSE d])

SetEnvelope(voice, dac, level, volume) ==
    /\ voice \in {"pulse", "noise"}
    /\ volume # sound[voice].volume => ModernCgb /\ dac /\ sound[voice].on
    /\ ~dac => level = 0
    /\ WriteVoice(voice, [sound[voice] EXCEPT !.dac = dac, !.on = @ /\ dac,
                                         !.initial = level, !.volume = volume])

\* update_pulse_frequency()
Retimed(p, high) ==
    LET window == LatchesPhase /\ sound.startup
    IN  IF ~p.reloaded \/ (window /\ ~high /\ sound.phase # 0) THEN p
        ELSE [p EXCEPT !.timer = p.period - (IF window THEN sound.phase ELSE 0)]

SetPulseLow(period) ==
    WriteVoice("pulse", Retimed([sound.pulse EXCEPT !.period = period], FALSE))

SetPulseHigh(period, ends) ==
    WriteVoice("pulse", Retimed([sound.pulse EXCEPT !.period = period, !.on = @ /\ ~ends], TRUE))

Startup(p, period) ==
    LET base   == period + (IF RevisionE THEN 0 ELSE p.timer % 4)
        cycled == RevisionE /\ sound.startup
        delay  == IF ~cycled THEN 5 ELSE IF ~p.on THEN 8 ELSE IF LatchesPhase THEN 4 ELSE 1
        align  == IF period >= LongPeriod THEN 4 ELSE 2
    IN  IF cycled /\ (~p.on \/ LatchesPhase) THEN base + delay + ((4 - sound.phase) % 4)
        ELSE IF ModernCgb /\ ~p.on THEN base + delay - align
        ELSE base + delay

TriggerPulse(period, overflows) ==
    LET p == sound.pulse
    IN  WriteVoice("pulse",
              [p EXCEPT !.period = period, !.on = p.dac /\ ~overflows,
                        !.duty = IF p.on THEN @ ELSE p.written, !.due = @ /\ p.on,
                        !.timer = Startup(p, period), !.reloaded = FALSE,
                        !.volume = p.initial])

SetWaveDac(dac) == WriteVoice("wave", [sound.wave EXCEPT !.dac = dac, !.on = @ /\ dac])

SetWaveLevel(level) == WriteVoice("wave", [sound.wave EXCEPT !.level = level])

SetWavePeriod(period, ends) ==
    WriteVoice("wave", [sound.wave EXCEPT !.period = period, !.on = @ /\ ~ends])

TriggerWave(period) ==
    WriteVoice("wave", [sound.wave EXCEPT !.period = period, !.on = sound.wave.dac,
                                     !.timer = period + 3, !.position = 0, !.open = CgbSound])

SetNoise(period, stopped) ==
    WriteVoice("noise", [sound.noise EXCEPT !.period = period, !.stopped = stopped])

TriggerNoise ==
    LET delay == IF CgbSound /\ ~ModernCgb THEN 4
                 ELSE IF RevisionE /\ sound.startup THEN 1 ELSE 0
    IN  WriteVoice("noise", [sound.noise EXCEPT !.on = sound.noise.dac, !.lfsr = <<1, 1>>,
                                           !.timer = sound.noise.period + delay,
                                           !.volume = sound.noise.initial])

SetRoute == sound.powered /\ CountedChange([sound EXCEPT !.route = ~@])

SwitchPower == CountedChange(IF sound.powered THEN PoweredOff(sound) ELSE PoweredOn(sound))

\* set_audio_enabled()
Mute == CountedChange([sound EXCEPT !.audible = ~@, !.elapsed = 0])

\* clock_frame_sequencer(), which runs between two ticks; a write to NR10 or
\* NR44 may do to a channel what it does.
Sequencer(voice, ends, volume) ==
    /\ voice \in voices /\ sound.powered
    /\ \/ voice = "wave" /\ volume = 0
          /\ CountedChange([sound EXCEPT !.wave.on = @ /\ ~ends])
       \/ voice = "noise"
          /\ CountedChange([sound EXCEPT !.noise.on = @ /\ ~ends, !.noise.volume = volume])
       \/ \E period \in PulsePeriods :   \* the sweep
            /\ voice = "pulse"
            /\ CountedChange([sound EXCEPT !.pulse.on = @ /\ ~ends, !.pulse.volume = volume,
                                    !.pulse.period = period])

TickSound(n) ==
    /\ sound' = [SoundAfter(sound, n) EXCEPT !.heard = <<>>]
    /\ UNCHANGED <<model, voices, writes>>

SoundNext ==
    \/ \E n \in SoundSpans : TickSound(n)
    \/ \E d \in {0, 1} : SetDuty(d)
    \/ \E voice \in voices, dac \in BOOLEAN, level, volume \in Volumes :
          SetEnvelope(voice, dac, level, volume)
    \/ \E period \in PulsePeriods, b \in BOOLEAN :
          SetPulseLow(period) \/ SetPulseHigh(period, b) \/ TriggerPulse(period, b)
    \/ \E dac \in BOOLEAN : SetWaveDac(dac)
    \/ \E level \in Volumes : SetWaveLevel(level)
    \/ \E period \in WavePeriods, ends \in BOOLEAN : SetWavePeriod(period, ends)
    \/ \E period \in WavePeriods : TriggerWave(period)
    \/ \E period \in NoisePeriods, stopped \in BOOLEAN : SetNoise(period, stopped)
    \/ TriggerNoise \/ SetRoute \/ SwitchPower \/ Mute
    \/ \E voice \in voices, ends \in BOOLEAN, volume \in Volumes : Sequencer(voice, ends, volume)

SoundSpec == SoundInit /\ [][SoundNext]_soundVars

-----------------------------------------------------------------------------
(* "Preserve each individual float operation": however many cycles a call  *)
(* asks for, what is heard in each of them, and the channels after them,   *)
(* are those of cycle after cycle with the mix computed anew in each.      *)
ShortcutsAreInaudible == \A n \in SoundSpans : SoundAfter(sound, n) = Literal(sound, n)
=============================================================================
