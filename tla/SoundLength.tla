------------------------------- MODULE SoundLength -------------------------------
(***************************************************************************)
(* How long a sound lasts (src/src/apu.cpp): the length counter of one of  *)
(* the four channels, which all count in the same way, the frame sequencer *)
(* that clocks it and the register writes that come in between. Waveforms  *)
(* and levels are SoundWaves'; that the sweep stops a channel is an event  *)
(* here.                                                                   *)
(***************************************************************************)
EXTENDS Integers

CONSTANTS Cgbs,        \* values of cgb_hardware_: a CGB ignores writes when off
          FullLength   \* 64, or 256 for the wave channel

ASSUME FullAssumption == FullLength \in Nat \ {0, 1}
ASSUME CgbsAssumption == Cgbs \subseteq BOOLEAN

VARIABLES onCgb, frame, tone

lengthVars == <<onCgb, frame, tone>>

Voiceless == [on |-> FALSE, dac |-> FALSE, counts |-> FALSE, length |-> 0, booted |-> FALSE]

\* `booted` marks the sound that initialize_post_boot() leaves playing, with
\* no length at all, until the channel is triggered or switched off.
LengthInit ==
    /\ onCgb \in Cgbs
    /\ frame \in [powered : {TRUE}, step : {0}, skip : BOOLEAN]
    /\ tone \in {Voiceless, [Voiceless EXCEPT !.on = TRUE, !.dac = TRUE, !.booted = TRUE]}

\* next_step_skips_length()
NextStepSkips == frame.skip \/ frame.step % 2 = 1

\* One clock of a counter that runs.
ClockedLength(v) ==
    IF ~v.counts \/ v.length = 0 THEN v
    ELSE [v EXCEPT !.length = @ - 1, !.on = @ /\ v.length # 1]

\* clock_frame_sequencer()
ClockSequencer ==
    /\ UNCHANGED onCgb
    /\ frame' = IF frame.skip THEN [frame EXCEPT !.skip = FALSE]
                    ELSE [frame EXCEPT !.step = (@ + 1) % 8]
    /\ tone' = IF ~frame.skip /\ frame.powered /\ frame.step % 2 = 0
                  THEN ClockedLength(tone) ELSE tone

\* clock_sweep(), and the write that ends a negated sweep.
Overflow ==
    /\ tone.on /\ tone' = [tone EXCEPT !.on = FALSE]
    /\ UNCHANGED <<onCgb, frame>>

\* NRx1
SetLength(length) ==
    /\ frame.powered \/ ~onCgb
    /\ tone' = [tone EXCEPT !.length = length]
    /\ UNCHANGED <<onCgb, frame>>

\* NRx2, NR30
SetDac(dac) ==
    /\ frame.powered
    /\ tone' = [tone EXCEPT !.dac = dac, !.on = @ /\ dac]
    /\ UNCHANGED <<onCgb, frame>>

-----------------------------------------------------------------------------
(* NRx4. Switching the counter on ahead of a step that does not clock it   *)
(* clocks it at once.                                                      *)
ExtraClocked(v, counts, trigger) ==
    IF counts /\ ~v.counts /\ NextStepSkips /\ v.length # 0
      THEN [v EXCEPT !.length = @ - 1, !.on = @ /\ (v.length # 1 \/ trigger)]
      ELSE v

Triggered(v, counts) ==
    [v EXCEPT !.on = v.dac, !.booted = FALSE,
              !.length = IF @ # 0 THEN @
                         ELSE IF counts /\ NextStepSkips THEN FullLength - 1 ELSE FullLength]

ControlledAfterTrigger(v, counts, trigger) ==
    [ExtraClocked(IF trigger THEN Triggered(v, counts) ELSE v, counts, trigger)
        EXCEPT !.counts = counts]

Controlled(v, counts, trigger) ==
    LET clocked == [ExtraClocked(v, counts, trigger) EXCEPT !.counts = counts]
    IN  IF trigger THEN Triggered(clocked, counts) ELSE clocked

ControlTone(counts, trigger) ==
    /\ frame.powered
    /\ tone' = Controlled(tone, counts, trigger)
    /\ UNCHANGED <<onCgb, frame>>

-----------------------------------------------------------------------------
(* NR52. A length survives only on a DMG. Power that comes back while the  *)
(* divider's signal is high misses one clock.                              *)
PowerOff ==
    /\ frame' = [powered |-> FALSE, step |-> 0, skip |-> FALSE]
    /\ tone' = [Voiceless EXCEPT !.length = IF onCgb THEN 0 ELSE tone.length]
    /\ UNCHANGED onCgb

PowerOn(signal) ==
    /\ ~frame.powered
    /\ frame' = [powered |-> TRUE, step |-> 0, skip |-> signal]
    /\ UNCHANGED <<onCgb, tone>>

LengthNext ==
    \/ ClockSequencer \/ Overflow \/ PowerOff
    \/ \E signal \in BOOLEAN : PowerOn(signal)
    \/ \E length \in 1 .. FullLength : SetLength(length)
    \/ \E dac \in BOOLEAN : SetDac(dac)
    \/ \E counts, trigger \in BOOLEAN : ControlTone(counts, trigger)

LengthSpec == LengthInit /\ [][LengthNext]_lengthVars

-----------------------------------------------------------------------------
LengthTypeOK ==
    /\ onCgb \in Cgbs
    /\ frame \in [powered : BOOLEAN, step : 0 .. 7, skip : BOOLEAN]
    /\ tone \in [on : BOOLEAN, dac : BOOLEAN, counts : BOOLEAN, length : 0 .. FullLength,
                  booted : BOOLEAN]

(* A sound whose counter is on has something left to count and so comes to *)
(* an end, in whatever order the counter is switched on, the length is     *)
(* written, the channel is triggered and the frame moves on. The sound *)
(* left by the boot sequence is the exception: it has no length.           *)
CountedSoundsEnd == tone.on /\ tone.counts /\ ~tone.booted => tone.length > 0
=============================================================================
