-------------------------------- MODULE Timer --------------------------------
(***************************************************************************)
(* The timer (src/src/timer.cpp) and the bus that clocks it                *)
(* (src/src/memory_bus.cpp): spans of clocks without an edge are skipped in*)
(* one addition, and the bus runs a whole span at once when no edge of the *)
(* frame sequencer falls into it.                                          *)
(***************************************************************************)
EXTENDS Naturals

CONSTANTS DividerSpan,    \* 2^16, the free-running divider
          CounterSpan,    \* 2^8, TIMA and TMA
          Rates,          \* the values of TAC's two rate bits
          Period,         \* timer_mask + 1 of a rate
          ApuPeriod,      \* apu_mask + 1, per CPU speed
          ReloadDelay,    \* clocks between the overflow and the reload
          Propagation,    \* clocks write_control() looks ahead for the CPU
          Spans,          \* the cycle counts the bus is ticked by
          Steps           \* steps of the frame sequencer

VARIABLES timer,      \* the timer's members
          apu_ticks,  \* apu_ticks_: edges the bus has not taken yet
          requested,  \* the timer interrupt is requested in IF
          sequencer,  \* step of the APU's frame sequencer
          clocked     \* the bus was clocked since the last register write

timerVars == <<timer, apu_ticks, requested, sequencer, clocked>>

Hardware == INSTANCE TimerCycles

ASSUME BusAssumption == Hardware!Sizes

Control == Hardware!Control
Counter == Hardware!Counter

\* A bit of the divider: high for the second half of the wrap of its field.
BitSet(divider, period) == divider % period >= period \div 2

InputSignal(t) ==
    t.control.enabled /\ BitSet(t.divider, Period[t.control.rate])

ApuSignal(t) == BitSet(t.divider, ApuPeriod[t.double])

IncrementCounter(t) ==
    IF t.delay # 0 THEN t
    ELSE IF t.counter = CounterSpan - 1
      THEN [t EXCEPT !.counter = 0, !.delay = ReloadDelay]
    ELSE [t EXCEPT !.counter = @ + 1]

-----------------------------------------------------------------------------
\* Clocks until the field of the divider below a bit wraps.
Wraps(divider, period) == period - (divider % period)

(* tick_impl: [timer, ticks, irq] after a span of clocks.                  *)
UntouchedWithoutReload(t, n) ==
    /\ n < Wraps(t.divider, ApuPeriod[t.double])
    /\ t.control.enabled =>
          n < Wraps(t.divider, Period[t.control.rate])

Untouched(t, n) ==
    /\ n < Wraps(t.divider, ApuPeriod[t.double])
    /\ t.control.enabled =>
          n < Wraps(t.divider, Period[t.control.rate])
    /\ t.delay # 0 => n < t.delay

Skip(t, n) ==
    [t EXCEPT !.divider = (@ + n) % DividerSpan,
              !.delay = IF @ = 0 THEN 0 ELSE @ - n, !.reloaded = FALSE]

ClockOnce(s, last_reload_only) ==
    LET t == s.timer
        reload == t.delay = 1
        r == [t EXCEPT !.delay = IF @ = 0 THEN 0 ELSE @ - 1,
                       !.counter = IF reload THEN t.modulo ELSE @,
                       !.reloaded = \/ reload
                                    \/ @ /\ ~last_reload_only,
                       !.divider = (@ + 1) % DividerSpan]
        edge == r.control.enabled /\ r.divider % Period[r.control.rate] = 0
    IN  [timer |-> IF edge THEN IncrementCounter(r) ELSE r,
         ticks |-> s.ticks
                     + (IF r.divider % ApuPeriod[r.double] = 0 THEN 1 ELSE 0),
         irq   |-> s.irq \/ reload]

TickImpl(t, ticks, n, last_reload_only) ==
    LET start == [timer |-> [t EXCEPT !.reloaded = FALSE], ticks |-> ticks,
                  irq |-> FALSE]
        after[i \in 0..n] ==
          IF i = 0 THEN start ELSE ClockOnce(after[i - 1], last_reload_only)
    IN  IF Untouched(t, n)
          THEN [timer |-> Skip(t, n), ticks |-> ticks, irq |-> FALSE]
          ELSE after[n]

CyclesUntilApuTick(t, ticks) ==
    IF ticks # 0 THEN 1
    ELSE Wraps(t.divider, ApuPeriod[t.double])

BatchedAcrossEdges(n) == ~timer.double /\ n <= CyclesUntilApuTick(timer, apu_ticks)

Batched(n) == ~timer.double /\ n < CyclesUntilApuTick(timer, apu_ticks)

TickBatch(n) ==
    LET r == TickImpl(timer, apu_ticks, n, TRUE)
    IN  /\ timer' = r.timer
        /\ apu_ticks' = r.ticks
        /\ requested' = (requested \/ r.irq)
        /\ UNCHANGED sequencer

TickEach(n) ==
    LET after[i \in 0..n] ==
          IF i = 0
            THEN [timer |-> timer, ticks |-> apu_ticks, irq |-> requested,
                  sequencer |-> sequencer]
            ELSE LET s == after[i - 1]
                     r == TickImpl(s.timer, s.ticks, 1, FALSE)
                 IN  [timer |-> r.timer, ticks |-> 0, irq |-> s.irq \/ r.irq,
                      sequencer |-> (s.sequencer + r.ticks) % Steps]
    IN  /\ timer' = after[n].timer
        /\ apu_ticks' = after[n].ticks
        /\ requested' = after[n].irq
        /\ sequencer' = after[n].sequencer

\* A sample falling due in the span also rules the batch out.
Tick(n) ==
    /\ (Batched(n) /\ TickBatch(n)) \/ TickEach(n)
    /\ clocked' = TRUE

\* tick_without_timer: the frame sequencer takes what is left, no more.
TickPaused ==
    /\ apu_ticks' = 0
    /\ sequencer' = (sequencer + apu_ticks) % Steps
    /\ UNCHANGED <<timer, requested, clocked>>

-----------------------------------------------------------------------------
\* Cpu::write8 clocks the bus by a whole machine cycle before an access, the
\* delay of a reload, so that an access falls on a machine cycle's end.
Access ==
    /\ clocked /\ timer.divider % ReloadDelay = 0
    /\ clocked' = FALSE

WriteDivider ==
    LET t == [timer EXCEPT !.divider = 0]
        edges == apu_ticks + IF ApuSignal(timer) THEN 1 ELSE 0
    IN  /\ Access
        /\ timer' = IF InputSignal(timer) THEN IncrementCounter(t) ELSE t
        /\ apu_ticks' = 0
        /\ sequencer' = (sequencer + edges) % Steps
        /\ UNCHANGED requested

WriteCounter(value) ==
    /\ Access
    /\ timer' = IF timer.reloaded THEN [timer EXCEPT !.reloaded = FALSE]
                ELSE [timer EXCEPT !.counter = value, !.delay = 0]
    /\ UNCHANGED <<apu_ticks, requested, sequencer>>

WriteModulo(value) ==
    /\ Access
    /\ timer' = [timer EXCEPT !.modulo = value, !.reloaded = FALSE,
                              !.counter = IF timer.reloaded THEN value ELSE @]
    /\ UNCHANGED <<apu_ticks, requested, sequencer>>

\* The CPU's bus cycle samples the old signal Propagation clocks ahead.
WriteControl(value, cpu_bus_cycle) ==
    LET ahead == IF cpu_bus_cycle THEN Propagation ELSE 0
        old == /\ timer.control.enabled
               /\ BitSet((timer.divider + ahead) % DividerSpan,
                         Period[timer.control.rate])
        t == [timer EXCEPT !.control = value]
    IN  /\ Access
        /\ timer' = IF old /\ ~InputSignal(t) THEN IncrementCounter(t) ELSE t
        /\ UNCHANGED <<apu_ticks, requested, sequencer>>

\* try_speed_switch
SwitchSpeed ==
    /\ timer' = [timer EXCEPT !.double = ~@]
    /\ UNCHANGED <<apu_ticks, requested, sequencer, clocked>>

\* The CPU dispatches the interrupt, or the guest clears IF.
Acknowledge ==
    /\ requested
    /\ requested' = FALSE
    /\ UNCHANGED <<timer, apu_ticks, sequencer, clocked>>

\* initialize_post_boot, and the same timer at power-on with divider 0.
TimerInit ==
    /\ timer \in [divider : {d \in 0..(DividerSpan - 1) : d % ReloadDelay = 0},
                  counter : {0}, modulo : {0},
                  control : [enabled : {FALSE}, rate : Rates], delay : {0},
                  reloaded : {FALSE}, double : {FALSE}]
    /\ apu_ticks = 0
    /\ requested = FALSE
    /\ sequencer = 0
    /\ clocked = FALSE

TimerNext ==
    \/ \E n \in Spans : Tick(n)
    \/ TickPaused \/ WriteDivider \/ SwitchSpeed \/ Acknowledge
    \/ \E v \in Counter : WriteCounter(v) \/ WriteModulo(v)
    \/ \E c \in Control, b \in BOOLEAN : WriteControl(c, b)

TimerSpec == TimerInit /\ [][TimerNext]_timerVars

-----------------------------------------------------------------------------
(* Registers stay within their widths, and MemoryBus::tick leaves no edge  *)
(* of the frame sequencer behind: its batch never crosses one.             *)
TimerTypeOK ==
    /\ timer \in Hardware!Registers
    /\ apu_ticks = 0
    /\ requested \in BOOLEAN
    /\ sequencer \in 0..(Steps - 1)
    /\ clocked \in BOOLEAN

(* Skipping (tick_impl's first branch) and batching (MemoryBus::tick) are  *)
(* invisible: the bus's timer is the hardware's, clock by clock, with its  *)
(* interrupts, its write locks and its frame sequencer edges.              *)
ImplementsCycles == Hardware!Spec
=============================================================================
