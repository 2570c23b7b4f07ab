----------------------------- MODULE TimerCycles -----------------------------
(***************************************************************************)
(* The timer as the hardware runs it, one clock at a time: TIMA counts the *)
(* falling edges of one bit of the system divider, the sound unit's frame  *)
(* sequencer those of another, and an overflow reloads TMA ReloadDelay     *)
(* clocks later.  A span of clocks is nothing but its clocks one by one.   *)
(* The reference that the batched timer of module Timer is checked against.*)
(***************************************************************************)
EXTENDS Naturals

CONSTANTS DividerSpan,    \* 2^16, the free-running divider
          CounterSpan,    \* 2^8, TIMA and TMA
          Rates,          \* the values of TAC's two rate bits
          Period,         \* divider clocks between two edges of a rate's bit
          ApuPeriod,      \* the same for the frame sequencer, per CPU speed
          ReloadDelay,    \* clocks between the overflow and the reload
          Propagation,    \* clocks write_control() looks ahead for the CPU
          Spans,          \* the cycle counts the bus is ticked by
          Steps           \* steps of the frame sequencer

Divides(a, b) == b % a = 0

(* Half a period is at least the reload delay.                             *)
Sizes ==
    /\ {DividerSpan, CounterSpan, ReloadDelay, Steps} \subseteq Nat \ {0}
    /\ Propagation \in Nat
    /\ Spans \subseteq Nat \ {0}
    /\ Period \in [Rates -> Nat \ {0}]
    /\ ApuPeriod \in [BOOLEAN -> Nat \ {0}]
    /\ \A r \in Rates :
          Divides(2 * ReloadDelay, Period[r]) /\ Divides(Period[r], DividerSpan)
    /\ \A d \in BOOLEAN :
          Divides(2, ApuPeriod[d]) /\ Divides(ApuPeriod[d], DividerSpan)

Control == [enabled : BOOLEAN, rate : Rates]
Counter == 0..(CounterSpan - 1)

Registers ==
        [divider  : 0..(DividerSpan - 1),
          counter  : Counter,             \* TIMA
          modulo   : Counter,             \* TMA
          control  : Control,             \* TAC
          delay    : 0..ReloadDelay,      \* clocks to the reload, 0: none
          reloaded : BOOLEAN,             \* the last clock reloaded TIMA
          double   : BOOLEAN]             \* CGB double speed

VARIABLES timer,      \* the timer's registers and latches
          requested,  \* the timer interrupt is requested in IF
          sequencer   \* step of the frame sequencer

vars == <<timer, requested, sequencer>>

\* One bit of the divider, high for the second half of its period.
BitOf(divider, period) == 2 * (divider % period) >= period

Input(t)    == t.control.enabled /\ BitOf(t.divider, Period[t.control.rate])
ApuInput(t) == BitOf(t.divider, ApuPeriod[t.double])

\* An edge while a reload is pending is lost.
Counted(t) ==
    IF t.delay # 0 THEN t
    ELSE IF t.counter = CounterSpan - 1
      THEN [t EXCEPT !.counter = 0, !.delay = ReloadDelay]
    ELSE [t EXCEPT !.counter = @ + 1]

-----------------------------------------------------------------------------
(* One clock of timer, interrupt line and sequencer.                       *)
State == [timer |-> timer, requested |-> requested, sequencer |-> sequencer]

Reloading(t) ==
    IF t.delay = 1
      THEN [t EXCEPT !.delay = 0, !.counter = t.modulo, !.reloaded = TRUE]
      ELSE [t EXCEPT !.delay = IF @ = 0 THEN 0 ELSE @ - 1, !.reloaded = FALSE]

Clock(s) ==
    LET before == Reloading(s.timer)
        after  == [before EXCEPT !.divider = (@ + 1) % DividerSpan]
    IN  [timer     |-> IF Input(before) /\ ~Input(after) THEN Counted(after)
                       ELSE after,
         requested |-> s.requested \/ s.timer.delay = 1,
         sequencer |-> IF ApuInput(before) /\ ~ApuInput(after)
                         THEN (s.sequencer + 1) % Steps ELSE s.sequencer]

Clocks(s, n) ==
    LET after[i \in 0..n] == IF i = 0 THEN s ELSE Clock(after[i - 1])
    IN  after[n]

Becomes(s) ==
    timer' = s.timer /\ requested' = s.requested /\ sequencer' = s.sequencer

Tick == \E n \in Spans : Becomes(Clocks(State, n))

(* Registers: a change of the divider or of TAC is an edge like any other. *)
WriteDivider ==
    LET zero == [timer EXCEPT !.divider = 0]
    IN  Becomes([State EXCEPT
          !.timer = IF Input(timer) THEN Counted(zero) ELSE zero,
          !.sequencer = IF ApuInput(timer) THEN (@ + 1) % Steps ELSE @])

\* TIMA in the clock of the reload keeps TMA; before it the reload is off.
WriteCounter(value) ==
    Becomes([State EXCEPT !.timer =
        IF @.reloaded THEN [@ EXCEPT !.reloaded = FALSE]
        ELSE [@ EXCEPT !.counter = value, !.delay = 0]])

\* TMA in the clock of the reload reaches TIMA too.
WriteModulo(value) ==
    LET written == [timer EXCEPT !.modulo = value, !.reloaded = FALSE,
                                 !.counter = IF timer.reloaded THEN value ELSE @]
    IN  Becomes([State EXCEPT !.timer = written])

WriteControl(value, ahead) ==
    LET sampled == [timer EXCEPT !.divider = (@ + ahead) % DividerSpan]
        written == [timer EXCEPT !.control = value]
    IN  Becomes([State EXCEPT !.timer =
          IF Input(sampled) /\ ~Input(written) THEN Counted(written)
          ELSE written])

SwitchSpeed ==
    LET switched == [timer EXCEPT !.double = ~@]
    IN  Becomes([State EXCEPT !.timer = switched])

Acknowledge == requested /\ Becomes([State EXCEPT !.requested = FALSE])

Init ==
    /\ timer \in [divider : 0..(DividerSpan - 1), counter : {0}, modulo : {0},
                  control : [enabled : {FALSE}, rate : Rates], delay : {0},
                  reloaded : {FALSE}, double : {FALSE}]
    /\ requested = FALSE
    /\ sequencer = 0

Next == \/ \E v \in Counter : WriteCounter(v) \/ WriteModulo(v)
        \/ Tick \/ WriteDivider \/ SwitchSpeed \/ Acknowledge
        \/ \E c \in Control, a \in {0, Propagation} : WriteControl(c, a)

Spec == Init /\ [][Next]_vars
=============================================================================
