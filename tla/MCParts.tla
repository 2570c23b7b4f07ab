-------------------------------- MODULE MCParts -------------------------------
(***************************************************************************)
(* The components of the core that are checked on their own, one after     *)
(* another in one run: `subject` is the component a behaviour is about,    *)
(* and the others stay as they are first.                                  *)
(***************************************************************************)
EXTENDS Cpu, Alu, OamDma, BusClock, PictureTiming, Timer,
        LinkScheduler, SoundWaves, SoundLength, PixelTransfer

CONSTANTS one, two

VARIABLE subject

\* A five-bit divider, two rates, a two-bit TIMA and a reload after two
\* clocks: the smallest sizes with half a period longer than the reload.
MCPeriod    == [rate \in {0, 1} |-> IF rate = 0 THEN 16 ELSE 8]
MCApuPeriod == [fast \in BOOLEAN |-> IF fast THEN 32 ELSE 16]

\* A line whose last pixels come one by one, and one where an object delays
\* them.
MCEarly == [end \in Ends |-> IF end = 8 THEN {5} ELSE {6, 7}]

\* Steps of one to three cycles against a target they do not divide.
MCTicks == {1, 2, 3}

\* Lines with the window before, in and behind them, and with objects that
\* share its tile, begin in the middle of one or lie over one another.
MCLists == {<<>>, <<8>>, <<3, 4>>, <<0, 8, 9>>, <<9, 16, 17, 28>>, <<11, 32>>, <<12, 13, 31>>}

\* The registers are written to on one line only.
MCWritten == [scx |-> 3, objects |-> <<0, 8, 9>>]

partsVars == <<cpuVars, aluVars, dmaVars, busVars, picVars, timerVars, vars,
               soundVars, lengthVars, pixelVars>>

Subjects == {"cpu", "alu", "dma", "bus", "picture", "timer", "scheduler", "waves", "length",
             "pixels"}

PartsInit ==
    /\ subject \in Subjects
    /\ CpuInit       /\ (subject # "cpu" => machine = "dmg")
    /\ IF subject = "alu" THEN AluInit ELSE r = "none" /\ v = 256
    /\ DmaInit       /\ (subject # "dma" => board = "dmg")
    /\ BusInit
    /\ PicInit       /\ (subject # "picture" => ~colour)
    /\ TimerInit     /\ (subject # "timer" => timer.divider = 0 /\ timer.control.rate = 0)
    /\ Init
    /\ SoundInit     /\ (subject # "waves" => model = "dmg" /\ voices = {"pulse"} /\ sound = Booted)
    /\ LengthInit    /\ (subject # "length" => ~onCgb /\ ~frame.skip /\ ~tone.on)
    /\ (subject # "pixels" => line = MCWritten /\ lcdc = {"background"} /\ wx = 0) /\ PixelInit

PartsNext ==
    /\ UNCHANGED subject
    /\ \/ /\ subject = "cpu" /\ CpuNext
          /\ UNCHANGED <<aluVars, dmaVars, busVars, picVars, timerVars, vars, soundVars, lengthVars, pixelVars>>
       \/ /\ subject = "alu" /\ UNCHANGED partsVars
       \/ /\ subject = "dma" /\ DmaNext
          /\ UNCHANGED <<cpuVars, aluVars, busVars, picVars, timerVars, vars, soundVars, lengthVars, pixelVars>>
       \/ /\ subject = "bus" /\ BusNext
          /\ UNCHANGED <<cpuVars, aluVars, dmaVars, picVars, timerVars, vars, soundVars, lengthVars, pixelVars>>
       \/ /\ subject = "picture" /\ PicNext
          /\ UNCHANGED <<cpuVars, aluVars, dmaVars, busVars, timerVars, vars, soundVars, lengthVars, pixelVars>>
       \/ /\ subject = "timer" /\ TimerNext
          /\ UNCHANGED <<cpuVars, aluVars, dmaVars, busVars, picVars, vars, soundVars, lengthVars, pixelVars>>
       \/ /\ subject = "scheduler" /\ Next
          /\ UNCHANGED <<cpuVars, aluVars, dmaVars, busVars, picVars, timerVars, soundVars, lengthVars, pixelVars>>
       \/ /\ subject = "waves" /\ SoundNext
          /\ UNCHANGED <<cpuVars, aluVars, dmaVars, busVars, picVars, timerVars, vars, lengthVars, pixelVars>>
       \/ /\ subject = "length" /\ LengthNext
          /\ UNCHANGED <<cpuVars, aluVars, dmaVars, busVars, picVars, timerVars, vars, soundVars, pixelVars>>
       \/ /\ subject = "pixels" /\ PixelNext /\ (line = MCWritten \/ UNCHANGED <<lcdc, wx>>)
          /\ UNCHANGED <<cpuVars, aluVars, dmaVars, busVars, picVars, timerVars, vars, soundVars, lengthVars>>

\* The type invariants of the components.
PartsTypeOK == CpuTypeOK /\ DmaTypeOK /\ BusTypeOK /\ TimerTypeOK /\ TypeOK /\ LengthTypeOK

PartsSpec == PartsInit /\ [][PartsNext]_<<subject, partsVars>>
=============================================================================
