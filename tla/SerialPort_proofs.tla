-------------------------- MODULE SerialPort_proofs --------------------------
(***************************************************************************)
(* What the operators of the serial port return: each method of the code   *)
(* leaves a well-formed port behind, for every byte width and bit period.  *)
(***************************************************************************)
EXTENDS SerialPort, TLAPS

LEMMA ModRange ==
    ASSUME NEW a \in Nat, NEW b \in Nat \ {0}
    PROVE  a % b \in 0..(b - 1)
  OBVIOUS

LEMMA PeriodRange ==
    ASSUME NEW p \in Port
    PROVE  /\ CyclesPerBit(p) \in Nat \ {0}
           /\ CyclesPerBit(p) <= NormalPeriod
           /\ FastPeriod <= CyclesPerBit(p)
  BY PortAssumption DEF Port, CyclesPerBit

LEMMA PostBootType ==
    ASSUME NEW byte \in Byte, NEW phase \in 0..(NormalPeriod - 1)
    PROVE  PostBoot(byte, phase) \in Port
  BY PortAssumption DEF PostBoot, Port, Control, Stopped

LEMMA WriteDataType ==
    ASSUME NEW p \in Port, NEW byte \in Byte, NEW linked, NEW captured
    PROVE  WriteData(p, byte, linked, captured) \in Port
  BY DEF WriteData, Port

LEMMA ShiftType ==
    ASSUME NEW p \in Port, p.bits < ByteBits, NEW incoming \in Bit
    PROVE  Shift(p, incoming) \in Port
  <1>1. ShiftedData(p.data, incoming) \in Byte
    BY PortAssumption DEF Port, Byte, ShiftedData
  <1>2. p.bits + 1 \in 0..ByteBits
    BY PortAssumption DEF Port
  <1> QED
    BY <1>1, <1>2 DEF Port, Shift, Control

LEMMA ResetType ==
    ASSUME NEW p \in Port
    PROVE  Reset(p) \in Port
  BY PortAssumption DEF Reset, Port, Control, Stopped

(* What a snapshot of a port is restored to: its own bits and role, and a  *)
(* phase within the period of its speed.                                   *)
LEMMA RestoreType ==
    ASSUME NEW p \in Port, NEW q \in Port
    PROVE  LET r == Restore(p, q)
           IN  /\ r \in Port
               /\ r.active = (q.active /\ q.control.start) /\ r.bits = q.bits
               /\ r.control = q.control /\ r.internal = q.internal /\ r.fast = q.fast
               /\ r.phase < CyclesPerBit(r)
  <1> DEFINE period == IF q.fast THEN FastPeriod ELSE NormalPeriod
             phase == q.phase % period
             active == q.active /\ q.control.start
             r == [q EXCEPT !.external_data = p.external_data, !.phase = phase,
                            !.active = active]
  <1>1. period \in Nat \ {0} /\ period <= NormalPeriod /\ q.phase \in Nat /\ NormalPeriod \in Nat
    BY PortAssumption DEF Port
  <1>2. phase \in 0..(NormalPeriod - 1) /\ phase < period
    <2> HIDE DEF period
    <2>1. q.phase % period \in 0..(period - 1)
      BY <1>1, ModRange, Zenon
    <2>2. \A x \in 0..(period - 1) : x \in 0..(NormalPeriod - 1) /\ x < period
      BY <1>1
    <2> QED BY <2>1, <2>2
  <1>3. ~(q.bits > ByteBits) /\ q.bits \in Nat
    BY PortAssumption DEF Port
  <1>4. Restore(p, q) = [q EXCEPT !.external_data = p.external_data, !.phase = phase,
                                  !.bits = q.bits, !.active = active]
    BY <1>3 DEF Restore, PhaseWithin
  <1>5. active \in BOOLEAN
    BY DEF Port, Control
  <1> HIDE DEF phase, active
  <1>6. Restore(p, q) = r
    BY <1>4 DEF Port
  <1>7. /\ r \in Port
        /\ r.active = active /\ r.bits = q.bits
        /\ r.control = q.control /\ r.internal = q.internal /\ r.fast = q.fast
        /\ r.phase = phase
    BY <1>2, <1>5 DEF Port
  <1>8. CyclesPerBit(r) = period
    BY <1>7 DEF CyclesPerBit
  <1> QED BY <1>2, <1>6, <1>7, <1>8 DEF active

LEMMA WriteControlType ==
    ASSUME NEW p \in Port, NEW sc \in Control,
           NEW linked \in BOOLEAN, NEW keeps \in BOOLEAN,
           NEW granted \in BOOLEAN
    PROVE  WriteControl(p, sc, linked, keeps, granted) \in Port
  <1> DEFINE continues == linked /\ Continues(p, sc, keeps)
             phase == IF linked /\ ~continues THEN 0 ELSE p.phase
             period == IF sc.fast THEN FastPeriod ELSE NormalPeriod
  <1>1. phase \in Nat /\ period \in Nat \ {0} /\ period <= NormalPeriod
    BY PortAssumption DEF Port
  <1>2. phase % period \in 0..(NormalPeriod - 1)
    <2> HIDE DEF phase, period
    <2> QED BY <1>1, ModRange, PortAssumption
  <1> HIDE DEF phase, period
  <1>3. CASE ~sc.start
    BY <1>3, PortAssumption DEF WriteControl, PhaseWithin, Port
  <1>4. CASE sc.start
    BY <1>4, <1>2, PortAssumption
       DEF WriteControl, PhaseWithin, Port, phase, period, continues, Control
  <1> QED BY <1>3, <1>4

-----------------------------------------------------------------------------
(* Each method of the port keeps the facts one port needs.                 *)
Sound(p) ==
    /\ p \in Port
    /\ p.active => p.bits < ByteBits
    /\ p.control.start = p.active
    /\ p.active => p.control.internal = p.internal
    /\ Drives(p) => p.phase < CyclesPerBit(p)

LEMMA WriteControlSound ==
    ASSUME NEW p \in Port, Sound(p), NEW sc \in Control,
           NEW linked \in BOOLEAN, NEW keeps \in BOOLEAN, NEW granted \in BOOLEAN
    PROVE  LET q == WriteControl(p, sc, linked, keeps, granted)
           IN  /\ Sound(q)
               /\ Drives(q) = (sc.start /\ sc.internal /\ granted)
  <1> DEFINE q == WriteControl(p, sc, linked, keeps, granted)
             period == IF sc.fast THEN FastPeriod ELSE NormalPeriod
             phase == IF linked /\ ~(linked /\ Continues(p, sc, keeps))
                        THEN 0 ELSE p.phase
  <1>1. q \in Port
    BY WriteControlType
  <1>2. CASE ~sc.start
    <2>1. q.active = FALSE /\ q.control = sc
      BY <1>2 DEF WriteControl, PhaseWithin
    <2> HIDE DEF q
    <2> QED BY <1>1, <1>2, <2>1 DEF Sound, Drives, Control, q
  <1>3. CASE sc.start
    <2>1. phase % period \in 0..(period - 1) /\ period \in Nat
      <3>1. phase \in Nat /\ period \in Nat \ {0}
        BY PortAssumption DEF Port
      <3> HIDE DEF phase, period
      <3> QED BY <3>1, ModRange
    <2>2. /\ q.active = TRUE
          /\ q.internal = (sc.internal /\ granted)
          /\ q.fast = sc.fast
          /\ q.phase = phase % period
          /\ q.control.start = TRUE
          /\ q.control.internal = (sc.internal /\ granted)
          /\ q.bits = IF linked /\ Continues(p, sc, keeps) THEN p.bits ELSE 0
      BY <1>3 DEF WriteControl, PhaseWithin
    <2>3. /\ q.control.start = q.active
          /\ q.control.internal = q.internal
      <3> HIDE DEF q
      <3> QED BY <2>2
    <2>4. q.bits < ByteBits
      BY <2>2, PortAssumption DEF Continues, Sound
    <2>5. CyclesPerBit(q) = period
      BY <2>2 DEF CyclesPerBit
    <2> HIDE DEF q, period, phase
    <2>6. q.phase < CyclesPerBit(q)
      BY <2>1, <2>2, <2>5
    <2>7. Sound(q)
      BY <1>1, <2>3, <2>4, <2>6 DEF Sound
    <2>8. Drives(q) = (sc.start /\ sc.internal /\ granted)
      BY <1>3, <2>2 DEF Drives, Control
    <2> QED BY <2>7, <2>8 DEF q
  <1> QED BY <1>2, <1>3

LEMMA ShiftSound ==
    ASSUME NEW p \in Port, Sound(p), p.active, NEW incoming \in Bit
    PROVE  LET q == Shift(p, incoming)
           IN  /\ Sound(q)
               /\ q.bits = p.bits + 1
               /\ q.active = (p.bits + 1 # ByteBits)
               /\ q.internal = p.internal
               /\ q.phase = p.phase
               /\ q.fast = p.fast
               /\ q.data = ShiftedData(p.data, incoming)
  <1> DEFINE q == Shift(p, incoming)
  <1>1. q \in Port
    BY ShiftType DEF Sound
  <1>2. /\ q.bits = p.bits + 1
        /\ q.active = (p.bits + 1 # ByteBits)
        /\ q.internal = p.internal
        /\ q.phase = p.phase
        /\ q.fast = p.fast
        /\ q.data = ShiftedData(p.data, incoming)
    BY DEF Shift
  <1>3. /\ q.control.start = (p.control.start /\ q.active)
        /\ q.control.internal = p.control.internal
    BY DEF Shift, Port, Control
  <1>4. q.active => q.bits < ByteBits
    <2>1. p.bits < ByteBits
      BY DEF Sound
    <2>2. p.bits \in Nat
      BY DEF Port
    <2>3. p.bits + 1 # ByteBits => p.bits + 1 < ByteBits
      BY <2>1, <2>2, PortAssumption
    <2> HIDE DEF q
    <2> QED BY <1>2, <2>3
  <1>5. Drives(q) => q.phase < CyclesPerBit(q)
    BY <1>2 DEF Sound, Drives, CyclesPerBit
  <1> HIDE DEF q
  <1> QED BY <1>1, <1>2, <1>3, <1>4, <1>5 DEF Sound, q

LEMMA ResetSound ==
    ASSUME NEW p \in Port
    PROVE  Sound(Reset(p)) /\ ~Drives(Reset(p))
  BY ResetType, PortAssumption DEF Reset, Sound, Drives, Stopped

LEMMA WriteDataSound ==
    ASSUME NEW p \in Port, Sound(p), NEW byte \in Byte,
           NEW linked \in BOOLEAN, NEW captured \in BOOLEAN
    PROVE  /\ Sound(WriteData(p, byte, linked, captured))
           /\ Drives(WriteData(p, byte, linked, captured)) = Drives(p)
  <1> DEFINE q == WriteData(p, byte, linked, captured)
  <1>1. q \in Port
    BY WriteDataType
  <1>2. /\ q.active = p.active /\ q.internal = p.internal /\ q.bits = p.bits
        /\ q.phase = p.phase /\ q.fast = p.fast /\ q.control = p.control
    <2>1. CASE linked /\ p.active /\ (p.bits # 0 \/ captured)
      BY <2>1 DEF WriteData
    <2>2. CASE ~(linked /\ p.active /\ (p.bits # 0 \/ captured))
      BY <2>2 DEF WriteData, Port
    <2> QED BY <2>1, <2>2
  <1> HIDE DEF q
  <1> QED BY <1>1, <1>2 DEF Sound, Drives, CyclesPerBit, q
=============================================================================
