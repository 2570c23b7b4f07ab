----------------------------- MODULE SerialPort -----------------------------
(***************************************************************************)
(* The serial port of one console (src/src/serial.cpp, class SerialPort):  *)
(* the shift register SB, the control register SC and the divider phase,   *)
(* as a record and the pure operators that the code's methods apply to it. *)
(* Everything an endpoint answers (is there one, does it keep a transfer   *)
(* alive, does it grant the clock) is a parameter, so that the local cable *)
(* and the remote endpoint compose the same port.                          *)
(***************************************************************************)
EXTENDS Naturals

CONSTANTS ByteBits,      \* bits of one serial byte (8 in the code)
          NormalPeriod,  \* clocks per bit (512)
          FastPeriod     \* clocks per bit in the CGB fast mode (16)

ASSUME PortAssumption ==
    /\ ByteBits \in Nat \ {0}
    /\ NormalPeriod \in Nat \ {0}
    /\ FastPeriod \in Nat \ {0}
    /\ FastPeriod <= NormalPeriod

Bit  == {0, 1}
Byte == [1..ByteBits -> Bit]

\* What the guest writes to SC: bit 7, bit 0 and bit 1.
Control == [start : BOOLEAN, internal : BOOLEAN, fast : BOOLEAN]

Port == [data          : Byte,              \* SB
         external_data : Byte,              \* SB at the last external arming
         control       : Control,           \* SC as the guest reads it back
         phase         : 0..(NormalPeriod - 1),
         bits          : 0..ByteBits,
         active        : BOOLEAN,
         internal      : BOOLEAN,
         fast          : BOOLEAN]

Stopped == [start |-> FALSE, internal |-> FALSE, fast |-> FALSE]

CyclesPerBit(port) == IF port.fast THEN FastPeriod ELSE NormalPeriod

(* A new clock speed keeps the divider phase, taken modulo the new period. *)
PhaseWithin(phase, fast) ==
    phase % (IF fast THEN FastPeriod ELSE NormalPeriod)

\* The port drives the clock of a transfer, or follows the other console's.
Drives(port)  == port.active /\ port.internal
Follows(port) == port.active /\ ~port.internal

Outgoing(port) == port.data[1]

\* initialize_post_boot; an executed boot ROM leaves any divider phase.
PostBoot(byte, phase) ==
    [data |-> byte, external_data |-> byte, control |-> Stopped,
     phase |-> phase, bits |-> 0, active |-> FALSE, internal |-> FALSE,
     fast |-> FALSE]

-----------------------------------------------------------------------------
(* SB is kept while a linked byte is in flight.                            *)
WriteData(port, byte, linked, captured) ==
    IF linked /\ port.active /\ (port.bits # 0 \/ captured)
      THEN port
      ELSE [port EXCEPT !.data = byte]

(* A rewrite of SC that the endpoint lets continue the running transfer.   *)
Continues(port, sc, keeps) == port.active /\ sc.start /\ keeps

ReleasesOnAbortOnly(port, sc, keeps) == Drives(port) /\ ~sc.start

(* write_control gives the clock back before it looks at the new value ... *)
GivesClockBack(port, sc, keeps) ==
    Drives(port) /\ ~(Continues(port, sc, keeps) /\ sc.internal)

(* ... and asks for it unless it already owns the continued transfer.      *)
AsksForClock(port, sc, keeps) ==
    /\ sc.start
    /\ sc.internal
    /\ ~(Continues(port, sc, keeps) /\ port.internal)

(* The rest of write_control, once the endpoint has answered. A refused    *)
(* claim demotes the port to the external role and restores the byte of    *)
(* its preceding external probe. Clearing bit 7 leaves the clock mode.     *)
WriteControl(port, sc, linked, keeps, granted) ==
    LET restarts == ~(linked /\ Continues(port, sc, keeps))
        internal == sc.internal /\ granted
        refused  == sc.internal /\ ~granted
        phase    == IF linked /\ restarts THEN 0 ELSE port.phase
    IN  IF ~sc.start
          THEN [data |-> port.data, external_data |-> port.external_data,
                control |-> sc, phase |-> 0, bits |-> 0, active |-> FALSE,
                internal |-> port.internal, fast |-> port.fast]
          ELSE [data |-> IF refused /\ (restarts \/ port.bits = 0)
                           THEN port.external_data ELSE port.data,
                external_data |-> IF ~sc.internal /\ restarts
                                    THEN port.data ELSE port.external_data,
                control |-> [start |-> TRUE, internal |-> internal,
                            fast |-> sc.fast],
                phase |-> PhaseWithin(phase, sc.fast),
                bits |-> IF restarts THEN 0 ELSE port.bits,
                active |-> TRUE, internal |-> internal, fast |-> sc.fast]

(* shift_bit: the last bit of a byte ends the transfer.                    *)
ShiftedData(data, incoming) ==
    [i \in 1..ByteBits |-> IF i = ByteBits THEN incoming ELSE data[i + 1]]

ShiftUncounted(port, incoming) ==
    [port EXCEPT !.data = ShiftedData(@, incoming)]

Shift(port, incoming) ==
    LET last == port.bits + 1 = ByteBits
    IN  [data |-> ShiftedData(port.data, incoming),
         external_data |-> port.external_data,
         control |-> [start |-> port.control.start /\ ~last,
                     internal |-> port.control.internal,
                     fast |-> port.control.fast],
         phase |-> port.phase, bits |-> port.bits + 1, active |-> ~last,
         internal |-> port.internal, fast |-> port.fast]

(* reset_link: back to an idle protocol boundary, SB kept.                 *)
Reset(port) ==
    [data |-> port.data, external_data |-> port.data, control |-> Stopped,
     phase |-> 0, bits |-> 0, active |-> FALSE, internal |-> FALSE,
     fast |-> FALSE]

(* restore_state: all but the byte of the last external probe comes from   *)
(* the snapshot, put back into the range it may have.                      *)
Restore(port, snapshot) ==
    [snapshot EXCEPT !.external_data = port.external_data,
                     !.phase = PhaseWithin(@, snapshot.fast),
                     !.bits = IF @ > ByteBits THEN 0 ELSE @,
                     !.active = @ /\ snapshot.control.start]
=============================================================================
