----------------------------- MODULE SerialCable -----------------------------
(***************************************************************************)
(* Two consoles on the deterministic local cable (src/src/serial.cpp,      *)
(* SerialCable and its two endpoints): each guest reads and writes its SB  *)
(* and SC registers and lets time pass, one bus cycle at a time; the cable *)
(* delivers every edge of the clock owner to the other port in the same    *)
(* step and arbitrates who may drive the clock.                            *)
(***************************************************************************)
EXTENDS SerialPort, FiniteSets

CONSTANTS First, Second,  \* the two consoles
          Nobody,         \* internal_owner_ == nullptr
          Bytes,          \* the bytes the guests write to SB
          ProbeByte,      \* the Cable Club's connection probe (0x02)
          FastModes,      \* what SC bit 1 can be: {FALSE} on a DMG
          Ticks           \* clocks of one bus cycle

ASSUME CableAssumption ==
    /\ First # Second
    /\ Nobody \notin {First, Second}
    /\ Bytes \subseteq Byte
    /\ ProbeByte \in Byte
    /\ FastModes \subseteq BOOLEAN
    \* The CPU hands the bus at most 8 clocks at a time, half a fast bit.
    /\ Ticks \subseteq 1..FastPeriod

VARIABLES port,      \* the two serial ports
          plugged,   \* the cable is connected to both
          owner      \* internal_owner_

vars == <<port, plugged, owner>>

Consoles == {First, Second}
Peer(c)  == IF c = First THEN Second ELSE First

\* SC values the guest can write.
Commands == [start : BOOLEAN, internal : BOOLEAN, fast : FastModes]

Init ==
    /\ \E byte \in [Consoles -> Bytes], phase \in [Consoles -> 0..(NormalPeriod - 1)] :
          port = [c \in Consoles |-> PostBoot(byte[c], phase[c])]
    /\ plugged = FALSE
    /\ owner = Nobody

-----------------------------------------------------------------------------
(* The cable: its arbitration, and one clock edge.                         *)
GrantedToAnyone(holder, c) == TRUE

Granted(holder, c) == holder \in {Nobody, c}

Released(holder, c) == IF holder = c THEN Nobody ELSE holder

ExchangeAfterShift(ports, c) ==
    LET peer == Peer(c)
        sent == Shift(ports[c], IF Follows(ports[peer])
                                  THEN Outgoing(ports[peer]) ELSE 1)
    IN  [ports EXCEPT
          ![c] = sent,
          ![peer] = IF Follows(@) THEN Shift(@, Outgoing(sent)) ELSE @]

(* The edge reaches a peer that follows the clock, which shifts the same   *)
(* bit; any other peer leaves the line pulled up. Then the driver shifts.  *)
Exchange(ports, c) ==
    LET peer     == Peer(c)
        listens  == Follows(ports[peer])
        incoming == IF listens THEN Outgoing(ports[peer]) ELSE 1
    IN  [ports EXCEPT
          ![c] = Shift(@, incoming),
          ![peer] = IF listens THEN Shift(@, Outgoing(ports[c])) ELSE @]

(* Console c writes SC.                                                    *)
ControlledPort(c, sc) ==
    LET holder == IF GivesClockBack(port[c], sc, FALSE)
                    THEN Released(owner, c) ELSE owner
        asks   == plugged /\ AsksForClock(port[c], sc, FALSE)
    IN  WriteControl(port[c], sc, plugged, FALSE, asks => Granted(holder, c))

ControlledOwner(c, sc) ==
    LET holder == IF GivesClockBack(port[c], sc, FALSE)
                    THEN Released(owner, c) ELSE owner
    IN  IF ~plugged THEN owner
        ELSE IF AsksForClock(port[c], sc, FALSE) /\ Granted(holder, c)
               THEN c ELSE holder

-----------------------------------------------------------------------------
(* What a guest does.                                                      *)
WriteSB(c) ==
    \E byte \in Bytes :
        /\ port' = [port EXCEPT ![c] = WriteData(@, byte, plugged, FALSE)]
        /\ UNCHANGED <<plugged, owner>>

WriteSC(c) ==
    \E sc \in Commands :
        /\ port' = [port EXCEPT ![c] = ControlledPort(c, sc)]
        /\ owner' = ControlledOwner(c, sc)
        /\ UNCHANGED plugged

(* SerialPort::tick on a port that does not drive a clock: the divider     *)
(* runs on, unless a cable holds it for the next edge.                     *)
RunDivider(c, clocks) ==
    /\ ~Drives(port[c])
    /\ port' = IF plugged THEN port
               ELSE [port EXCEPT ![c].phase = (@ + clocks) % NormalPeriod]
    /\ UNCHANGED <<plugged, owner>>

EdgeDue(c, clocks) == port[c].phase + clocks >= CyclesPerBit(port[c])

(* ... on a driving port, before the next edge is due.                     *)
RunPhase(c, clocks) ==
    /\ Drives(port[c])
    /\ ~EdgeDue(c, clocks)
    /\ port' = [port EXCEPT ![c].phase = @ + clocks]
    /\ UNCHANGED <<plugged, owner>>

(* ... with the edge due and no receiver armed: the edge is held back.     *)
HoldEdge(c, clocks) ==
    /\ Drives(port[c])
    /\ EdgeDue(c, clocks)
    /\ plugged
    /\ ~port[Peer(c)].active
    /\ port' = [port EXCEPT ![c].phase = CyclesPerBit(port[c]) - 1]
    /\ UNCHANGED <<plugged, owner>>

(* ... with the edge due: both shift registers move by one bit. The owner  *)
(* of a completed byte gives the clock back.                               *)
EmitEdge(c, clocks) ==
    /\ Drives(port[c])
    /\ EdgeDue(c, clocks)
    /\ plugged => port[Peer(c)].active
    /\ LET timed == [port EXCEPT ![c].phase =
                        @ + clocks - CyclesPerBit(port[c])]
       IN  port' = IF plugged THEN Exchange(timed, c)
                   ELSE [timed EXCEPT ![c] = Shift(@, 1)]
    /\ owner' = IF plugged /\ ~port'[c].active THEN Released(owner, c) ELSE owner
    /\ UNCHANGED plugged

-----------------------------------------------------------------------------
(* What the frontend does.                                                 *)

(* Starting a session copies player one's running machine into player two  *)
(* and plugs the cable into both ports as they then are.                   *)
Copy == Restore(port[Second], port[First])

PlugIn(one, two) ==
    /\ ~plugged
    /\ port' = [port EXCEPT ![First] = one, ![Second] = two]
    /\ plugged' = TRUE
    /\ owner' = Nobody

(* The Gen I handshake reset writes the probe byte and arms externally     *)
(* while there is no cable yet.                                            *)
HandshakeReset(p) ==
    WriteControl(WriteData(p, ProbeByte, FALSE, FALSE),
                 [start |-> TRUE, internal |-> FALSE, fast |-> FALSE],
                 FALSE, FALSE, TRUE)

StartHandshake == PlugIn(HandshakeReset(port[First]), HandshakeReset(Copy))

(* Every other game keeps whatever transfer is running.                    *)
StartAsIs == PlugIn(port[First], Copy)

\* A copied transfer that drives the line would have a second driver.
StartIdle == ~Drives(port[First]) /\ StartAsIs

DisconnectWithoutReset ==
    /\ plugged
    /\ plugged' = FALSE
    /\ owner' = Nobody
    /\ UNCHANGED port

(* disconnect() resets both ports with the cable still attached.           *)
Disconnect ==
    /\ plugged
    /\ port' = [c \in Consoles |-> Reset(port[c])]
    /\ plugged' = FALSE
    /\ owner' = Nobody

(* reset_link() of one attached port.                                      *)
ResetLink(c) ==
    /\ port' = [port EXCEPT ![c] = Reset(@)]
    /\ owner' = IF plugged /\ Drives(port[c]) THEN Released(owner, c) ELSE owner
    /\ UNCHANGED plugged

-----------------------------------------------------------------------------
Tick(c, clocks) ==
    \/ RunDivider(c, clocks)
    \/ RunPhase(c, clocks)
    \/ HoldEdge(c, clocks)
    \/ EmitEdge(c, clocks)

Elapse(c) == \E clocks \in Ticks : Tick(c, clocks)

Guest(c) == WriteSB(c) \/ WriteSC(c) \/ Elapse(c)

Frontend == \/ StartHandshake \/ StartIdle \/ Disconnect
            \/ \E c \in Consoles : ResetLink(c)

Next == Frontend \/ \E c \in Consoles : Guest(c)

Spec == Init /\ [][Next]_vars

-----------------------------------------------------------------------------
TypeOK ==
    /\ port \in [Consoles -> Port]
    /\ plugged \in BOOLEAN
    /\ owner \in Consoles \cup {Nobody}

(* The cable's record of the clock owner and the two ports' own idea of    *)
(* their role never drift apart, through claims, refusals, re-arming,      *)
(* aborts, completions and resets: a stale owner would refuse the other    *)
(* console for ever.                                                       *)
OwnerIsTheDriver ==
    plugged => \A c \in Consoles : owner = c <=> Drives(port[c])

(* The first claim owns the cable and the other console is demoted: two    *)
(* consoles never drive one cable.                                         *)
OneDriver ==
    plugged => ~(Drives(port[First]) /\ Drives(port[Second]))

(* What the guest reads back from SC is the role it really has: an armed   *)
(* bit 7 exactly while a transfer runs, and bit 0 cleared on the console   *)
(* whose claim was refused.                                                *)
GuestSeesItsRole ==
    \A c \in Consoles :
        /\ port[c].control.start = port[c].active
        /\ port[c].active => port[c].control.internal = port[c].internal

(* No backlog of edges: the phase of a driving port, retained over idle    *)
(* time, clock-speed changes and a held edge, is always below one bit.     *)
NoEdgeBacklog ==
    \A c \in Consoles :
        Drives(port[c]) => port[c].phase < CyclesPerBit(port[c])

-----------------------------------------------------------------------------
Moves(c) == port'[c].bits = port[c].bits + 1

BitsCross ==
    \A c \in Consoles :
        port'[c].data[ByteBits] = port[Peer(c)].data[1]

(* No edge is lost or made up: a driving console shifts only together with *)
(* a console that follows it, and each receives the bit the other sent.    *)
EdgesAreExchanged ==
    [][ plugged /\ (\E c \in Consoles : Moves(c)) =>
            /\ \E c \in Consoles : Drives(port[c]) /\ Follows(port[Peer(c)])
            /\ \A c \in Consoles : Moves(c)
            /\ BitsCross ]_vars

(* Pulling the cable leaves no guest with a transfer nobody can complete.  *)
UnplugStrandsNobody ==
    [][ plugged /\ ~plugged' => \A c \in Consoles : ~port'[c].active ]_vars

(* Once the guests leave SC alone and the cable stays in, an armed pair    *)
(* does not wait for ever: the byte is completed on one of the two sides.  *)
Undisturbed == \E c \in Consoles : Elapse(c) \/ WriteSB(c)

ArmedPairProgresses ==
    <>[][Undisturbed]_vars =>
        []<>(~plugged \/ \A c \in Consoles :
                            ~(Drives(port[c]) /\ Follows(port[Peer(c)])))
=============================================================================
