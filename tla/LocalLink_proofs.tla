-------------------------- MODULE LocalLink_proofs --------------------------
(***************************************************************************)
(* The local cable and the session that runs it, for every byte width, bit *)
(* period, slice, timeout, cost of a step and set of guest bytes. The      *)
(* cable's owner is always the one console that drives the clock; seen     *)
(* from outside the cable is an arbiter of the clock line, and the bits it *)
(* exchanges add up to the two bytes the guests meant. The session's state *)
(* follows the cable and the watchdog, and its alarm is never a false one. *)
(***************************************************************************)
EXTENDS SerialExchange, LinkSession, SerialPort_proofs

LEMMA PeerFacts ==
    ASSUME NEW c \in Consoles
    PROVE  /\ Peer(c) \in Consoles
           /\ Peer(c) # c
           /\ Peer(Peer(c)) = c
           /\ Consoles = {c, Peer(c)}
           /\ Nobody \notin Consoles
  BY CableAssumption DEF Consoles, Peer

LEMMA CommandsType == Commands \subseteq Control
  BY CableAssumption DEF Commands, Control

(* The owner is the driver only as long as nobody owns an unplugged cable, *)
(* both ports are sound, and the owner gives the clock back in the step    *)
(* that ends its transfer.                                                 *)
IInv ==
    /\ TypeOK
    /\ \A c \in Consoles : Sound(port[c])
    /\ OwnerIsTheDriver
    /\ ~plugged => owner = Nobody

-----------------------------------------------------------------------------
(* A step that touches one port keeps the invariant when the owner moves   *)
(* with that port's role.                                                  *)
LEMMA OnePortStep ==
    ASSUME IInv, NEW c \in Consoles, NEW q, Sound(q),
           port' = [port EXCEPT ![c] = q],
           plugged' = plugged,
           owner' \in {owner, c, Nobody},
           plugged => (owner' = c <=> Drives(q)),
           plugged => (owner = Peer(c) <=> owner' = Peer(c)),
           ~plugged => owner' = owner
    PROVE  IInv'
  <1>1. port' \in [Consoles -> Port]
    BY DEF IInv, TypeOK, Sound
  <1>2. port'[c] = q /\ port'[Peer(c)] = port[Peer(c)]
    BY PeerFacts DEF IInv, TypeOK
  <1>3. \A d \in Consoles : d = c \/ d = Peer(c)
    BY PeerFacts
  <1>4. TypeOK'
    BY <1>1, PeerFacts DEF IInv, TypeOK
  <1>5. \A d \in Consoles : Sound(port'[d])
    BY <1>2, <1>3, PeerFacts DEF IInv
  <1>6. plugged' => \A d \in Consoles : owner' = d <=> Drives(port'[d])
    BY <1>2, <1>3, PeerFacts DEF IInv, OwnerIsTheDriver
  <1> QED
    BY <1>4, <1>5, <1>6 DEF IInv, OwnerIsTheDriver

LEMMA InitInv == Init => IInv
  <1> SUFFICES ASSUME Init PROVE IInv
    OBVIOUS
  <1>1. PICK byte \in [Consoles -> Bytes], phase \in [Consoles -> 0..(NormalPeriod - 1)] :
          port = [c \in Consoles |-> PostBoot(byte[c], phase[c])]
    BY DEF Init
  <1>2. ASSUME NEW c \in Consoles
        PROVE  port[c] = PostBoot(byte[c], phase[c]) /\ port[c] \in Port
    BY <1>1, PostBootType, CableAssumption
  <1>3. ASSUME NEW c \in Consoles
        PROVE  Sound(port[c]) /\ ~Drives(port[c])
    <2>0. port[c] = PostBoot(byte[c], phase[c])
      BY <1>2
    <2>1. /\ port[c].active = FALSE
          /\ port[c].control = Stopped
      BY <2>0 DEF PostBoot
    <2>2. Stopped.start = FALSE
      BY DEF Stopped
    <2> QED BY <1>2, <2>1, <2>2 DEF Sound, Drives
  <1>4. port \in [Consoles -> Port]
    BY <1>1, <1>2
  <1> QED
    BY <1>3, <1>4 DEF Init, IInv, TypeOK, OwnerIsTheDriver

LEMMA WriteSBInv ==
    ASSUME IInv, NEW c \in Consoles, WriteSB(c)
    PROVE  IInv'
  <1>1. PICK byte \in Bytes :
          port' = [port EXCEPT ![c] = WriteData(@, byte, plugged, FALSE)]
    BY DEF WriteSB
  <1> DEFINE q == WriteData(port[c], byte, plugged, FALSE)
  <1>2. Sound(q) /\ Drives(q) = Drives(port[c])
    <2>1. /\ port[c] \in Port
          /\ Sound(port[c])
          /\ plugged \in BOOLEAN
          /\ FALSE \in BOOLEAN
      BY DEF IInv, TypeOK
    <2>2. byte \in Byte
      BY CableAssumption
    <2> QED BY <2>1, <2>2, WriteDataSound
  <1>3. port' = [port EXCEPT ![c] = q] /\ plugged' = plugged /\ owner' = owner
    BY <1>1 DEF WriteSB
  <1> HIDE DEF q
  <1> QED
    BY <1>2, <1>3, OnePortStep DEF IInv, OwnerIsTheDriver

LEMMA WriteSCInv ==
    ASSUME IInv, NEW c \in Consoles, WriteSC(c)
    PROVE  IInv'
  <1>1. PICK sc \in Commands :
          /\ port' = [port EXCEPT ![c] = ControlledPort(c, sc)]
          /\ owner' = ControlledOwner(c, sc)
          /\ plugged' = plugged
    BY DEF WriteSC
  <1> DEFINE holder == IF Drives(port[c]) THEN Released(owner, c) ELSE owner
             claims == sc.start /\ sc.internal
             granted == plugged /\ claims => Granted(holder, c)
             q == WriteControl(port[c], sc, plugged, FALSE, granted)
  <1>2. sc \in Control /\ sc.start \in BOOLEAN /\ sc.internal \in BOOLEAN
    BY CommandsType DEF Commands
  <1>3. GivesClockBack(port[c], sc, FALSE) = Drives(port[c])
    BY DEF GivesClockBack, Continues, Drives
  <1>4. AsksForClock(port[c], sc, FALSE) = claims
    BY <1>2 DEF AsksForClock, Continues
  <1>5. ControlledPort(c, sc) = q
    BY <1>3, <1>4 DEF ControlledPort
  <1>6. owner' = IF ~plugged THEN owner
                 ELSE IF claims /\ Granted(holder, c) THEN c ELSE holder
    BY <1>1, <1>3, <1>4 DEF ControlledOwner
  <1>7. Sound(q) /\ Drives(q) = (claims /\ granted)
    <2>1. /\ port[c] \in Port
          /\ Sound(port[c])
          /\ plugged \in BOOLEAN
          /\ FALSE \in BOOLEAN
      BY DEF IInv, TypeOK
    <2>2. granted \in BOOLEAN
      BY DEF Granted
    <2> HIDE DEF granted
    <2>3. /\ Sound(q)
          /\ Drives(q) = (sc.start /\ sc.internal /\ granted)
      BY <1>2, <2>1, <2>2, WriteControlSound, ZenonT(30)
    <2> QED BY <2>3
  <1>8. plugged => holder # c
    BY PeerFacts DEF IInv, OwnerIsTheDriver, Released
  <1>9. holder \in {owner, Nobody} /\ (holder = Peer(c) <=> owner = Peer(c))
    BY PeerFacts DEF Released
  <1> HIDE DEF q, holder
  <1>10. plugged => (owner' = c <=> Drives(q))
    BY <1>6, <1>7, <1>8 DEF Granted
  <1>11. owner' \in {owner, c, Nobody}
    BY <1>6, <1>9
  <1>12. plugged => (owner = Peer(c) <=> owner' = Peer(c))
    BY <1>6, <1>9, PeerFacts DEF Granted
  <1>13. /\ port' = [port EXCEPT ![c] = q]
         /\ plugged' = plugged
         /\ ~plugged => owner' = owner
    BY <1>1, <1>5, <1>6
  <1> QED
    BY <1>7, <1>10, <1>11, <1>12, <1>13, OnePortStep

LEMMA RunDividerInv ==
    ASSUME IInv, NEW c \in Consoles, NEW clocks \in Ticks, RunDivider(c, clocks)
    PROVE  IInv'
  <1>1. CASE plugged
    BY <1>1 DEF RunDivider, IInv, TypeOK, OwnerIsTheDriver
  <1>2. CASE ~plugged
    <2> DEFINE phase == (port[c].phase + clocks) % NormalPeriod
               q == [port[c] EXCEPT !.phase = phase]
    <2>1. port[c] \in Port /\ Sound(port[c]) /\ ~Drives(port[c])
      BY DEF IInv, TypeOK, RunDivider
    <2>2. phase \in 0..(NormalPeriod - 1)
      <3>1. port[c].phase + clocks \in Nat
        BY <2>1, CableAssumption, PortAssumption DEF Port
      <3> QED BY <3>1, ModRange, PortAssumption
    <2> HIDE DEF phase
    <2>3. /\ q \in Port
          /\ q.active = port[c].active /\ q.internal = port[c].internal
          /\ q.control = port[c].control /\ q.bits = port[c].bits
      BY <2>1, <2>2 DEF Port
    <2>4. port' = [port EXCEPT ![c] = q] /\ plugged' = plugged /\ owner' = owner
      BY <1>2 DEF RunDivider, phase
    <2> HIDE DEF q
    <2>5. Sound(q) /\ ~Drives(q)
      BY <2>1, <2>3 DEF Sound, Drives
    <2> QED
      BY <1>2, <2>4, <2>5, OnePortStep DEF IInv, OwnerIsTheDriver
  <1> QED BY <1>1, <1>2 DEF IInv, TypeOK

(* Moving the phase of a driving port below one bit.                       *)
LEMMA PhaseMoveSound ==
    ASSUME NEW p \in Port, Sound(p), Drives(p),
           NEW phase \in Nat, phase < CyclesPerBit(p)
    PROVE  LET q == [p EXCEPT !.phase = phase]
           IN  /\ Sound(q)
               /\ Drives(q)
               /\ q.data = p.data
               /\ q.bits = p.bits
               /\ q.internal = p.internal
  <1> DEFINE q == [p EXCEPT !.phase = phase]
  <1>1. phase \in 0..(NormalPeriod - 1)
    BY PeriodRange, PortAssumption
  <1>2. /\ q \in Port
        /\ q.active = p.active /\ q.internal = p.internal
        /\ q.control = p.control /\ q.bits = p.bits
        /\ q.fast = p.fast /\ q.phase = phase /\ q.data = p.data
    BY <1>1 DEF Port
  <1> HIDE DEF q
  <1>3. CyclesPerBit(q) = CyclesPerBit(p)
    BY <1>2 DEF CyclesPerBit
  <1>4. Sound(q) /\ Drives(q)
    BY <1>2, <1>3 DEF Sound, Drives
  <1> QED BY <1>2, <1>4 DEF q

LEMMA PhaseMove ==
    ASSUME IInv, NEW c \in Consoles, Drives(port[c]),
           NEW phase \in Nat, phase < CyclesPerBit(port[c])
    PROVE  LET q == [port[c] EXCEPT !.phase = phase]
           IN  /\ Sound(q)
               /\ Drives(q)
               /\ q.data = port[c].data
               /\ q.bits = port[c].bits
               /\ q.internal = port[c].internal
  <1>1. port[c] \in Port /\ Sound(port[c])
    BY DEF IInv, TypeOK
  <1> QED BY <1>1, PhaseMoveSound

LEMMA RunPhaseInv ==
    ASSUME IInv, NEW c \in Consoles, NEW clocks \in Ticks, RunPhase(c, clocks)
    PROVE  IInv'
  <1> DEFINE phase == port[c].phase + clocks
             q == [port[c] EXCEPT !.phase = phase]
  <1>1. port[c] \in Port
    BY DEF IInv, TypeOK
  <1>2. phase \in Nat /\ phase < CyclesPerBit(port[c])
    BY <1>1, PeriodRange, CableAssumption, PortAssumption
    DEF RunPhase, EdgeDue, Port
  <1>3. /\ port' = [port EXCEPT ![c] = q]
        /\ plugged' = plugged /\ owner' = owner /\ Drives(port[c])
    BY DEF RunPhase
  <1> HIDE DEF phase
  <1>4. Sound(q) /\ Drives(q)
    BY <1>2, <1>3, PhaseMove
  <1> HIDE DEF q
  <1> QED
    BY <1>3, <1>4, OnePortStep DEF IInv, OwnerIsTheDriver

LEMMA HoldEdgeInv ==
    ASSUME IInv, NEW c \in Consoles, NEW clocks \in Ticks, HoldEdge(c, clocks)
    PROVE  IInv'
  <1> DEFINE phase == CyclesPerBit(port[c]) - 1
             q == [port[c] EXCEPT !.phase = phase]
  <1>1. phase \in Nat /\ phase < CyclesPerBit(port[c])
    BY PeriodRange DEF IInv, TypeOK
  <1>2. /\ port' = [port EXCEPT ![c] = q]
        /\ plugged' = plugged /\ owner' = owner /\ Drives(port[c])
    BY DEF HoldEdge
  <1> HIDE DEF phase
  <1>3. Sound(q) /\ Drives(q)
    BY <1>1, <1>2, PhaseMove
  <1> HIDE DEF q
  <1> QED
    BY <1>2, <1>3, OnePortStep DEF IInv, OwnerIsTheDriver

(* What one edge does to the two ports of a plugged cable.                 *)
LEMMA EdgeOnCable ==
    ASSUME IInv, NEW c \in Consoles, NEW clocks \in Ticks, EmitEdge(c, clocks),
           plugged
    PROVE  LET d == Peer(c)
           IN  /\ Drives(port[c]) /\ Follows(port[d])
               /\ port' \in [Consoles -> Port]
               /\ Sound(port'[c]) /\ Sound(port'[d])
               /\ Drives(port'[c]) = (port'[c].bits # ByteBits)
               /\ port'[c].active = (port'[c].bits # ByteBits)
               /\ ~Drives(port'[d])
               /\ port'[c].bits = port[c].bits + 1
               /\ port'[d].bits = port[d].bits + 1
               /\ port'[c].data = ShiftedData(port[c].data, Outgoing(port[d]))
               /\ port'[d].data = ShiftedData(port[d].data, Outgoing(port[c]))
  <1> DEFINE d == Peer(c)
             phase == port[c].phase + clocks - CyclesPerBit(port[c])
             q == [port[c] EXCEPT !.phase = phase]
             timed == [port EXCEPT ![c] = q]
  <1>1. /\ port \in [Consoles -> Port]
        /\ port[c] \in Port /\ port[d] \in Port
        /\ Sound(port[c]) /\ Sound(port[d])
        /\ Drives(port[c]) /\ port[d].active
        /\ d \in Consoles /\ c # d
    BY PeerFacts DEF IInv, TypeOK, EmitEdge
  <1>2. Follows(port[d])
    BY <1>1 DEF IInv, OwnerIsTheDriver, Follows, Drives
  <1>3. phase \in Nat /\ phase < CyclesPerBit(port[c])
    <2>1. /\ port[c].phase \in Nat
          /\ port[c].phase < CyclesPerBit(port[c])
          /\ port[c].phase + clocks >= CyclesPerBit(port[c])
      BY <1>1 DEF Sound, EmitEdge, EdgeDue, Port
    <2>2. /\ clocks \in Nat /\ clocks <= CyclesPerBit(port[c])
          /\ CyclesPerBit(port[c]) \in Nat
      BY <1>1, PeriodRange, CableAssumption, PortAssumption
    <2> QED BY <2>1, <2>2
  <1> HIDE DEF phase
  <1>4. /\ Sound(q) /\ Drives(q)
        /\ q.data = port[c].data /\ q.bits = port[c].bits
        /\ q.internal = port[c].internal
    BY <1>1, <1>3, PhaseMove
  <1>5. timed[c] = q /\ timed[d] = port[d]
    BY <1>1
  <1>6. port' = Exchange(timed, c)
    BY DEF EmitEdge, phase
  <1> HIDE DEF q
  <1>7. /\ port'[c] = Shift(q, Outgoing(port[d]))
        /\ port'[d] = Shift(port[d], Outgoing(q))
        /\ DOMAIN port' = Consoles
    BY <1>1, <1>2, <1>5, <1>6 DEF Exchange
  <1>8. Outgoing(q) \in Bit /\ Outgoing(port[d]) \in Bit
        /\ Outgoing(q) = Outgoing(port[c])
    <2>1. 1 \in 1..ByteBits
      BY PortAssumption
    <2> QED BY <2>1, <1>1, <1>4 DEF Outgoing, Port, Byte
  <1>9. /\ Sound(port'[c])
        /\ port'[c].bits = port[c].bits + 1
        /\ port'[c].active = (port[c].bits + 1 # ByteBits)
        /\ port'[c].internal = q.internal
        /\ port'[c].data = ShiftedData(port[c].data, Outgoing(port[d]))
    <2>1. q \in Port /\ q.active
      BY <1>4 DEF Sound, Drives
    <2> QED BY <1>4, <1>7, <1>8, <2>1, ShiftSound
  <1>10. /\ Sound(port'[d])
         /\ port'[d].bits = port[d].bits + 1
         /\ port'[d].internal = port[d].internal
         /\ port'[d].data = ShiftedData(port[d].data, Outgoing(port[c]))
    BY <1>1, <1>7, <1>8, ShiftSound
  <1>11. Drives(port'[c]) = (port'[c].bits # ByteBits)
    BY <1>1, <1>4, <1>9 DEF Drives
  <1>12. ~Drives(port'[d])
    BY <1>2, <1>10 DEF Drives, Follows
  <1>13. port' \in [Consoles -> Port]
    <2>1. port' = [x \in Consoles |-> port'[x]]
      BY <1>1, <1>6 DEF Exchange
    <2>2. \A x \in Consoles : port'[x] \in Port
      BY <1>9, <1>10, PeerFacts DEF Sound
    <2> QED BY <2>1, <2>2
  <1> QED
    BY <1>1, <1>2, <1>9, <1>10, <1>11, <1>12, <1>13

LEMMA EmitEdgeInv ==
    ASSUME IInv, NEW c \in Consoles, NEW clocks \in Ticks, EmitEdge(c, clocks)
    PROVE  IInv'
  <1> DEFINE d == Peer(c)
  <1>1. CASE plugged
    <2>1. /\ port' \in [Consoles -> Port]
          /\ Sound(port'[c]) /\ Sound(port'[d])
          /\ Drives(port'[c]) <=> port'[c].active
          /\ ~Drives(port'[d])
      BY <1>1, EdgeOnCable
    <2>2. owner = c
      BY <1>1 DEF EmitEdge, IInv, OwnerIsTheDriver
    <2>3. owner' = IF ~port'[c].active THEN Nobody ELSE c
      BY <1>1, <2>2 DEF EmitEdge, Released
    <2>4. plugged' = plugged
      BY DEF EmitEdge
    <2>5. \A x \in Consoles : x = c \/ x = d
      BY PeerFacts
    <2>6. \A x \in Consoles : owner' = x <=> Drives(port'[x])
      BY <2>1, <2>3, <2>5, PeerFacts
    <2>7. \A x \in Consoles : Sound(port'[x])
      BY <2>1, <2>5
    <2> QED
      BY <1>1, <2>1, <2>3, <2>4, <2>6, <2>7
      DEF IInv, TypeOK, OwnerIsTheDriver
  <1>2. CASE ~plugged
    <2> DEFINE phase == port[c].phase + clocks - CyclesPerBit(port[c])
               q == [port[c] EXCEPT !.phase = phase]
               r == Shift(q, 1)
    <2>1. port[c] \in Port /\ Sound(port[c]) /\ Drives(port[c])
      BY DEF IInv, TypeOK, EmitEdge
    <2>2. phase \in Nat /\ phase < CyclesPerBit(port[c])
      <3>1. /\ port[c].phase \in Nat
            /\ port[c].phase < CyclesPerBit(port[c])
            /\ port[c].phase + clocks >= CyclesPerBit(port[c])
        BY <2>1 DEF Sound, EmitEdge, EdgeDue, Port
      <3>2. /\ clocks \in Nat /\ clocks <= CyclesPerBit(port[c])
            /\ CyclesPerBit(port[c]) \in Nat
        BY <2>1, PeriodRange, CableAssumption, PortAssumption
      <3> QED BY <3>1, <3>2
    <2>3. port' = [[port EXCEPT ![c] = q] EXCEPT ![c] = Shift(@, 1)]
      BY <1>2 DEF EmitEdge
    <2> HIDE DEF phase
    <2>4. Sound(q) /\ Drives(q)
      BY <2>1, <2>2, PhaseMove
    <2> HIDE DEF q
    <2>5. port' = [port EXCEPT ![c] = r]
      BY <2>3 DEF IInv, TypeOK
    <2>6. Sound(r)
      <3>1. q \in Port /\ q.active /\ 1 \in Bit
        BY <2>4 DEF Sound, Drives, Bit
      <3> QED BY <2>4, <3>1, ShiftSound
    <2>7. plugged' = plugged /\ owner' = owner
      BY <1>2 DEF EmitEdge
    <2> HIDE DEF r
    <2> QED
      BY <1>2, <2>5, <2>6, <2>7, OnePortStep
  <1> QED BY <1>1, <1>2 DEF IInv, TypeOK

LEMMA ResetLinkInv ==
    ASSUME IInv, NEW c \in Consoles, ResetLink(c)
    PROVE  IInv'
  <1> DEFINE q == Reset(port[c])
  <1>1. Sound(q) /\ ~Drives(q)
    BY ResetSound DEF IInv, TypeOK
  <1>2. port' = [port EXCEPT ![c] = q] /\ plugged' = plugged
    BY DEF ResetLink
  <1>3. owner' = IF plugged /\ Drives(port[c]) THEN Released(owner, c) ELSE owner
    BY DEF ResetLink
  <1>4. /\ owner' \in {owner, Nobody}
        /\ plugged => owner' # c
        /\ plugged => (owner = Peer(c) <=> owner' = Peer(c))
        /\ ~plugged => owner' = owner
    BY <1>3, PeerFacts DEF IInv, OwnerIsTheDriver, Released
  <1> HIDE DEF q
  <1> QED BY <1>1, <1>2, <1>4, OnePortStep

LEMMA DisconnectInv ==
    ASSUME IInv, Disconnect
    PROVE  IInv'
  <1>1. \A c \in Consoles : Sound(port'[c])
    BY ResetSound DEF IInv, TypeOK, Disconnect
  <1>2. port' \in [Consoles -> Port]
    BY ResetType DEF IInv, TypeOK, Disconnect
  <1> QED
    BY <1>1, <1>2 DEF IInv, TypeOK, OwnerIsTheDriver, Disconnect

(* Player two's copy is as sound as the port it was copied from.           *)
LEMMA CopySound ==
    ASSUME IInv
    PROVE  /\ Sound(port[First]) /\ Sound(Copy)
           /\ Drives(Copy) = Drives(port[First])
  <1>1. /\ port[First] \in Port /\ Sound(port[First])
        /\ port[Second] \in Port
    BY CableAssumption DEF IInv, TypeOK, Consoles
  <1>2. /\ Copy \in Port
        /\ Copy.active = (port[First].active /\ port[First].control.start)
        /\ Copy.internal = port[First].internal
        /\ Copy.control = port[First].control
        /\ Copy.bits = port[First].bits
        /\ Copy.phase < CyclesPerBit(Copy)
    BY <1>1, RestoreType DEF Copy
  <1>3. Copy.active = port[First].active
    BY <1>1, <1>2 DEF Sound, Port
  <1> QED
    BY <1>1, <1>2, <1>3 DEF Sound, Drives

(* Plugging the cable into two ports that drive nothing.                   *)
LEMMA PlugInInv ==
    ASSUME IInv, NEW one, NEW two, PlugIn(one, two),
           Sound(one), ~Drives(one), Sound(two), ~Drives(two)
    PROVE  IInv'
  <1>1. First \in Consoles /\ Second \in Consoles /\ First # Second
        /\ Consoles = {First, Second}
    BY CableAssumption DEF Consoles
  <1>2. /\ port' = [port EXCEPT ![First] = one, ![Second] = two]
        /\ plugged' = TRUE /\ owner' = Nobody
    BY DEF PlugIn
  <1>3. /\ port'[First] = one /\ port'[Second] = two
        /\ port' \in [Consoles -> Port]
    BY <1>1, <1>2 DEF IInv, TypeOK, Sound
  <1> QED
    BY <1>1, <1>2, <1>3, PeerFacts DEF IInv, TypeOK, OwnerIsTheDriver

LEMMA StartHandshakeInv ==
    ASSUME IInv, StartHandshake
    PROVE  IInv'
  <1>1. ASSUME NEW p \in Port, Sound(p)
        PROVE  Sound(HandshakeReset(p)) /\ ~Drives(HandshakeReset(p))
    <2> DEFINE q == WriteData(p, ProbeByte, FALSE, FALSE)
               sc == [start |-> TRUE, internal |-> FALSE, fast |-> FALSE]
    <2>1. ProbeByte \in Byte /\ FALSE \in BOOLEAN /\ TRUE \in BOOLEAN
      BY CableAssumption
    <2>2. Sound(q)
      BY <1>1, <2>1, WriteDataSound
    <2>3. q \in Port
      BY <2>2 DEF Sound
    <2>4. sc \in Control /\ sc.internal = FALSE
      BY DEF Control
    <2> HIDE DEF q, sc
    <2>5. /\ Sound(WriteControl(q, sc, FALSE, FALSE, TRUE))
          /\ Drives(WriteControl(q, sc, FALSE, FALSE, TRUE)) =
               (sc.start /\ sc.internal /\ TRUE)
      BY <2>1, <2>2, <2>3, <2>4, WriteControlSound
    <2> QED BY <2>4, <2>5 DEF HandshakeReset, q, sc
  <1> DEFINE one == HandshakeReset(port[First])
             two == HandshakeReset(Copy)
  <1>2. Sound(one) /\ ~Drives(one) /\ Sound(two) /\ ~Drives(two)
    BY <1>1, CopySound DEF Sound
  <1>3. PlugIn(one, two)
    BY DEF StartHandshake
  <1> HIDE DEF one, two
  <1> QED BY <1>2, <1>3, PlugInInv

LEMMA StartIdleInv ==
    ASSUME IInv, StartIdle
    PROVE  IInv'
  <1>1. PlugIn(port[First], Copy) /\ ~Drives(port[First])
    BY DEF StartIdle, StartAsIs
  <1> QED BY <1>1, CopySound, PlugInInv

LEMMA NextInv == IInv /\ [Next]_vars => IInv'
  <1> SUFFICES ASSUME IInv, [Next]_vars PROVE IInv'
    OBVIOUS
  <1>1. CASE StartHandshake
    BY <1>1, StartHandshakeInv
  <1>2. CASE Disconnect
    BY <1>2, DisconnectInv
  <1>3. ASSUME NEW c \in Consoles, ResetLink(c) PROVE IInv'
    BY <1>3, ResetLinkInv
  <1>4. ASSUME NEW c \in Consoles, WriteSB(c) PROVE IInv'
    BY <1>4, WriteSBInv
  <1>5. ASSUME NEW c \in Consoles, WriteSC(c) PROVE IInv'
    BY <1>5, WriteSCInv
  <1>6. ASSUME NEW c \in Consoles, Elapse(c) PROVE IInv'
    BY <1>6, RunDividerInv, RunPhaseInv, HoldEdgeInv, EmitEdgeInv
    DEF Elapse, Tick
  <1>7. CASE UNCHANGED vars
    BY <1>7 DEF vars, IInv, TypeOK, OwnerIsTheDriver
  <1>8. CASE StartIdle
    BY <1>8, StartIdleInv
  <1> QED
    BY <1>1, <1>2, <1>3, <1>4, <1>5, <1>6, <1>7, <1>8
    DEF Next, Frontend, Guest

(* The invariant holds in every behaviour of the two consoles.             *)
THEOREM CableInvariant == Spec => []IInv
  BY InitInv, NextInv, PTL DEF Spec

(* Every reachable state of the ports and the cable is well formed.        *)
THEOREM CableTypes == Spec => []TypeOK
  <1>1. IInv => TypeOK
    BY DEF IInv
  <1> QED BY <1>1, CableInvariant, PTL

(* The cable's owner is exactly the console that drives the clock.         *)
THEOREM CableArbitration == Spec => []OwnerIsTheDriver
  <1>1. IInv => OwnerIsTheDriver
    BY DEF IInv
  <1> QED BY <1>1, CableInvariant, PTL

(* Two consoles never drive one cable.                                     *)
THEOREM CableOneDriver == Spec => []OneDriver
  <1>1. IInv => OneDriver
    BY CableAssumption DEF IInv, OwnerIsTheDriver, OneDriver, Consoles
  <1> QED BY <1>1, CableInvariant, PTL

(* The guest reads its real role from SC.                                  *)
THEOREM CableRoles == Spec => []GuestSeesItsRole
  <1>1. IInv => GuestSeesItsRole
    BY DEF IInv, Sound, GuestSeesItsRole
  <1> QED BY <1>1, CableInvariant, PTL

(* No console ever holds back more than one edge.                          *)
THEOREM CableNoBacklog == Spec => []NoEdgeBacklog
  <1>1. IInv => NoEdgeBacklog
    BY DEF IInv, Sound, NoEdgeBacklog
  <1> QED BY <1>1, CableInvariant, PTL

-----------------------------------------------------------------------------
(* Pulling the cable leaves no guest with a transfer nobody can complete:  *)
(* disconnect() resets both ports (serial.cpp, SerialCable::disconnect).   *)
THEOREM CableUnplug == Spec => UnplugStrandsNobody
  <1> DEFINE Stranded == plugged /\ ~plugged' => \A c \in Consoles : ~port'[c].active
  <1>1. [Next]_vars => [Stranded]_vars
    <2> SUFFICES ASSUME [Next]_vars, plugged, ~plugged', NEW c \in Consoles
                 PROVE  ~port'[c].active
      OBVIOUS
    <2>1. Disconnect
      BY DEF Next, Frontend, Guest, StartHandshake, StartIdle, StartAsIs, PlugIn, ResetLink,
             WriteSB, WriteSC, Elapse, Tick, RunDivider, RunPhase, HoldEdge, EmitEdge, vars
    <2> QED BY <2>1 DEF Disconnect, Reset
  <1> QED
    BY <1>1, PTL DEF Spec, UnplugStrandsNobody

-----------------------------------------------------------------------------
(* While the cable is in nothing but an edge changes a bit counter, except *)
(* to set it back to zero.                                                 *)
LEMMA OnlyEdgesMove ==
    ASSUME IInv, [Next]_vars, plugged, NEW c \in Consoles,
           port'[c].bits # 0, port'[c].bits # port[c].bits
    PROVE  \E d \in Consoles, clocks \in Ticks : EmitEdge(d, clocks)
  <1>0. /\ port \in [Consoles -> Port]
        /\ port'[c].bits # 0
        /\ port'[c].bits # port[c].bits
    BY DEF IInv, TypeOK
  <1>1. ASSUME NEW x \in Consoles, NEW q,
               q.bits = 0 \/ q.bits = port[x].bits,
               port' = [port EXCEPT ![x] = q]
        PROVE  FALSE
    <2>1. CASE x = c
      <3>1. port'[c] = q
        BY <1>0, <1>1, <2>1
      <3> QED BY <1>0, <1>1, <2>1, <3>1
    <2>2. CASE x # c
      <3>1. port'[c] = port[c]
        BY <1>0, <1>1, <2>2
      <3> QED BY <1>0, <3>1
    <2> QED BY <2>1, <2>2
  <1>2. ~StartHandshake /\ ~StartIdle
    BY DEF StartHandshake, StartIdle, StartAsIs, PlugIn
  <1>3. ~Disconnect
    <2>1. Disconnect => port'[c].bits = 0
      BY DEF Disconnect, Reset
    <2> QED BY <1>0, <2>1
  <1>4. ASSUME NEW x \in Consoles PROVE ~ResetLink(x)
    <2> SUFFICES ASSUME ResetLink(x) PROVE FALSE
      OBVIOUS
    <2> DEFINE q == Reset(port[x])
    <2>1. q.bits = 0
      BY DEF Reset
    <2>2. port' = [port EXCEPT ![x] = q]
      BY DEF ResetLink
    <2> HIDE DEF q
    <2> QED BY <1>1, <2>1, <2>2
  <1>5. ASSUME NEW x \in Consoles PROVE ~WriteSB(x)
    <2> SUFFICES ASSUME WriteSB(x) PROVE FALSE
      OBVIOUS
    <2>1. PICK byte \in Bytes :
            port' = [port EXCEPT ![x] = WriteData(@, byte, plugged, FALSE)]
      BY DEF WriteSB
    <2> DEFINE q == WriteData(port[x], byte, plugged, FALSE)
    <2>2. q.bits = port[x].bits
      <3>1. port[x] \in Port
        BY <1>0
      <3>2. [port[x] EXCEPT !.data = byte].bits = port[x].bits
        BY <3>1 DEF Port
      <3> QED BY <3>2 DEF WriteData
    <2>3. port' = [port EXCEPT ![x] = q]
      BY <2>1
    <2> HIDE DEF q
    <2> QED BY <1>1, <2>2, <2>3
  <1>6. ASSUME NEW x \in Consoles PROVE ~WriteSC(x)
    <2> SUFFICES ASSUME WriteSC(x) PROVE FALSE
      OBVIOUS
    <2>1. PICK sc \in Commands :
            port' = [port EXCEPT ![x] = ControlledPort(x, sc)]
      BY DEF WriteSC
    <2> DEFINE q == ControlledPort(x, sc)
    <2>2. q.bits = 0
      BY DEF ControlledPort, WriteControl, PhaseWithin, Continues
    <2>3. port' = [port EXCEPT ![x] = q]
      BY <2>1
    <2> HIDE DEF q
    <2> QED BY <1>1, <2>2, <2>3
  <1>7. ASSUME NEW x \in Consoles, NEW clocks \in Ticks
        PROVE  ~RunDivider(x, clocks) /\ ~RunPhase(x, clocks)
               /\ ~HoldEdge(x, clocks)
    <2>1. ~RunDivider(x, clocks)
      BY <1>0 DEF RunDivider
    <2>2. ASSUME NEW phase, port' = [port EXCEPT ![x].phase = phase]
          PROVE  FALSE
      <3> DEFINE q == [port[x] EXCEPT !.phase = phase]
      <3>1. port[x] \in Port /\ port' = [port EXCEPT ![x] = q]
        BY <1>0, <2>2
      <3>2. q.bits = port[x].bits
        BY <3>1 DEF Port
      <3> HIDE DEF q
      <3> QED BY <1>1, <3>1, <3>2
    <2> QED BY <2>1, <2>2 DEF RunPhase, HoldEdge
  <1>8. ~UNCHANGED vars
    BY <1>0 DEF vars
  <1> QED
    BY <1>2, <1>3, <1>4, <1>5, <1>6, <1>7, <1>8
    DEF Next, Frontend, Guest, Elapse, Tick

(* No edge is lost or made up, and the two outgoing bits cross.            *)
THEOREM CableExchange == Spec => EdgesAreExchanged
  <1> DEFINE Exchanged ==
        plugged /\ (\E c \in Consoles : Moves(c)) =>
            /\ \E c \in Consoles : Drives(port[c]) /\ Follows(port[Peer(c)])
            /\ \A c \in Consoles : Moves(c)
            /\ BitsCross
  <1>1. IInv /\ [Next]_vars => [Exchanged]_vars
    <2> SUFFICES ASSUME IInv, [Next]_vars, plugged,
                        NEW x \in Consoles, Moves(x)
                 PROVE  /\ \E c \in Consoles :
                              Drives(port[c]) /\ Follows(port[Peer(c)])
                        /\ \A c \in Consoles : Moves(c)
                        /\ BitsCross
      OBVIOUS
    <2>1. PICK c \in Consoles, clocks \in Ticks : EmitEdge(c, clocks)
      <3>1. port[x].bits \in Nat /\ port'[x].bits = port[x].bits + 1
        BY DEF IInv, TypeOK, Port, Moves
      <3>2. port'[x].bits # 0 /\ port'[x].bits # port[x].bits
        BY <3>1
      <3> QED BY <3>2, OnlyEdgesMove
    <2> DEFINE d == Peer(c)
    <2>2. /\ Drives(port[c]) /\ Follows(port[d])
          /\ port'[c].bits = port[c].bits + 1
          /\ port'[d].bits = port[d].bits + 1
          /\ port'[c].data = ShiftedData(port[c].data, Outgoing(port[d]))
          /\ port'[d].data = ShiftedData(port[d].data, Outgoing(port[c]))
      BY <2>1, EdgeOnCable
    <2>3. /\ port'[c].data[ByteBits] = port[d].data[1]
          /\ port'[d].data[ByteBits] = port[c].data[1]
      <3>1. ByteBits \in 1..ByteBits
        BY PortAssumption
      <3> QED BY <2>2, <3>1 DEF ShiftedData, Outgoing
    <2>4. Peer(d) = c /\ \A y \in Consoles : y = c \/ y = d
      BY PeerFacts
    <2> QED BY <2>2, <2>3, <2>4 DEF Moves, BitsCross
  <1> QED
    BY <1>1, CableInvariant, PTL DEF Spec, EdgesAreExchanged

-----------------------------------------------------------------------------
(* The cable seen byte by byte (SerialExchange).                           *)
LEMMA ExchangeIsCable == ExchangeSpec => Spec
<1>1. ExchangeInit => Init
  BY DEF ExchangeInit
<1>2. [ExchangeNext]_exchangeVars => [Next]_vars
  BY DEF ExchangeNext, exchangeVars, vars
<1> QED
  BY <1>1, <1>2, PTL DEF ExchangeSpec, Spec

-----------------------------------------------------------------------------
(* The arbiter. In a state of the cable the abstract driver is the cable's *)
(* own record of it, so that a step of the cable is a step of the arbiter  *)
(* when the record changes by becoming free or by being claimed.           *)
OnTheLine == IF plugged /\ Drives(port[First]) THEN First
             ELSE IF plugged /\ Drives(port[Second]) THEN Second
             ELSE Nobody

LEMMA OwnerIsOnTheLine == IInv => OnTheLine = owner
BY CableAssumption DEF IInv, TypeOK, OwnerIsTheDriver, OnTheLine, Consoles

LEMMA OwnerMoves ==
    ASSUME IInv, [Next]_vars
    PROVE  owner' = owner \/ owner = Nobody \/ owner' = Nobody
<1>1. CASE Frontend
  BY <1>1 DEF Frontend, StartHandshake, StartIdle, StartAsIs, PlugIn, Disconnect,
              ResetLink, Released
<1>2. ASSUME NEW c \in Consoles, WriteSB(c) PROVE owner' = owner
  BY <1>2 DEF WriteSB
<1>3. ASSUME NEW c \in Consoles, Elapse(c) PROVE owner' = owner \/ owner' = Nobody
  BY <1>3 DEF Elapse, Tick, RunDivider, RunPhase, HoldEdge, EmitEdge, Released
<1>4. ASSUME NEW c \in Consoles, WriteSC(c)
      PROVE  owner' = owner \/ owner = Nobody \/ owner' = Nobody
  <2>1. PICK sc \in Commands : owner' = ControlledOwner(c, sc)
    BY <1>4 DEF WriteSC
  <2> DEFINE holder == IF GivesClockBack(port[c], sc, FALSE)
                         THEN Released(owner, c) ELSE owner
  <2>2. holder = owner \/ (owner = c /\ holder = Nobody)
    BY DEF Released
  <2>3. owner' \in {owner, holder} \/ (owner' = c /\ holder \in {Nobody, c})
    BY <2>1 DEF ControlledOwner, Granted
  <2> HIDE DEF holder
  <2> QED
    BY <2>2, <2>3
<1> QED
  BY <1>1, <1>2, <1>3, <1>4 DEF Next, Guest, vars

(* Every behaviour of the cable is one of the arbiter: the line is taken   *)
(* only when it is free and handed over only by becoming free              *)
(* (serial.cpp, SerialCable::claim_internal and release_internal).         *)
THEOREM CableImplementsArbiter == ExchangeSpec => ImplementsArbiter
<1>1. Init /\ IInv => Arbiter!Init
  BY OwnerIsOnTheLine DEF Init, Arbiter!Init, OnTheLine
<1>2. IInv /\ IInv' /\ [Next]_vars => [Arbiter!Next]_(OnTheLine)
  <2> SUFFICES ASSUME IInv, IInv', [Next]_vars
               PROVE  [Arbiter!Next]_(OnTheLine)
    OBVIOUS
  <2>1. OnTheLine = owner /\ (OnTheLine = owner)'
    BY OwnerIsOnTheLine, PTL
  <2>2. owner \in Consoles \cup {Nobody} /\ owner' \in Consoles \cup {Nobody}
    BY DEF IInv, TypeOK
  <2>3. owner' = owner \/ owner = Nobody \/ owner' = Nobody
    BY OwnerMoves
  <2> QED
    BY <2>1, <2>2, <2>3 DEF Arbiter!Next, Arbiter!Claim, Arbiter!Yield, OnTheLine
<1>3. Spec => ImplementsArbiter
  BY <1>1, <1>2, CableInvariant, PTL DEF Spec, ImplementsArbiter, Arbiter!Spec, OnTheLine
<1> QED
  BY <1>3, ExchangeIsCable

-----------------------------------------------------------------------------
(* The bytes. A byte that is under way on a plugged cable still holds the  *)
(* bits of its own that it has not sent; two consoles that have moved the  *)
(* same number of bits hold, below those, what the other has sent. Out of  *)
(* step (one of them re-armed) nothing can be said, and nothing completes  *)
(* together either.                                                        *)
StillToSend(c) ==
    \A i \in 1..(ByteBits - port[c].bits) : port[c].data[i] = loaded[c][i + port[c].bits]

Received(c) ==
    \A i \in 1..port[c].bits :
        port[c].data[ByteBits - port[c].bits + i] = loaded[Peer(c)][i]

InFlight ==
    plugged => \A c \in Consoles : port[c].active =>
        /\ StillToSend(c)
        /\ port[Peer(c)].active /\ port[Peer(c)].bits = port[c].bits => Received(c)

\* Without a cable nobody shifts in the external role.
NothingFollows == ~plugged => \A c \in Consoles : Follows(port[c]) => port[c].bits = 0

ExchangeInv ==
    IInv /\ loaded \in [Consoles -> Byte] /\ InFlight /\ NothingFollows

LEMMA RememberType ==
    ASSUME loaded \in [Consoles -> Byte], port' \in [Consoles -> Port], Remember
    PROVE  /\ loaded' \in [Consoles -> Byte]
           /\ \A c \in Consoles :
                loaded'[c] = IF port'[c].bits = 0 THEN port'[c].data ELSE loaded[c]
BY DEF Remember, Port

(* A step that shifts nothing: a port that is armed afterwards stands at   *)
(* the start of a byte, or is as far in the same byte as before.           *)
Kept(c) ==
    \/ ~port'[c].active
    \/ port'[c].bits = 0
    \/ port[c].active /\ port'[c].bits = port[c].bits /\ port'[c].data = port[c].data

LEMMA KeptInFlight ==
    ASSUME ExchangeInv, IInv', Remember,
           \A c \in Consoles : Kept(c),
           plugged \/ \A c \in Consoles : port'[c].active => port'[c].bits = 0
    PROVE  InFlight'
<1>0. /\ port' \in [Consoles -> Port] /\ port \in [Consoles -> Port]
      /\ loaded \in [Consoles -> Byte]
  BY DEF ExchangeInv, IInv, TypeOK
<1>1. \A c \in Consoles :
        loaded'[c] = IF port'[c].bits = 0 THEN port'[c].data ELSE loaded[c]
  BY <1>0, RememberType
<1>2. SUFFICES ASSUME NEW c \in Consoles, port'[c].active
               PROVE  /\ StillToSend(c)'
                      /\ port'[Peer(c)].active /\ port'[Peer(c)].bits = port'[c].bits
                           => Received(c)'
  BY DEF InFlight
<1>3. CASE port'[c].bits = 0
  <2>1. loaded'[c] = port'[c].data
    BY <1>1, <1>3
  <2>2. StillToSend(c)'
    BY <1>3, <2>1, PortAssumption DEF StillToSend
  <2>3. Received(c)'
    BY <1>3 DEF Received
  <2> QED
    BY <2>2, <2>3
<1>4. CASE port'[c].bits # 0
  <2>1. /\ plugged /\ port[c].active /\ port'[c].bits = port[c].bits
        /\ port'[c].data = port[c].data /\ loaded'[c] = loaded[c]
    BY <1>1, <1>2, <1>4 DEF Kept
  <2>2. StillToSend(c)'
    BY <2>1 DEF ExchangeInv, InFlight, StillToSend
  <2>3. ASSUME port'[Peer(c)].active, port'[Peer(c)].bits = port'[c].bits
        PROVE  Received(c)'
    <3>1. Peer(c) \in Consoles
      BY PeerFacts
    <3>2. /\ port[Peer(c)].active /\ port[Peer(c)].bits = port[c].bits
          /\ loaded'[Peer(c)] = loaded[Peer(c)]
      BY <1>1, <1>4, <2>1, <2>3, <3>1 DEF Kept
    <3> QED
      BY <2>1, <3>1, <3>2 DEF ExchangeInv, InFlight, Received
  <2> QED
    BY <2>2, <2>3
<1> QED
  BY <1>3, <1>4

(* An edge: each console sends the first of the bits it had left and       *)
(* receives the first of those the other had left.                         *)
LEMMA EdgeInFlight ==
    ASSUME ExchangeInv, plugged, NEW c \in Consoles,
           port' \in [Consoles -> Port], port[c].active, port[Peer(c)].active,
           port'[c].bits = port[c].bits + 1,
           port'[Peer(c)].bits = port[Peer(c)].bits + 1,
           port'[c].data = ShiftedData(port[c].data, Outgoing(port[Peer(c)])),
           Remember
    PROVE  /\ StillToSend(c)'
           /\ port'[Peer(c)].bits = port'[c].bits => Received(c)'
<1> DEFINE d == Peer(c)
           k == port[c].bits
<1>1. /\ d \in Consoles /\ port[c] \in Port /\ port[d] \in Port
      /\ k \in 0..(ByteBits - 1) /\ ByteBits \in Nat
      /\ port[d].bits \in 0..(ByteBits - 1)
      /\ loaded \in [Consoles -> Byte]
  BY PeerFacts, PortAssumption DEF ExchangeInv, IInv, TypeOK, Sound, Port
<1>2. loaded'[c] = loaded[c] /\ loaded'[d] = loaded[d]
  <2>1. port'[c].bits # 0 /\ port'[d].bits # 0
    BY <1>1
  <2> QED
    BY <1>1, <2>1, RememberType
<1>3. \A i \in 1..ByteBits : port'[c].data[i] =
          IF i = ByteBits THEN port[d].data[1] ELSE port[c].data[i + 1]
  BY DEF ShiftedData, Outgoing
<1>4. \A i \in 1..(ByteBits - k) : port[c].data[i] = loaded[c][i + k]
  BY DEF ExchangeInv, InFlight, StillToSend
<1>5. port'[c].bits = k + 1
  OBVIOUS
<1> HIDE DEF k
<1>6. StillToSend(c)'
  <2> SUFFICES ASSUME NEW i \in 1..(ByteBits - (k + 1))
               PROVE  port'[c].data[i] = loaded[c][i + (k + 1)]
    BY <1>2, <1>5 DEF StillToSend
  <2>1. i \in 1..ByteBits /\ i # ByteBits /\ i + 1 \in 1..(ByteBits - k)
        /\ (i + 1) + k = i + (k + 1)
    BY <1>1
  <2> QED
    BY <1>3, <1>4, <2>1
<1>7. ASSUME port'[d].bits = port'[c].bits
      PROVE  Received(c)'
  <2>1. port[d].bits = k
    BY <1>1, <1>5, <1>7
  <2>2. \A i \in 1..k : port[c].data[ByteBits - k + i] = loaded[d][i]
    BY <2>1 DEF ExchangeInv, InFlight, Received, k
  <2>3. port[d].data[1] = loaded[d][k + 1]
    <3>1. \A i \in 1..(ByteBits - k) : port[d].data[i] = loaded[d][i + k]
      BY <1>1, <2>1 DEF ExchangeInv, InFlight, StillToSend
    <3>2. 1 \in 1..(ByteBits - k) /\ 1 + k = k + 1
      BY <1>1
    <3> QED
      BY <3>1, <3>2
  <2> SUFFICES ASSUME NEW i \in 1..(k + 1)
               PROVE  port'[c].data[ByteBits - (k + 1) + i] = loaded[d][i]
    BY <1>2, <1>5 DEF Received
  <2>4. CASE i = k + 1
    <3>1. ByteBits - (k + 1) + i = ByteBits /\ ByteBits \in 1..ByteBits
      BY <1>1, <2>4
    <3> QED
      BY <1>3, <2>3, <2>4, <3>1
  <2>5. CASE i # k + 1
    <3> DEFINE j == ByteBits - (k + 1) + i
    <3>1. /\ i \in 1..k /\ j \in 1..ByteBits /\ j # ByteBits
          /\ j + 1 = ByteBits - k + i
      <4>1. ByteBits \in Nat /\ k \in 0..(ByteBits - 1) /\ i \in 1..(k + 1) /\ i # k + 1
        BY <1>1, <2>5
      <4> QED
        BY <4>1
    <3> HIDE DEF j
    <3>2. port'[c].data[j] = port[c].data[j + 1]
      <4>1. port'[c].data[j] = IF j = ByteBits THEN port[d].data[1] ELSE port[c].data[j + 1]
        BY <1>3, <3>1
      <4> QED
        BY <3>1, <4>1
    <3>3. port[c].data[ByteBits - k + i] = loaded[d][i]
      BY <2>2, <3>1
    <3> QED
      BY <3>1, <3>2, <3>3 DEF j
  <2> QED
    BY <2>4, <2>5
<1> QED
  BY <1>6, <1>7

-----------------------------------------------------------------------------
LEMMA ExchangeInvInit == ExchangeInit => ExchangeInv
<1> SUFFICES ASSUME ExchangeInit PROVE ExchangeInv
  OBVIOUS
<1>1. IInv /\ ~plugged
  BY InitInv DEF ExchangeInit, Init
<1>2. loaded \in [Consoles -> Byte]
  BY <1>1 DEF ExchangeInit, IInv, TypeOK, Port
<1>3. \A c \in Consoles : port[c].bits = 0
  <2>1. PICK byte \in [Consoles -> Bytes], phase \in [Consoles -> 0..(NormalPeriod - 1)] :
          port = [c \in Consoles |-> PostBoot(byte[c], phase[c])]
    BY DEF ExchangeInit, Init
  <2> QED
    BY <2>1 DEF PostBoot
<1> QED
  BY <1>1, <1>2, <1>3 DEF ExchangeInv, InFlight, NothingFollows

(* What an action does to the bits and the byte of a port, its role aside. *)
LEMMA PlugKeeps ==
    ASSUME ExchangeInv, IInv', Remember, StartHandshake \/ StartIdle
    PROVE  InFlight' /\ NothingFollows'
<1>0. /\ port \in [Consoles -> Port] /\ ~plugged /\ plugged'
      /\ First \in Consoles /\ Second \in Consoles /\ First # Second
      /\ \A c \in Consoles : c = First \/ c = Second
  BY CableAssumption DEF ExchangeInv, IInv, TypeOK, StartHandshake, StartIdle, StartAsIs,
                        PlugIn, Consoles
<1>1. ASSUME NEW one, NEW two, PlugIn(one, two),
             one.active => one.bits = 0, two.active => two.bits = 0
      PROVE  \A c \in Consoles : port'[c].active => port'[c].bits = 0
  <2>1. port'[First] = one /\ port'[Second] = two
    BY <1>0, <1>1 DEF PlugIn
  <2> QED
    BY <1>0, <1>1, <2>1
<1>2. \A c \in Consoles : port'[c].active => port'[c].bits = 0
  <2>1. CASE StartHandshake
    <3>1. \A p : HandshakeReset(p).bits = 0
      BY DEF HandshakeReset, WriteControl, PhaseWithin
    <3> QED
      BY <1>1, <2>1, <3>1 DEF StartHandshake
  <2>2. CASE StartIdle
    <3>1. port[First].active => port[First].bits = 0
      BY <1>0, <2>2 DEF StartIdle, Drives, Follows, ExchangeInv, NothingFollows
    <3>2. (Copy.active => port[First].active) /\ Copy.bits = port[First].bits
      <4>1. port[First] \in Port /\ port[Second] \in Port
        BY <1>0
      <4>2. /\ Copy.active = (port[First].active /\ port[First].control.start)
            /\ Copy.bits = port[First].bits
        BY <4>1, RestoreType DEF Copy
      <4> QED BY <4>2
    <3> HIDE DEF Copy
    <3> QED
      BY <1>1, <2>2, <3>1, <3>2 DEF StartIdle, StartAsIs
  <2> QED
    BY <2>1, <2>2
<1>3. InFlight'
  BY <1>2, KeptInFlight DEF Kept
<1> QED
  BY <1>0, <1>3 DEF NothingFollows

(* A step of one port that shifts nothing; without a cable the guest may   *)
(* still rewrite the byte it sends.                                        *)
LEMMA OnePortKeeps ==
    ASSUME ExchangeInv, IInv', Remember, plugged' = plugged,
           NEW c \in Consoles, NEW q, port' = [port EXCEPT ![c] = q],
           \/ ~q.active
           \/ q.bits = 0
           \/ /\ port[c].active /\ q.bits = port[c].bits /\ q.internal = port[c].internal
              /\ plugged => q.data = port[c].data
    PROVE  InFlight' /\ NothingFollows'
<1>1. port'[c] = q /\ \A d \in Consoles : d # c => port'[d] = port[d]
  BY DEF ExchangeInv, IInv, TypeOK
<1>2. CASE plugged
  <2>1. \A d \in Consoles : Kept(d)
    BY <1>1, <1>2 DEF Kept
  <2> QED
    BY <1>2, <2>1, KeptInFlight DEF NothingFollows
<1>3. CASE ~plugged
  <2>1. ASSUME NEW d \in Consoles, Follows(port'[d])
        PROVE  port'[d].bits = 0
    BY <1>1, <1>3, <2>1 DEF Follows, ExchangeInv, NothingFollows
  <2> QED
    BY <1>3, <2>1 DEF InFlight, NothingFollows
<1> QED
  BY <1>2, <1>3 DEF ExchangeInv, IInv, TypeOK

LEMMA EmitEdgeKeeps ==
    ASSUME ExchangeInv, IInv', Remember, NEW c \in Consoles, NEW clocks \in Ticks,
           EmitEdge(c, clocks)
    PROVE  InFlight' /\ NothingFollows'
<1> DEFINE d == Peer(c)
<1>0. /\ port \in [Consoles -> Port] /\ port' \in [Consoles -> Port]
      /\ d \in Consoles /\ Peer(d) = c /\ plugged' = plugged
      /\ \A x \in Consoles : x = c \/ x = d
  BY PeerFacts DEF ExchangeInv, IInv, TypeOK, EmitEdge
<1>1. CASE plugged
  <2>1. /\ port[c].active /\ port[d].active
        /\ port'[c].bits = port[c].bits + 1
        /\ port'[d].bits = port[d].bits + 1
        /\ port'[c].data = ShiftedData(port[c].data, Outgoing(port[d]))
        /\ port'[d].data = ShiftedData(port[d].data, Outgoing(port[c]))
    BY <1>1, EdgeOnCable DEF ExchangeInv, Drives, Follows
  <2>2. StillToSend(c)' /\ (port'[d].bits = port'[c].bits => Received(c)')
    BY <1>0, <1>1, <2>1, EdgeInFlight
  <2>3. StillToSend(d)' /\ (port'[c].bits = port'[d].bits => Received(d)')
    BY <1>0, <1>1, <2>1, EdgeInFlight
  <2> QED
    BY <1>0, <1>1, <2>2, <2>3 DEF InFlight, NothingFollows
<1>2. CASE ~plugged
  <2>1. ASSUME NEW x \in Consoles, Follows(port'[x])
        PROVE  port'[x].bits = 0
    <3>1. CASE x = c
      <4>1. port[c] \in Port /\ port[c].internal
        BY <1>0 DEF EmitEdge, Drives
      <4>2. port'[c].internal = port[c].internal
        <5> DEFINE q == [port[c] EXCEPT !.phase = @ + clocks - CyclesPerBit(port[c])]
        <5>1. port'[c] = Shift(q, 1)
          BY <1>0, <1>2 DEF EmitEdge
        <5>2. q.internal = port[c].internal
          BY <4>1 DEF Port
        <5> HIDE DEF q
        <5> QED
          BY <5>1, <5>2 DEF Shift
      <4> QED
        BY <2>1, <3>1, <4>1, <4>2 DEF Follows
    <3>2. CASE x # c
      <4>1. port'[x] = port[x]
        BY <1>0, <1>2, <3>2 DEF EmitEdge
      <4> QED
        BY <1>2, <2>1, <4>1 DEF ExchangeInv, NothingFollows
    <3> QED
      BY <3>1, <3>2
  <2> QED
    BY <1>0, <1>2, <2>1 DEF InFlight, NothingFollows
<1> QED
  BY <1>1, <1>2 DEF ExchangeInv, IInv, TypeOK

LEMMA ExchangeInvNext ==
    ASSUME ExchangeInv, [ExchangeNext]_exchangeVars
    PROVE  ExchangeInv'
<1>1. CASE UNCHANGED exchangeVars
  BY <1>1 DEF exchangeVars, ExchangeInv, IInv, TypeOK, OwnerIsTheDriver, InFlight,
              StillToSend, Received, NothingFollows
<1>2. CASE Next /\ Remember
  <2>1. IInv' /\ loaded' \in [Consoles -> Byte]
    BY <1>2, NextInv, RememberType DEF ExchangeInv, IInv, TypeOK
  <2> SUFFICES InFlight' /\ NothingFollows'
    BY <2>1 DEF ExchangeInv
  <2>2. port \in [Consoles -> Port] /\ port' \in [Consoles -> Port]
    BY <2>1 DEF ExchangeInv, IInv, TypeOK
  <2>3. CASE StartHandshake \/ StartIdle
    BY <1>2, <2>1, <2>3, PlugKeeps
  <2>4. CASE Disconnect
    <3>1. \A c \in Consoles : ~port'[c].active
      BY <2>4 DEF Disconnect, Reset
    <3> QED
      BY <3>1 DEF InFlight, NothingFollows, Follows
  <2>5. ASSUME NEW c \in Consoles, ResetLink(c) PROVE InFlight' /\ NothingFollows'
    <3> DEFINE q == Reset(port[c])
    <3>1. ~q.active
      BY DEF Reset
    <3>2. port' = [port EXCEPT ![c] = q] /\ plugged' = plugged
      BY <2>5 DEF ResetLink
    <3> HIDE DEF q
    <3> QED
      BY <1>2, <2>1, <3>1, <3>2, OnePortKeeps
  <2>6. ASSUME NEW c \in Consoles, WriteSB(c) PROVE InFlight' /\ NothingFollows'
    <3>1. PICK byte \in Bytes : port' = [port EXCEPT ![c] = WriteData(@, byte, plugged, FALSE)]
      BY <2>6 DEF WriteSB
    <3> DEFINE q == WriteData(port[c], byte, plugged, FALSE)
    <3>2. port[c] \in Port
      BY <2>2
    <3>3. /\ q.active = port[c].active /\ q.bits = port[c].bits
          /\ q.internal = port[c].internal
      BY <3>2 DEF WriteData, Port
    <3>4. plugged /\ port[c].active /\ port[c].bits # 0 => q.data = port[c].data
      BY DEF WriteData
    <3>5. port' = [port EXCEPT ![c] = q] /\ plugged' = plugged
      BY <2>6, <3>1 DEF WriteSB
    <3> HIDE DEF q
    <3>6. \/ ~q.active
          \/ q.bits = 0
          \/ /\ port[c].active /\ q.bits = port[c].bits /\ q.internal = port[c].internal
             /\ plugged => q.data = port[c].data
      BY <3>3, <3>4
    <3> QED
      BY <1>2, <2>1, <3>5, <3>6, OnePortKeeps
  <2>7. ASSUME NEW c \in Consoles, WriteSC(c) PROVE InFlight' /\ NothingFollows'
    <3>1. PICK sc \in Commands : port' = [port EXCEPT ![c] = ControlledPort(c, sc)]
      BY <2>7 DEF WriteSC
    <3> DEFINE q == ControlledPort(c, sc)
    <3>2. q.bits = 0
      BY DEF ControlledPort, WriteControl, PhaseWithin, Continues
    <3>3. port' = [port EXCEPT ![c] = q] /\ plugged' = plugged
      BY <2>7, <3>1 DEF WriteSC
    <3> HIDE DEF q
    <3> QED
      BY <1>2, <2>1, <3>2, <3>3, OnePortKeeps
  <2>8. ASSUME NEW c \in Consoles, NEW clocks \in Ticks,
               RunDivider(c, clocks) \/ RunPhase(c, clocks) \/ HoldEdge(c, clocks)
        PROVE  InFlight' /\ NothingFollows'
    <3>1. plugged' = plugged /\ port[c] \in Port
      BY <2>2, <2>8 DEF RunDivider, RunPhase, HoldEdge
    <3>2. CASE port' = port
      <4>1. port' = [port EXCEPT ![c] = port[c]]
        BY <2>2, <3>2
      <4>2. port[c].active = TRUE \/ ~port[c].active
        BY <3>1 DEF Port
      <4> QED
        BY <1>2, <2>1, <3>1, <4>1, <4>2, OnePortKeeps
    <3>3. ASSUME NEW phase, port' = [port EXCEPT ![c].phase = phase]
          PROVE  InFlight' /\ NothingFollows'
      <4> DEFINE q == [port[c] EXCEPT !.phase = phase]
      <4>1. /\ q.active = port[c].active /\ q.bits = port[c].bits
            /\ q.internal = port[c].internal /\ q.data = port[c].data
        BY <3>1 DEF Port
      <4>2. port' = [port EXCEPT ![c] = q]
        BY <2>2, <3>3
      <4> HIDE DEF q
      <4>3. \/ ~q.active
            \/ /\ port[c].active /\ q.bits = port[c].bits /\ q.internal = port[c].internal
               /\ plugged => q.data = port[c].data
        BY <4>1
      <4> QED
        BY <1>2, <2>1, <3>1, <4>2, <4>3, OnePortKeeps
    <3> QED
      BY <2>8, <3>2, <3>3 DEF RunDivider, RunPhase, HoldEdge
  <2>9. ASSUME NEW c \in Consoles, NEW clocks \in Ticks, EmitEdge(c, clocks)
        PROVE  InFlight' /\ NothingFollows'
    BY <1>2, <2>1, <2>9, EmitEdgeKeeps
  <2> QED
    BY <1>2, <2>3, <2>4, <2>5, <2>6, <2>7, <2>8, <2>9
    DEF Next, Frontend, Guest, Elapse, Tick
<1> QED
  BY <1>1, <1>2 DEF ExchangeNext

(* What SB holds of the two bytes is an invariant of every behaviour.      *)
THEOREM ExchangeInvariant == ExchangeSpec => []ExchangeInv
<1>1. ExchangeInv /\ [ExchangeNext]_exchangeVars => ExchangeInv'
  BY ExchangeInvNext
<1> QED
  BY <1>1, ExchangeInvInit, PTL DEF ExchangeSpec

(* A byte that completes on both consoles together has swapped exactly the *)
(* two bytes that were loaded when it began (serial.cpp, shift_bit and     *)
(* SerialCable::exchange), however often a port was re-armed before.       *)
THEOREM CableSwapsBytes == ExchangeSpec => WholeBytesAreSwapped
<1> DEFINE Swapped == plugged /\ FinishTogether =>
                        \A c \in Consoles : port'[c].data = loaded[Peer(c)]
<1>1. ExchangeInv /\ [ExchangeNext]_exchangeVars => [Swapped]_exchangeVars
  <2> SUFFICES ASSUME ExchangeInv, ExchangeNext, plugged, FinishTogether,
                      NEW c \in Consoles
               PROVE  port'[c].data = loaded[Peer(c)]
    OBVIOUS
  <2> DEFINE d == Peer(c)
  <2>1. /\ ByteBits \in Nat \ {0} /\ d \in Consoles /\ Peer(d) = c
        /\ port[c] \in Port /\ port[d] \in Port /\ loaded \in [Consoles -> Byte]
        /\ port[c].active /\ port[d].active
        /\ port'[c].bits = ByteBits /\ port'[d].bits = ByteBits
        /\ \A x \in Consoles : x = c \/ x = d
    BY PeerFacts, PortAssumption DEF ExchangeInv, IInv, TypeOK, FinishTogether
  <2>2. port'[c].bits # 0 /\ port'[c].bits # port[c].bits
    BY <2>1 DEF ExchangeInv, IInv, Sound
  <2>3. PICK x \in Consoles, clocks \in Ticks : EmitEdge(x, clocks)
    <3>1. IInv /\ [Next]_vars
      BY DEF ExchangeInv, ExchangeNext
    <3> QED
      BY <2>2, <3>1, OnlyEdgesMove
  <2>4. /\ port'[c].bits = port[c].bits + 1
        /\ port'[d].bits = port[d].bits + 1
        /\ port'[c].data = ShiftedData(port[c].data, Outgoing(port[d]))
        /\ port' \in [Consoles -> Port]
    BY <2>1, <2>3, EdgeOnCable DEF ExchangeInv
  <2>5. Received(c)'
    BY <2>1, <2>4, EdgeInFlight DEF ExchangeNext
  <2>6. loaded'[d] = loaded[d]
    BY <2>1, <2>4, RememberType DEF ExchangeNext
  <2>7. \A i \in 1..ByteBits : port'[c].data[i] = loaded[d][i]
    <3> SUFFICES ASSUME NEW i \in 1..ByteBits
                 PROVE  port'[c].data[i] = loaded[d][i]
      OBVIOUS
    <3>1. ByteBits - ByteBits + i = i
      BY <2>1
    <3> QED
      BY <2>1, <2>5, <2>6, <3>1 DEF Received
  <2>8. port'[c].data \in Byte /\ loaded[d] \in Byte
    BY <2>1, <2>4 DEF Port
  <2>9. ASSUME NEW f \in Byte, NEW g \in Byte, \A i \in 1..ByteBits : f[i] = g[i]
        PROVE  f = g
    <3>1. f = [i \in 1..ByteBits |-> f[i]] /\ g = [i \in 1..ByteBits |-> g[i]]
      BY DEF Byte
    <3> QED
      BY <2>9, <3>1, Zenon
  <2> QED
    BY <2>7, <2>8, <2>9
<1> QED
  BY <1>1, ExchangeInvariant, PTL DEF ExchangeSpec, WholeBytesAreSwapped

-----------------------------------------------------------------------------
States == {"disconnected", "connected", "timed_out"}

Watches == [stalled : Nat, marker : Nat, timed_out : BOOLEAN]

\* A slice is run by a connected session only.
SlicesOnlyConnected == slicing => state = "connected"

SessionInv ==
    /\ state \in States
    /\ SlicesOnlyConnected
    /\ SessionMatchesCable

\* The actions of a session, one by one.
LEMMA SessionSteps ==
    ASSUME [SessionNext]_sessionVars
    PROVE  \/ BeginSlice \/ EndSlice
           \/ \E c \in Consoles : RunCycle(c) \/ AccessRegister(c)
           \/ Start \/ Stop \/ ManualRetry \/ AutomaticRetry
           \/ UNCHANGED sessionVars
BY DEF SessionNext, Advance

LEMMA SessionInvNext ==
    ASSUME SessionInv, [SessionNext]_sessionVars
    PROVE  SessionInv'
<1> USE DEF SessionInv, SlicesOnlyConnected, SessionMatchesCable, States
<1>1. CASE BeginSlice
  BY <1>1 DEF BeginSlice
<1>2. CASE EndSlice
  BY <1>2 DEF EndSlice, Scheduler!End
<1>3. ASSUME NEW c \in Consoles, RunCycle(c) PROVE SessionInv'
  <2>1. plugged' = plugged
    BY <1>3 DEF RunCycle, Tick, RunDivider, RunPhase, HoldEdge, EmitEdge
  <2>2. UNCHANGED <<state, watch, slicing>>
    BY <1>3 DEF RunCycle, Scheduler!Step
  <2> QED
    BY <2>1, <2>2
<1>4. ASSUME NEW c \in Consoles, AccessRegister(c) PROVE SessionInv'
  <2>1. plugged' = plugged
    BY <1>4 DEF AccessRegister, WriteSB, WriteSC
  <2>2. UNCHANGED <<state, watch, slicing>>
    BY <1>4 DEF AccessRegister
  <2> QED
    BY <2>1, <2>2
<1>5. CASE Start
  BY <1>5 DEF Start, StartHandshake, StartAsIs, PlugIn, Fresh
<1>6. CASE Stop
  BY <1>6 DEF Stop, Disconnect, Fresh
<1>7. CASE ManualRetry \/ AutomaticRetry
  BY <1>7 DEF ManualRetry, AutomaticRetry, Retry, Fresh
<1>8. CASE UNCHANGED sessionVars
  BY <1>8 DEF sessionVars
<1> QED
  BY <1>1, <1>2, <1>3, <1>4, <1>5, <1>6, <1>7, <1>8, SessionSteps

LEMMA SessionInvInit == SessionInit => SessionInv
BY DEF SessionInit, Init, Fresh, SessionInv, SlicesOnlyConnected, SessionMatchesCable, States

(* The invariant holds through starts, slices, retries and stops           *)
(* (link_session.cpp).                                                     *)
THEOREM SessionInvariant == SessionSpec => []SessionInv
<1>1. SessionInv /\ [SessionNext]_sessionVars => SessionInv'
  BY SessionInvNext
<1> QED
  BY <1>1, SessionInvInit, PTL DEF SessionSpec

(* Whoever asks the session is told the state of the cable and of the      *)
(* watchdog (link_session.cpp, start, stop, retry and advance).            *)
THEOREM SessionFollowsCable == SessionSpec => []SessionMatchesCable
<1>1. SessionInv => SessionMatchesCable
  BY DEF SessionInv
<1> QED
  BY <1>1, SessionInvariant, PTL

(* A retry starts from a byte boundary that nobody drives, whichever of    *)
(* its two forms it takes (link_session.cpp, retry).                       *)
THEOREM SessionRetries == SessionSpec => RetryFromBoundary
<1> DEFINE AtBoundary == state = "timed_out" /\ state' = "connected" =>
                            /\ owner' = Nobody
                            /\ \A c \in Consoles : port'[c].bits = 0 /\ ~Drives(port'[c])
<1>1. [SessionNext]_sessionVars => [AtBoundary]_sessionVars
  <2> SUFFICES ASSUME [SessionNext]_sessionVars, state = "timed_out", state' = "connected"
               PROVE  /\ owner' = Nobody
                      /\ \A c \in Consoles : port'[c].bits = 0 /\ ~Drives(port'[c])
    OBVIOUS
  <2>1. Retry
    BY SessionSteps DEF BeginSlice, EndSlice, RunCycle, AccessRegister, Start, Stop, ManualRetry,
                        AutomaticRetry, sessionVars
  <2>2. \A c \in Consoles : \/ port'[c] = Reset(port[c])
                            \/ port'[c] = Probing(Reset(port[c]))
    BY <2>1 DEF Retry
  <2>3. \A p : Reset(p).bits = 0 /\ ~Drives(Reset(p))
    BY DEF Reset, Drives
  <2>4. \A p : Probing(p).bits = 0 /\ ~Drives(Probing(p))
    BY DEF Probing, WriteControl, Continues, Drives, PhaseWithin
  <2> QED
    BY <2>1, <2>2, <2>3, <2>4 DEF Retry
<1> QED
  BY <1>1, PTL DEF SessionSpec, RetryFromBoundary

-----------------------------------------------------------------------------
LEMMA AlarmNext ==
    ASSUME SessionInv, AlarmIsReal, [SessionNext]_sessionVars
    PROVE  AlarmIsReal'
<1> SUFFICES ASSUME state' = "timed_out"
             PROVE  Transferring' /\ Progress' = watch'.marker /\ watch'.stalled >= Timeout
  BY DEF AlarmIsReal
<1>1. CASE EndSlice
  <2>1. UNCHANGED <<port, completed>> /\ watch' = Observed(Transferring, Progress)
    BY <1>1 DEF EndSlice
  <2>2. Transferring' = Transferring /\ Progress' = Progress
    BY <2>1 DEF Transferring, Progress, Total
  <2>3. ~watch.timed_out /\ watch'.timed_out
    BY <1>1 DEF EndSlice, Scheduler!End, SessionInv, SlicesOnlyConnected, SessionMatchesCable
  <2> DEFINE stalled == IF Transferring /\ Progress = watch.marker
                          THEN watch.stalled + Slice ELSE 0
  <2>4. watch' = [stalled |-> stalled, marker |-> Progress,
                  timed_out |-> Transferring /\ stalled >= Timeout]
    BY <2>1, <2>3 DEF Observed
  <2> HIDE DEF stalled
  <2>5. watch'.stalled = stalled /\ watch'.marker = Progress /\ Transferring /\ stalled >= Timeout
    BY <2>3, <2>4
  <2> QED
    BY <2>2, <2>5
<1>2. CASE UNCHANGED sessionVars
  BY <1>2 DEF sessionVars, AlarmIsReal, Transferring, Progress, Total
<1>3. CASE ~EndSlice /\ ~UNCHANGED sessionVars
  <2>1. state = "connected"
    BY <1>3, SessionSteps
    DEF BeginSlice, RunCycle, AccessRegister, Start, Stop, ManualRetry, AutomaticRetry, Retry,
        Scheduler!Step, Scheduler!Turn, SessionInv, SlicesOnlyConnected
  <2>2. state' = state
    BY <1>3, SessionSteps
    DEF BeginSlice, RunCycle, AccessRegister, Start, Stop, ManualRetry, AutomaticRetry, Retry
  <2> QED
    BY <2>1, <2>2
<1> QED
  BY <1>1, <1>2, <1>3

(* The watchdog never takes a session down that is moving: it fires on an  *)
(* armed transfer only, after Timeout cycles without a bit                 *)
(* (link_scheduler.cpp, LinkWatchdog::observe).                            *)
THEOREM SessionAlarm == SessionSpec => []AlarmIsReal
<1>1. SessionInit => AlarmIsReal
  BY DEF SessionInit, AlarmIsReal
<1>2. SessionInv /\ AlarmIsReal /\ [SessionNext]_sessionVars => AlarmIsReal'
  BY AlarmNext
<1> QED
  BY <1>1, <1>2, SessionInvariant, PTL DEF SessionSpec

-----------------------------------------------------------------------------
(* The ports. A session may be started on a transfer that both copies      *)
(* drive, so the owner of the cable says nothing of them here; each port   *)
(* is sound all the same.                                                  *)
SoundPorts == port \in [Consoles -> Port] /\ \A c \in Consoles : Sound(port[c])

PortsInv == SoundPorts /\ plugged \in BOOLEAN /\ owner \in Consoles \cup {Nobody}

LEMMA OnePortSound ==
    ASSUME SoundPorts, NEW c \in Consoles, NEW q, Sound(q), port' = [port EXCEPT ![c] = q]
    PROVE  SoundPorts'
BY DEF SoundPorts, Sound

LEMMA EmitEdgeSound ==
    ASSUME SoundPorts, NEW c \in Consoles, NEW clocks \in Ticks, EmitEdge(c, clocks)
    PROVE  SoundPorts'
<1> DEFINE d == Peer(c)
           phase == port[c].phase + clocks - CyclesPerBit(port[c])
           q == [port[c] EXCEPT !.phase = phase]
           timed == [port EXCEPT ![c] = q]
<1>1. /\ port[c] \in Port /\ port[d] \in Port /\ Sound(port[c]) /\ Sound(port[d])
      /\ Drives(port[c]) /\ d \in Consoles /\ c # d
      /\ \A x \in Consoles : x = c \/ x = d
  BY PeerFacts DEF SoundPorts, EmitEdge
<1>2. phase \in Nat /\ phase < CyclesPerBit(port[c])
  <2>1. /\ port[c].phase \in Nat
        /\ port[c].phase < CyclesPerBit(port[c])
        /\ port[c].phase + clocks >= CyclesPerBit(port[c])
    BY <1>1 DEF Sound, EmitEdge, EdgeDue, Port
  <2>2. /\ clocks \in Nat /\ clocks <= CyclesPerBit(port[c])
        /\ CyclesPerBit(port[c]) \in Nat
    BY <1>1, PeriodRange, CableAssumption, PortAssumption
  <2> QED
    BY <2>1, <2>2
<1> HIDE DEF phase
<1>3. Sound(q) /\ Drives(q) /\ q \in Port /\ q.active
  BY <1>1, <1>2, PhaseMoveSound DEF Sound, Drives
<1>4. timed[c] = q /\ timed[d] = port[d] /\ timed \in [Consoles -> Port]
  BY <1>1, <1>3 DEF SoundPorts
<1>5. port' = IF plugged THEN Exchange(timed, c) ELSE [timed EXCEPT ![c] = Shift(@, 1)]
  BY DEF EmitEdge, phase
<1> HIDE DEF q, timed
<1>6. ASSUME NEW p \in Port, Sound(p), p.active, NEW bit \in Bit
      PROVE  Sound(Shift(p, bit)) /\ Shift(p, bit) \in Port
  BY <1>6, ShiftSound DEF Sound
<1>7. Outgoing(q) \in Bit /\ Outgoing(port[d]) \in Bit /\ 1 \in Bit
  <2>1. 1 \in 1..ByteBits
    BY PortAssumption
  <2> QED
    BY <2>1, <1>1, <1>3 DEF Outgoing, Port, Byte, Bit
<1>8. CASE plugged
  <2> DEFINE incoming == IF Follows(port[d]) THEN Outgoing(port[d]) ELSE 1
  <2>1. incoming \in Bit
    BY <1>7
  <2>2. port' = [timed EXCEPT ![c] = Shift(@, incoming),
                              ![d] = IF Follows(port[d]) THEN Shift(@, Outgoing(q)) ELSE @]
    BY <1>4, <1>5, <1>8 DEF Exchange
  <2> HIDE DEF incoming
  <2>3. /\ port'[c] = Shift(q, incoming)
        /\ port'[d] = IF Follows(port[d]) THEN Shift(port[d], Outgoing(q)) ELSE port[d]
        /\ port' = [x \in Consoles |-> port'[x]]
    BY <1>1, <1>4, <2>2
  <2>4. Sound(port'[c]) /\ port'[c] \in Port
    BY <1>3, <1>6, <2>1, <2>3
  <2>5. Sound(port'[d]) /\ port'[d] \in Port
    BY <1>1, <1>6, <1>7, <2>3 DEF Follows
  <2> QED
    BY <1>1, <2>3, <2>4, <2>5 DEF SoundPorts
<1>9. CASE ~plugged
  <2>1. port'[c] = Shift(q, 1) /\ port'[d] = port[d] /\ port' = [x \in Consoles |-> port'[x]]
    BY <1>1, <1>4, <1>5, <1>9
  <2>2. Sound(port'[c]) /\ port'[c] \in Port
    BY <1>3, <1>6, <1>7, <2>1
  <2> QED
    BY <1>1, <2>1, <2>2 DEF SoundPorts
<1> QED
  BY <1>8, <1>9

LEMMA TickSound ==
    ASSUME SoundPorts, NEW c \in Consoles, NEW clocks \in Ticks, Tick(c, clocks)
    PROVE  SoundPorts'
<1>1. port[c] \in Port /\ Sound(port[c])
  BY DEF SoundPorts
<1>2. CASE RunDivider(c, clocks)
  <2>1. CASE plugged
    BY <1>2, <2>1 DEF RunDivider, SoundPorts
  <2>2. CASE ~plugged
    <3> DEFINE phase == (port[c].phase + clocks) % NormalPeriod
               q == [port[c] EXCEPT !.phase = phase]
    <3>1. phase \in 0..(NormalPeriod - 1)
      <4>1. port[c].phase + clocks \in Nat
        BY <1>1, CableAssumption, PortAssumption DEF Port
      <4> QED
        BY <4>1, ModRange, PortAssumption
    <3> HIDE DEF phase
    <3>2. /\ q \in Port
          /\ q.active = port[c].active /\ q.internal = port[c].internal
          /\ q.control = port[c].control /\ q.bits = port[c].bits
      BY <1>1, <3>1 DEF Port
    <3>3. port' = [port EXCEPT ![c] = q] /\ ~Drives(port[c])
      BY <1>2, <2>2 DEF RunDivider, phase
    <3> HIDE DEF q
    <3>4. Sound(q)
      BY <1>1, <3>2, <3>3 DEF Sound, Drives
    <3> QED
      BY <3>3, <3>4, OnePortSound
  <2> QED
    BY <2>1, <2>2
<1>3. ASSUME NEW phase \in Nat, phase < CyclesPerBit(port[c]), Drives(port[c]),
             port' = [port EXCEPT ![c].phase = phase]
      PROVE  SoundPorts'
  <2> DEFINE q == [port[c] EXCEPT !.phase = phase]
  <2>1. Sound(q)
    BY <1>1, <1>3, PhaseMoveSound
  <2>2. port' = [port EXCEPT ![c] = q]
    BY <1>3 DEF SoundPorts
  <2> HIDE DEF q
  <2> QED
    BY <2>1, <2>2, OnePortSound
<1>4. CASE RunPhase(c, clocks)
  <2> DEFINE phase == port[c].phase + clocks
  <2>1. phase \in Nat /\ phase < CyclesPerBit(port[c])
    BY <1>1, <1>4, PeriodRange, CableAssumption, PortAssumption DEF RunPhase, EdgeDue, Port
  <2>2. port' = [port EXCEPT ![c].phase = phase] /\ Drives(port[c])
    BY <1>4 DEF RunPhase
  <2> HIDE DEF phase
  <2> QED
    BY <2>1, <2>2, <1>3
<1>5. CASE HoldEdge(c, clocks)
  <2> DEFINE phase == CyclesPerBit(port[c]) - 1
  <2>1. phase \in Nat /\ phase < CyclesPerBit(port[c])
    BY <1>1, PeriodRange
  <2>2. port' = [port EXCEPT ![c].phase = phase] /\ Drives(port[c])
    BY <1>5 DEF HoldEdge
  <2> HIDE DEF phase
  <2> QED
    BY <2>1, <2>2, <1>3
<1>6. CASE EmitEdge(c, clocks)
  BY <1>6, EmitEdgeSound
<1> QED
  BY <1>2, <1>4, <1>5, <1>6 DEF Tick

LEMMA WriteSBSound ==
    ASSUME PortsInv, NEW c \in Consoles, WriteSB(c)
    PROVE  SoundPorts'
<1>1. PICK byte \in Bytes : port' = [port EXCEPT ![c] = WriteData(@, byte, plugged, FALSE)]
  BY DEF WriteSB
<1> DEFINE q == WriteData(port[c], byte, plugged, FALSE)
<1>2. Sound(q)
  <2>1. port[c] \in Port /\ Sound(port[c]) /\ plugged \in BOOLEAN /\ FALSE \in BOOLEAN
    BY DEF PortsInv, SoundPorts
  <2>2. byte \in Byte
    BY CableAssumption
  <2> QED
    BY <2>1, <2>2, WriteDataSound
<1>3. port' = [port EXCEPT ![c] = q] /\ SoundPorts
  BY <1>1 DEF PortsInv
<1> HIDE DEF q
<1> QED
  BY <1>2, <1>3, OnePortSound

LEMMA WriteSCSound ==
    ASSUME PortsInv, NEW c \in Consoles, WriteSC(c)
    PROVE  SoundPorts' /\ owner' \in Consoles \cup {Nobody}
<1>1. PICK sc \in Commands : /\ port' = [port EXCEPT ![c] = ControlledPort(c, sc)]
                             /\ owner' = ControlledOwner(c, sc)
  BY DEF WriteSC
<1>2. owner' \in Consoles \cup {Nobody}
  BY <1>1 DEF ControlledOwner, Released, PortsInv
<1> DEFINE holder == IF GivesClockBack(port[c], sc, FALSE) THEN Released(owner, c) ELSE owner
           asks == plugged /\ AsksForClock(port[c], sc, FALSE)
           granted == asks => Granted(holder, c)
           q == WriteControl(port[c], sc, plugged, FALSE, granted)
<1>3. port' = [port EXCEPT ![c] = q]
  BY <1>1 DEF ControlledPort
<1>4. /\ port[c] \in Port /\ Sound(port[c]) /\ plugged \in BOOLEAN /\ FALSE \in BOOLEAN
      /\ sc \in Control /\ granted \in BOOLEAN /\ SoundPorts
  BY CommandsType DEF PortsInv, SoundPorts
<1> HIDE DEF granted
<1>5. Sound(q)
  BY <1>4, WriteControlSound
<1> HIDE DEF q
<1> QED
  BY <1>2, <1>3, <1>4, <1>5, OnePortSound

\* The frontend's probe: SB = 0x02, then SC = 0x80.
LEMMA ProbeSound ==
    ASSUME NEW p \in Port, Sound(p), NEW linked \in BOOLEAN, NEW keeps \in BOOLEAN
    PROVE  Sound(WriteControl(WriteData(p, ProbeByte, linked, FALSE),
                              [start |-> TRUE, internal |-> FALSE, fast |-> FALSE],
                              linked, keeps, TRUE))
<1> DEFINE q == WriteData(p, ProbeByte, linked, FALSE)
           sc == [start |-> TRUE, internal |-> FALSE, fast |-> FALSE]
<1>1. ProbeByte \in Byte /\ FALSE \in BOOLEAN /\ TRUE \in BOOLEAN
  BY CableAssumption
<1>2. Sound(q)
  BY <1>1, WriteDataSound
<1>3. q \in Port
  BY <1>2 DEF Sound
<1>4. sc \in Control
  BY DEF Control
<1> HIDE DEF q, sc
<1>5. Sound(WriteControl(q, sc, linked, keeps, TRUE))
  BY <1>1, <1>2, <1>3, <1>4, WriteControlSound
<1> QED
  BY <1>5 DEF q, sc

LEMMA StartSound ==
    ASSUME PortsInv, StartHandshake \/ StartAsIs
    PROVE  SoundPorts'
<1>1. /\ port[First] \in Port /\ Sound(port[First]) /\ port[Second] \in Port
      /\ port \in [Consoles -> Port]
      /\ First \in Consoles /\ Second \in Consoles /\ First # Second
      /\ \A c \in Consoles : c = First \/ c = Second
  BY CableAssumption DEF PortsInv, SoundPorts, Consoles
<1>2. Copy \in Port /\ Sound(Copy)
  <2>1. /\ Copy \in Port
        /\ Copy.active = (port[First].active /\ port[First].control.start)
        /\ Copy.internal = port[First].internal
        /\ Copy.control = port[First].control /\ Copy.bits = port[First].bits
        /\ Copy.phase < CyclesPerBit(Copy)
    BY <1>1, RestoreType DEF Copy
  <2>2. Copy.active = port[First].active
    BY <1>1, <2>1 DEF Sound, Port
  <2> QED
    BY <1>1, <2>1, <2>2 DEF Sound, Drives
<1>3. ASSUME NEW one, NEW two, Sound(one), Sound(two), PlugIn(one, two)
      PROVE  SoundPorts'
  <2>1. port' = [port EXCEPT ![First] = one, ![Second] = two]
    BY <1>3 DEF PlugIn
  <2>2. one \in Port /\ two \in Port
    BY <1>3 DEF Sound
  <2>3. /\ port'[First] = one /\ port'[Second] = two
        /\ port' = [c \in Consoles |-> IF c = Second THEN two ELSE
                                       IF c = First THEN one ELSE port[c]]
    BY <1>1, <2>1
  <2>4. port' \in [Consoles -> Port]
    BY <1>1, <2>2, <2>3
  <2> QED
    BY <1>1, <1>3, <2>3, <2>4 DEF SoundPorts
<1>4. ASSUME NEW p \in Port, Sound(p) PROVE Sound(HandshakeReset(p))
  BY <1>4, ProbeSound DEF HandshakeReset
<1>5. CASE StartAsIs
  BY <1>1, <1>2, <1>3, <1>5 DEF StartAsIs
<1>6. CASE StartHandshake
  BY <1>1, <1>2, <1>3, <1>4, <1>6 DEF StartHandshake
<1> QED
  BY <1>5, <1>6

LEMMA BothResetSound ==
    ASSUME PortsInv, \/ port' = [c \in Consoles |-> Reset(port[c])]
                     \/ port' = [c \in Consoles |-> Probing(Reset(port[c]))]
    PROVE  SoundPorts'
<1>1. ASSUME NEW c \in Consoles
      PROVE  /\ Reset(port[c]) \in Port /\ Sound(Reset(port[c]))
             /\ Probing(Reset(port[c])) \in Port /\ Sound(Probing(Reset(port[c])))
  <2>1. port[c] \in Port
    BY DEF PortsInv, SoundPorts
  <2>2. Reset(port[c]) \in Port /\ Sound(Reset(port[c]))
    BY <2>1, ResetSound, ResetType
  <2>3. Sound(Probing(Reset(port[c])))
    BY <2>2, ProbeSound DEF Probing
  <2> QED
    BY <2>2, <2>3 DEF Sound
<1> QED
  BY <1>1 DEF SoundPorts

LEMMA PortsNext ==
    ASSUME PortsInv, [SessionNext]_sessionVars
    PROVE  PortsInv'
<1>1. ASSUME NEW c \in Consoles, RunCycle(c) PROVE PortsInv'
  <2>1. PICK clocks \in Ticks : Tick(c, clocks)
    BY <1>1 DEF RunCycle
  <2>2. SoundPorts'
    BY <2>1, TickSound DEF PortsInv
  <2>3. plugged' = plugged /\ owner' \in Consoles \cup {Nobody}
    BY <2>1 DEF PortsInv, Tick, RunDivider, RunPhase, HoldEdge, EmitEdge, Released
  <2> QED
    BY <2>2, <2>3 DEF PortsInv
<1>2. ASSUME NEW c \in Consoles, AccessRegister(c) PROVE PortsInv'
  <2>1. CASE WriteSB(c)
    BY <2>1, WriteSBSound DEF WriteSB, PortsInv
  <2>2. CASE WriteSC(c)
    BY <2>2, WriteSCSound DEF WriteSC, PortsInv
  <2> QED
    BY <1>2, <2>1, <2>2 DEF AccessRegister
<1>3. CASE Start
  <2>1. StartHandshake \/ StartAsIs
    BY <1>3 DEF Start
  <2>2. plugged' = TRUE /\ owner' = Nobody
    BY <2>1 DEF StartHandshake, StartAsIs, PlugIn
  <2> QED
    BY <2>1, <2>2, StartSound DEF PortsInv
<1>4. CASE Stop
  <2>1. /\ port' = [c \in Consoles |-> Reset(port[c])]
        /\ plugged' = FALSE /\ owner' = Nobody
    BY <1>4 DEF Stop, Disconnect
  <2> QED
    BY <2>1, BothResetSound DEF PortsInv
<1>5. CASE ManualRetry \/ AutomaticRetry
  <2>1. /\ \/ port' = [c \in Consoles |-> Reset(port[c])]
           \/ port' = [c \in Consoles |-> Probing(Reset(port[c]))]
        /\ plugged' = TRUE /\ owner' = Nobody
    BY <1>5 DEF ManualRetry, AutomaticRetry, Retry
  <2> QED
    BY <2>1, BothResetSound DEF PortsInv
<1>6. CASE BeginSlice \/ EndSlice \/ UNCHANGED sessionVars
  <2>1. UNCHANGED <<port, plugged, owner>>
    BY <1>6 DEF BeginSlice, EndSlice, sessionVars
  <2> QED
    BY <2>1 DEF PortsInv, SoundPorts
<1> QED
  BY <1>1, <1>2, <1>3, <1>4, <1>5, <1>6, SessionSteps

LEMMA PortsInit == SessionInit => PortsInv
<1>1. Init => IInv
  BY InitInv
<1> QED
  BY <1>1 DEF SessionInit, IInv, TypeOK, PortsInv, SoundPorts

(* Through starts on a running transfer, retries and stops, each guest     *)
(* reads its own port's role from SC and no port holds back more than one  *)
(* edge (serial.cpp, write_control, tick and reset_link).                  *)
THEOREM SessionPorts == SessionSpec => [](TypeOK /\ GuestSeesItsRole /\ NoEdgeBacklog)
<1>1. PortsInv /\ [SessionNext]_sessionVars => PortsInv'
  BY PortsNext
<1>2. PortsInv => TypeOK /\ GuestSeesItsRole /\ NoEdgeBacklog
  BY DEF PortsInv, SoundPorts, Sound, TypeOK, GuestSeesItsRole, NoEdgeBacklog
<1> QED
  BY <1>1, <1>2, PortsInit, PTL DEF SessionSpec

=============================================================================
