# Go Bigger Boy: a verification project in TLA+

Go Bigger Boy is a Game Boy and Game Boy Color emulator in C++ with frontends
for the desktop, Android, the browser and the command line. This project models
the parts whose correctness depends on the order in which things happen: the
link cable between two consoles, local and remote; the units of the console
that run ahead of one another and are caught up in batches; battery saves across
flushes and crashes; movies, reconnects and updates around a running game. TLC
checks the models on small instances, and TLAPS proves most of the invariants,
action properties and refinements for every value of the constants.

Paths are relative to the repository; where a path begins with `apps/`, `docs/`
or `tests/` it is one below `src/`. `PROJECT.json` maps every definition to its
source lines and lists components, runs, mutants, findings, theorems and the
hazards the properties are written for.

1. [The system](#1-the-system)
2. [Modules](#2-modules-and-how-they-correspond-to-the-code)
3. [Runs](#3-what-the-runs-check)
4. [Bounds, fairness, assumptions](#4-bounds-fairness-and-assumptions)
5. [Findings](#5-findings)
6. [Proofs](#6-what-is-proved)
7. [What is only model-checked](#7-what-is-only-model-checked)
8. [What is not modelled](#8-what-is-not-modelled)
9. [Plan](#9-plan)

## 1. The system

### Execution

A console is a `gameboy::Emulator`: a CPU whose every memory access and idle
cycle calls `MemoryBus::tick`, which runs the timer, the sound and picture
units, DMA and the serial port by the same number of clocks. The frontend's
loop is one thread: it handles events and link requests, polls the remote link,
emulates one frame, presents it and waits. Other threads exist for the
Bluetooth stream, update checks and downloads, cheat lists and the dashboard's
artwork; they hand over results under a mutex and do not touch a core. So the
interleavings that matter are those of *two consoles*, of *two processes over a
network*, of *register accesses against hardware events*, of *batched against
single clocks*, and of *failures between two steps*.

### Components

| component | state | operations | what is hard | what makes it correct |
|---|---|---|---|---|
| Serial port and local cable (`src/serial.cpp`) | SB, SC, divider phase, bits shifted, role; the cable's clock owner | guest writes of SB and SC, `tick`, attach, detach, `reset_link` | both guests claim the clock; edges held for an unarmed peer; rewrites in the middle of a byte; unplugging | one driver, known to the cable and visible in SC; edges exchanged by both or none; whole bytes swapped; nobody left armed |
| Local session and scheduler (`src/link_session.cpp`, `src/link_scheduler.cpp`, `apps/sdl/link_controller.cpp`) | session state, watchdog, cycles run in this slice | `start`, `stop`, `retry`, `advance` per frame, automatic retry | instructions of different length; slow against stuck; retry in the middle of a byte | neither console runs ahead; a stuck transfer is noticed and only a stuck one; a retry starts from a byte boundary |
| Remote endpoint (`src/tcp_serial_endpoint.cpp`) | sequence numbers, pending request, answer bits, deferred request, cached response, commit and reset waiting for acknowledgement; hello parts, digests, heartbeats | register writes and edges of the guest, `poll`, `reset_link`, `attach`, suspension | loss, retransmission, simultaneous requests, denial and yielding, resets; a peer that is slow to come, asleep or gone | no request clocked twice; no byte torn; both sides hold each other's byte; no protocol fault while nothing is lost; alike consoles become ready and stay together |
| Packet channel and codec (`src/tcp_link_channel.cpp`, `src/link_packet_codec.cpp`) | unsent bytes, read buffer, decoded packets, listener | listen, connect, poll, send, receive, close | a stream split anywhere; damaged bytes; full buffers; a connection that ends | a FIFO of whole packets that loses nothing while the connection lives |
| Remote session controller (`apps/sdl/remote_link_controller.cpp`, `apps/sdl/emulation_session.cpp`) | enabled, hosting, reported, attempts, deadlines; channel state | start, stop, retry by hand and by itself, rejection, polling | half-failed starts and retries; stale flags; a link lost in a transfer | nothing left open; the port released; bounded retries |
| CPU (`src/cpu.cpp`) | registers, IME and its delay, HALT and STOP, sampled requests | an instruction, an interrupt, a wake | EI's delay; pushes that overwrite IE or IF; HALT's bug; requests that arrive between two bus cycles | interrupts are invisible to the program they interrupt, and no request is lost |
| Timer (`src/timer.cpp`, `src/memory_bus.cpp`) | divider, TIMA, TMA, TAC, pending reload, edges for the sound unit | ticks of any length; DIV, TIMA, TMA, TAC; speed switch | skipped and batched spans; edges made by register writes; the reload delay | indistinguishable from one clock at a time |
| Bus clocks and DMA (`src/memory_bus.cpp`) | half a dot, dots and sound clocks owed, both transfers | `tick`, DMA registers, speed switch | batched dots against HBlank DMA; accesses during a transfer; restarts | no clock lost; one block per HBlank; OAM is the page as it was |
| Picture unit (`src/ppu_timing.cpp`, `src/ppu.cpp`) | dot, line, mode, STAT line; fetcher, queue, window row | `tick`, LCDC, STAT, LYC, SCX, WX | skipped dots; the STAT line's edges; fetches that delay one another | skipping is invisible; every pixel is the one of its place |
| Sound unit (`src/apu.cpp`) | channels, frame sequencer, mix and its validity | `tick`, registers, power | spans without changes, a mix that is kept; a write that clocks a length itself | the shortcuts are inaudible; a counted sound ends |
| Battery and clock (`src/cartridge_persistence.cpp`, `src/save_state_cartridge.cpp`) | RAM, clock registers, dirty flags, two files | game accesses, flush, load, save states, reset, close | crash or failure between the files; restored states; time passing unseen | what is not on disk is marked; the files are those of an earlier flush |
| Movies (`apps/sdl/input_movie.cpp` and the loop around it) | recorder, events, file | record, replay, timelines; keys, pause, rewind, states | everything else that can change the button or the machine | a recording reproduces its run |
| Updater (`apps/sdl/update_checker.cpp`, `apps/sdl/windows_updater.cpp`) | thread, result, archive; helper and its files | download, cancel, install, restart | cancelling a finished download, or one being hashed; a program killed between two steps | what was cancelled in time is not installed; the user's settings survive |

Not modelled are the cartridge mappers, codecs, Super Game Boy host, plug-ins,
discovery, tools and the user interface: section 8.

### Interactions

- A port calls its endpoint (`SerialLinkEndpoint`): may I have the clock, is
  the peer ready, exchange this bit, I release the clock. The local cable and
  the remote endpoint implement the same interface, so the port is one module
  of pure operators used by both compositions.
- `LinkSession::advance` calls the scheduler, which steps the two emulators,
  which tick their ports, which call the cable, which shifts the other port.
- `process_remote_link_requests` and `RemoteLinkSession::poll` drive the
  endpoint's `poll`, which is also called while a frame is emulated and at its
  end. The endpoint sends and receives through a packet channel.
- The CPU ticks the bus before every access. The bus feeds timer edges to the
  sound unit's frame sequencer, either inside a span, clock by clock, or after
  it, and hands out dots and sound clocks according to the CPU's speed.
- The frontend replaces a core (`load_rom`) by building a new one, flushing the
  old one and then swapping. Movies, rewinding and save states act on the core
  between two frames; the updater closes the frontend.

## 2. Modules and how they correspond to the code

```
SerialPort ─┬ SerialCable ─┬ SerialExchange ──── implements ClockArbiter
            │              └ LinkSession ─────── implements LinkScheduler
            └ LinkEndpoint ── LinkDelivery
LinkHandshake      LinkChannel ───────────────── implements LinkFifo
RemoteReconnect    CartridgeBattery ──────────── implements BatteryMemory
Updater            InputMovie
Cpu   Alu   OamDma   BusClock   PictureTiming   PixelTransfer
SoundWaves   SoundLength     Timer ───────────── implements TimerCycles

MCSerialCable: SerialExchange, LinkChannel
MCLinkSession: LinkSession, LinkHandshake
MCLinkDelivery: LinkDelivery
MCParts: Cpu, Alu, OamDma, BusClock, PictureTiming, PixelTransfer, Timer,
         LinkScheduler, SoundWaves, SoundLength
MCFrontend: CartridgeBattery, RemoteReconnect, Updater, InputMovie
```

A `_proofs` module holds the theorems of the modules of its name
(`Machine_proofs` those of SoundLength, OamDma, BusClock, Cpu, Timer and PictureTiming;
`Frontend_proofs` those of Updater, CartridgeBattery, RemoteReconnect,
InputMovie and LinkHandshake; `Parts_proofs` those of LinkScheduler and SoundWaves;
`LocalLink_proofs` those of SerialCable, SerialExchange and LinkSession;
`LinkDelivery_proofs` and `LinkBytes_proofs` those of LinkDelivery), and
**Iteration** holds the lemmas about loops they share.

Several modules have operators no specification uses, the defective twin of
another (`ShiftKeepsBit7`, `ReleasesOnAbortOnly`, ...): they are the mutations
that show that a property can fail.

### Two consoles

**SerialPort** is `class SerialPort` as a record and one operator per method:
`WriteData`, `WriteControl`, `Shift`, `Reset`, `Restore`. What an endpoint
answers is a parameter.

**SerialCable** composes two ports with `SerialCable` of the code. `WriteSB`,
`WriteSC` and `Elapse` are the guest's actions; `RunDivider`, `RunPhase`,
`HoldEdge` and `EmitEdge` are the four ways through `SerialPort::tick`.
`HoldEdge` sets the phase to one clock below the bit period, as the code does to
avoid a burst of missed edges. `EmitEdge` does both shifts and the release of a
finished transfer. `StartHandshake`, `StartIdle`, `Disconnect` and `ResetLink`
are the frontend's. **SerialExchange** adds the history variable `loaded` (what
SB held at the last byte boundary) and the refinement of **ClockArbiter**: the
line is taken only when free and handed over only by becoming free.

**LinkScheduler** is `advance_balanced`; a step's cost is chosen by the console.
**LinkSession** extends the cable with `advance`, watchdog and retries, and
builds its slices from the actions of `Scheduler == INSTANCE LinkScheduler`; how
far the consoles get apart within a slice is LinkScheduler's own property
(`Balanced`).

**LinkEndpoint** is `LinkSerialEndpoint` from the completed handshake on. A
handler works on a *node* (port, endpoint, outgoing packets, fault) and
`Publish` makes the result visible, since one call of the code may send several
packets and rewrite SC on the way. `Edge` is `prepare_bit` followed by
`exchange_bit`; `PollPacket` handles one packet and then the deferred request,
as the end of `poll()` does; `RetryRequest`, `RetryCommit`, `RetryReset` are the
three retransmissions. `Lose` is the channel's. **LinkDelivery** adds the
history of requests clocked and bytes completed, and the properties.

**LinkHandshake** is the other half of the same class: `attach` and `poll`
without the serial packets. The hello goes out one part per poll and starts
over until the digest is acknowledged; a tick is a pass of both frontend loops,
in which the deadlines of both ends come one nearer. The host is attached from
`listen()` on, the joiner from `connect()` on, which may be a tick before the
connection comes about or in the same pass.

**LinkChannel** is the TCP channel and its codec, with the stream between two
ends as a sequence of symbols that may be read and written in any pieces
(`Pieces`), damaged, or cut off. A frame is two symbols of header, two of
payload and one of checksum. Its refinement of **LinkFifo** maps the queue to
everything that is somewhere between `send()` and `receive()`: decoded, in the
read buffer, in flight, in the write buffer.

### The console

**Cpu** has one action per stretch of code between two calls of
`MemoryBus::tick`, because requests can be raised only there. `phase` says where
in `step` or `service_interrupt` the processor is; the guest chooses the next
instruction by kind (`Plain`, `EI`, `Halt`, `Reti`, ...). An address is a line of
the main program or a handler, so that "the next instruction" can be stated
across nested interrupts and pushes that miss the stack. A push may land on IE
or on IF with either of its bytes: the requests it writes there are any. **Alu** is the
arithmetic, as functions, held against one another and against arithmetic
(sums in decimal, undone additions, words against bytes).

**OamDma** and **BusClock** are the two halves of `MemoryBus::tick` that own
state: the OAM copy with the accesses it blocks, and the division of cycles into
sound clocks and dots with HBlank DMA on the dots.

**PictureTiming** is `Ppu::tick` without the pixels: lines, modes, the STAT
line, requests and the two shortcuts; `EachDot` is the reference. The dots at
which a line's HBlank request comes early depend on the pixels and are a
constant (`EarlyDots`, for each end of the transfer the dots at which two or
four pixels are still to come). **PixelTransfer**
is `tick_mode3` for one monochrome line, where a pixel is the place it comes
from. It was also compared with the compiled program on 4500 random lines
(scroll, window, objects, writes in the middle): no difference in a pixel, in the
dot the transfer ends at or in the window's row.

**SoundWaves** is `Apu::tick` with both shortcuts against `Literal`, one cycle
and one fresh mix at a time. **SoundLength** is a length counter with the frame
sequencer and the writes that clock it.

**Timer** is `timer.cpp` with the bus's choice between one call for a whole
span and one per clock; **TimerCycles** is the reference with one rule per
clock. Register writes fall on the end of a machine cycle, as `Cpu::write8`
ticks before it writes.

### The frontend

**RemoteReconnect** is the frontend's loop: `at` walks through the blocks of
`process_remote_link_requests` in their order (reject, report, reconnect, stop,
start, retry), `RemoteLinkSession::poll`, and the emulated frame. `Started` and
`Retried` have one disjunct per place where the code throws. The endpoint is
reduced to what decides about failures: channel state, attachment,
compatibility, whether a transfer is running, `failure_during_transfer_`.

**CartridgeBattery** has `flush_battery` as a sequence of steps (open, write,
mark clean; for each file) so that a crash or an error falls between any two;
`Reset` is `load_rom` in its order: the new core reads the files, the old one
flushes, the cores are swapped. **BatteryMemory** is what a battery promises:
memory and clock are those last kept, and the clock goes on.

**Updater** is three programs: the frontend, its download thread, and the helper
that installs after the frontend has left (shell script or Windows program),
each of which may be killed between two steps. The thread's last look at the
cancel (`Verify`) and the hashing of the archive (`Hash`) are steps of their own,
so that a cancel may fall between them.

**InputMovie** is the recorder for one button with what the loop and the event
handlers do around it. The machine is deterministic, so of the machine only its
cycle counter is kept, and a run is reproduced if the button is the same at
every step.

### Composites

`MCSerialCable`, `MCLinkSession`, `MCParts` and `MCFrontend` check components
that do not interact in one run each: the variable `subject` is chosen in the
first state, only the subject's actions are taken, and the rest stands still in
one of its initial states. The state space is the sum of the components', not the
product, and every property is checked over all of its component's behaviours.
The fairness of such a run is its component's with the guard `subject = ...`.

## 3. What the runs check

| run | module | what it shows |
|---|---|---|
| `cable` | MCSerialCable | *Cable*: two guests write SB and SC at any time over a cable plugged in and out. The cable's owner is the port that drives (`OwnerIsTheDriver`), an edge moves both ports or none and the two bits cross (`EdgesAreExchanged`), whole bytes are swapped (`WholeBytesAreSwapped`), unplugging strands nobody (`UnplugStrandsNobody`), an armed pair gets on (`ArmedPairProgresses`), and the cable implements the arbiter. *Channel*: with the stream split anywhere, damaged bytes, full buffers and connections that end, it implements a FIFO, and what was sent does not stay in a buffer (`EverythingArrives`). |
| `session` | MCLinkSession | *Local session*: its state is that of cable and watchdog, a retry starts from a byte boundary nobody drives, a stuck transfer is noticed. *Handshake*: two alike consoles become ready although a packet after the hello is lost (`AlikeBecomeReady`), are not parted by that, by a suspension or by the time they took to connect (`AlikeStayTogether`), and an end that vanishes does not leave the other connected (`SilenceEnds`). |
| `remote` | MCLinkDelivery | Two remote ports with a second request of the host, or one lost packet of any kind and its retransmission or timeout; the joiner may reset. No request clocked twice, no byte torn, bytes swapped, and no fault other than a timeout on a link that loses nothing (`OnlyTimeouts`). |
| `parts` | MCParts | The console's units one after another: interrupts (`EiShadow`, `NothingIsDropped`, `NothingIsSkipped`), arithmetic (`Consistent`), OAM DMA (`Snapshot`), bus clocks and HBlank DMA (`InStep`, `OneBlockPerHblank`), the picture unit's shortcuts (`SkippingIsInvisible`), the pixels of a line (`PictureIsRight`), the sound unit's shortcuts and lengths (`ShortcutsAreInaudible`, `CountedSoundsEnd`), the timer against its cycles (`ImplementsCycles`), the slices of the scheduler (`Balanced`). |
| `frontend` | MCFrontend | *Battery*: what the files lack is marked, and memory and clock survive failed flushes, crashes and states as a battery promises (`NothingForgotten`, `KeepsTheBattery`). *Remote session*: a dead link releases the port, a quiet loss is retried (`PortIsReleased`, `QuietLossIsRetried`). *Updater*: a download cancelled before the thread's last look is never installed, the settings survive (`CancelHolds`, `PreservesSettings`). *Movies*: `MoviesReproduce`. |
| `remote_early_retry`, `handshake_patient_host`, `battery_reset`, `reconnect_cap`, `reconnect_interrupted`, `picture_lyc`, `movie_replay` | | The findings 1 to 7 of section 5, each the violation of a sentence of the documentation or of a comment. |

Every property of a passing run has a mutant: a plausible slip in one operator
or action that makes TLC report exactly that property.

Deadlock is not checked where the program really may stop or a bound stops it:
the bounded histories of cable, channel, endpoint, battery and movies, a link
whose ends have both failed, and the console's parts whose bounds on writes and
depth are reached.

## 4. Bounds, fairness and assumptions

### Cable and session

Bytes have two bits: the smallest with a first, a last and an in-between state.
A bit takes two clocks, a bus cycle one, so that a phase can be before the edge,
at it, and held below it. The speeds of a DMG are checked; the CGB's fast mode
is covered by the theorems, which hold for all periods with
`FastPeriod <= NormalPeriod`. A bus cycle is never longer than one fast bit
(`CableAssumption`): the CPU hands the bus 8 clocks at most, a fast bit has 16.
In `session` one guest byte is enough (the data does not steer control),
`Timeout` is two slices so that the watchdog must count over slices, and
`MaxTransfers` bounds the counters.

Fairness of the cable: weak fairness of each console's time; the scheduler
steps both for as long as a session runs, which `LinkScheduler` shows.
`ArmedPairProgresses` is conditional on the guests leaving SC alone, as a guest
that re-arms for ever may wait for ever. Fairness of the session: weak fairness
of `Advance`; the frontend calls `advance()` each frame, and a call is a bounded
loop.

`StartIdle`: a session that is started around a transfer player one is *driving*
copies the driver into both ports, and the new cable owns neither
(`apps/sdl/emulation_session.cpp:1135`). Generation I games are reset to a
handshake first. For other games the guarantees of `cable` hold for a session
started while player one does not drive, so `OwnerIsTheDriver` is stated of the
cable; `session` starts around any transfer, and `SessionPorts` is proved of all
of them.

### Channel

Two payloads, one of which begins like a frame, three packets, three
connections, one damaged byte; reads and writes of nothing, six symbols or
everything, where a frame has five: so that a piece ends inside a header, inside a
payload and behind a frame. `MaxQueued = 2` is reached. Fairness: each frontend
polls its channel and takes its packets every frame. Nothing is asked of the
network. A `connect()` that succeeds at once is not told apart from one that
succeeds later.

### Handshake

Two base parts and the profile (the code has five and one), time limits in ticks
with the code's order of sizes (retry 2 < heartbeat 3 < silence 9), one trouble: a
packet after the hello lost, a tick of suspension, or an end that vanishes. They
are in proportion (`Limits`, evaluated as `HandshakeLimits`), as the code's are:
in sixtieths of a second 15, 60 and 300, with 24 retries.
`MaxWait = 1` tick until the peer connects, because a longer wait is finding 2;
the joiner may have attached at the start of that tick or not before its end;
losses of parts of the hello are left out of the passing run because of
finding 8. Fairness: the loop of an end that runs polls infinitely often, time
passes, a connection asked for comes about, a sleeper wakes up, and the
frontend turns an incompatible peer away.

### Remote endpoint

Two bits, one loss, one retransmission, at most two requests per side, one
reset. Bounds are per side so that the interesting case (the host clocks a byte,
the joiner takes over, the host comes back) fits; a second request and a loss are
not combined in one behaviour (`Bounded`): it would leave the time limit. It
would also reach finding 13, a protocol fault after a loss; `OnlyTimeouts`
therefore says `losses = 0` itself and claims nothing of a link that loses. The
divider phase is abstracted: an edge may be due at any time.

The protocol asks something of its environment; each is a named condition of
`LinkEndpoint`, and none holds by construction:

- `Steady`: a guest does not give the clock up in the middle of its own byte.
- `Patient`: a guest does not take the clock while the other side's request is
  pending. On a cable both ports finish a byte together; remotely the follower
  finishes first, and a host that takes the clock back at once makes the joiner
  yield in the middle of the byte (`docs/link-cable.md:314`: ownership is
  released explicitly after each byte).
- `AccurateRetries`: a request is only sent again when it or its answer was
  lost. Dropping this assumption is finding 1.
- `QuietResets`: a link is reset while no request is under way, and none is
  sent before the acknowledgement. Otherwise a request overtaken by the reset
  meets the next one and ends the session with a protocol fault, as the
  documentation allows (`docs/link-cable.md:65`).

That no request is clocked twice (`LinkClocksOnce`) needs the last only, the other
theorems about this module need all four.

### Remote session

`MaxAttempts` is 3, the code's value; the theorems are for any. Time points are
none, later, reached; a retry lies *seconds* ahead and the loop polls every
25 ms, hence at least one poll comes before a retry is due (`"seconds"` becomes
`"later"` at a poll). Fairness: the loop turns (`WF(Loop)`), and a time point
that was set is reached (`RetryDue`, `PollDue`). No fairness is asked of the
peer, the user or the guest.

### Console

*Timer*: a five-bit divider, two rates, TIMA of three values, a reload after two
clocks, spans of 1, 2, 3 and 7 clocks. What has to be preserved is stated by
`TimerCycles!Sizes` and checked by TLC: half a period is at least the reload
delay, and periods divide the divider. The span of 7 is longer than the reload,
shorter than the shortest period and prime to all, so that a span meets every
combination of edge, reload and wrap.

*CPU*: two sources (STAT and the joypad), one nested
interrupt, a program of two lines; the theorems are for any. *Alu*: operands at
the carries of bits, nibbles and bytes and at the decimal corrections.
*OAM DMA*: three bytes of two cycles and spans that do and do not fit.
*Bus*: a line of four dots with its HBlank at the third, spans longer than a
line. *Picture*: a line of 19 dots with all of the code's notches in it, three
visible lines, a last line of VBlank; `PictureAssumption` states the order of the
dots that the code relies on. The early HBlank request may come at one or at
several dots before an end of the transfer, as when the last pixels go out one
by one or are held up by an object. *Pixels*: 24 pixels (three tiles), five scrolls,
seven window positions, seven lists of objects, every layer on and off, and one
write on one of the lines. *Sound*: one voice at a time, two-valued volumes, an
LFSR of two bits (`SoundWaves`); lengths up to three (`SoundLength`).

A sound that the boot sequence left playing has no length
(`src/apu.cpp:50`), so `CountedSoundsEnd` is about the others (`booted`).
`PictureIsRight` judges lines no register was written on (`writes = 0`); writes
are in the model because they decide whether the *next* line is such a line, and
what they do was compared with the program.

### Battery, movies, updater

*Battery*: two contents, a clock that wraps after two seconds, two seconds of
host time, one save state. These reach a wrap with its carry, a clock that moves
on between a failed and the next flush, and a torn file of each kind.
`SavedSpec` resets a session only when everything is on disk
(`KeptBeforeReset`), because a reset with unsaved RAM is finding 4, which refutes
both properties by itself. The host's clock does not run backwards. The
destructor's second flush has no outcome the first one's retry does not have. A
game writes the carry bit only to clear it.

*Movies*: frames of two steps, two events, one rewind buffer, timelines of two
frames. A recording is exempt once it has `strayed`: the focus was lost with the
button down, or the Windows menu loaded a state into it
(`apps/sdl/event_dispatch.cpp:384`, whose shortcut refuses to).

*Updater*: two downloads, one killed program, both platforms, with and without
settings. `CancelHolds` is about a cancel before the thread's last look at it
(`timely`); a later one is finding 14. `PreservesSettings` is about helpers that
were not killed: see finding 9.

## 5. Findings

Seven have a run (TLC shows the behaviour, `PROJECT.json` quotes the sentence it
contradicts):

1. **A second response restarts a byte that is being shifted**
   (`remote_early_retry`, `src/tcp_serial_endpoint.cpp:951`). A retransmission
   that crosses the first answer is answered from the cache, as intended; the
   requester takes the second answer too and starts again at its first bit. The
   byte completes with wrong bits. The documentation and the fault harness say a
   duplicate is applied at most once.
2. **A patient host takes its peer for dead** (`handshake_patient_host`,
   `src/tcp_serial_endpoint.cpp:1003`). The time limit on silence counts from
   `attach()`, that is from `listen()`, not from the connection.
3. **On CGB, LY is not compared with LYC after line 144**
   (`picture_lyc`, `src/ppu_timing.cpp:192`).
4. **A reset goes on with the previous save** (`battery_reset`,
   `apps/sdl/emulation_session.cpp:600`). The replacement core reads the file
   before the running core is flushed; its next flush then overwrites the new
   save. The comment above says what should happen, and does it for one core.
5. **The limit of three reconnects is never reached** (`reconnect_cap`,
   `apps/sdl/emulation_session.cpp:1448`). The retry clears the counter when it
   has *begun* to connect.
6. **An interrupted transfer is forgotten** (`reconnect_interrupted`,
   `src/tcp_serial_endpoint.cpp:525`). The clean-up of a dead link runs at every
   poll and overwrites the flag from a port it has itself reset, so that the
   session reconnects by itself after all.
7. **A replay is not given its input** (`movie_replay`,
   `apps/sdl/emulation_policy.hpp:75`). The frame plan sends a replay to the
   branch that steps the core without `update_replay`.

Others were met while modelling and have no run of their own:

8. **One lost part of the hello fails the link**
   (`src/tcp_serial_endpoint.cpp:540`). An end acknowledges its peer's digest
   even while the peer's hello is incomplete to it; the peer takes that as the
   end of the handshake and no longer repeats the hello. The end that misses a
   part repeats its own until its retries are used up. `docs/link-cable.md:78-80`
   says that hello parts are retransmitted until both peers confirm receipt.
   `AlikeBecomeReady` fails with `Lossy = {"hello"}`.
9. **An installation killed in the middle and run again loses the user's
   settings** (`apps/sdl/windows_updater.cpp:286`): the second helper backs up
   the packaged file over the backup. `docs/platforms.md:74` says that updates
   preserve an existing settings file.
10. **The last pixels of the longest line are not drawn**
    (`src/ppu_timing.cpp:278`). `mode3_end_dot_` is capped at 369, but fine
    scroll 7, a window and ten aligned objects need 375 dots; the six rightmost
    pixels keep their old contents. `tests/ppu_timing_contract_tests.cpp:198-232`
    describes the costs as additive.
11. **A cancelled window handoff may still consume a row**
    (`src/ppu_timing.cpp:142`). WX from 6 to below 6 during the handoff cancels
    it but leaves `window_activation_count_` at 1; a later activation on the line
    moves the window on by two rows. The comment above (136-141) says that such a
    handoff does not consume one. The marker 0xFFFF (line 648) is only consumed
    while fewer than eight pixels are out; otherwise the rest of the line is
    painted as background.
12. **A save state that the program refuses to load**
    (`src/save_state_bus_read.cpp:65-69`, `267-308`). Mid-line values of the
    window's registers that the program writes fail the range checks of reading,
    and so does the backup `load_state` rolls back to
    (`src/save_state.cpp:136-148`, whose comment relies on the opposite).
    Rewinding and the start of a local link use the same codec.

13. **One lost packet may end the session as a protocol violation**
    (`src/tcp_serial_endpoint.cpp:635`). A joiner that yields to the host's
    request gives up its own (`pending_sequence_.reset()`), but its sequence
    numbers run on. If that request was lost, nobody repeats it, and the host
    takes the joiner's next one for out of order (line 862) and closes the link.
    `docs/link-cable.md:73-75` says that requests are retransmitted.
    `OnlyTimeouts` without its hypothesis `losses = 0` fails when a loss and a
    second request of the joiner are allowed together.

14. **A download cancelled while it is hashed is installed**
    (`apps/sdl/update_checker.cpp:680`). The thread looks at the cancel for the
    last time before `verify_asset` (682) reads and hashes the whole archive; it
    publishes the archive in any case, and the frontend launches the installer
    (`apps/sdl/emulation_runtime.cpp:1592-1616`; `was_cancelled` is asked for
    failed downloads only). The window's title says "press Escape to cancel" all
    the while (1577). `CancelHolds` fails when a cancel during `"hash"` counts as
    `timely`.

Findings 8, 9, 13 and 14 were produced by TLC on the models here; 10 to 12 were confirmed
on the compiled program. Smaller observations: clearing LCDC.5 behind the end of
a transfer with WX at 165 or 166 repaints with the current line counter
(`src/ppu.cpp:386-400`). `TcpLinkChannel::fail()` leaves the listener open, so a
joiner that comes back before the host retries is accepted by the kernel's
backlog and connected to nobody; and packets decoded in the poll that sees the
end of the stream are cleared with it.

## 6. What is proved

All theorems hold for every value of the constants that satisfies the named
assumptions of the modules (`PortAssumption`, `CableAssumption`,
`SchedulerAssumption`, `SessionAssumption`, `EndpointAssumption`, `NoneAssumption`,
`AttemptsAssumption`, `BatteryAssumption`, `MovieAssumption`, `CpuAssumption`,
`OamDmaAssumption`, `BusClockAssumption`, `FullAssumption`, `CgbsAssumption`,
`BusAssumption`, `PictureAssumption`, `SoundAssumption`), all of which TLC evaluates in the runs.

| theorem | of the specification | states | a run's property |
|---|---|---|---|
| `CableTypes`, `CableOneDriver`, `CableRoles`, `CableNoBacklog` | SerialCable `Spec` | types; one driver; SC shows the role; at most one edge held back | |
| `CableArbitration`, `CableExchange`, `CableUnplug` | `Spec` | `OwnerIsTheDriver`, `EdgesAreExchanged`, `UnplugStrandsNobody` | yes |
| `CableSwapsBytes`, `CableImplementsArbiter` | `ExchangeSpec` | `WholeBytesAreSwapped`, the refinement of ClockArbiter | yes |
| `SchedulerBalance`, `SchedulerRuns` | LinkScheduler `Spec` | `Balanced` with its types; the loop's last branch is dead | the first |
| `SessionFollowsCable`, `SessionRetries` | `SessionSpec` | `SessionMatchesCable`, `RetryFromBoundary` | yes |
| `SessionAlarm`, `SessionPorts` | `SessionSpec` | the watchdog gives no false alarm; the ports stay sound whatever the session is started on | |
| `QuietLinkClocksOnce`, `LinkClocksOnce` | LinkDelivery | `ClockedOnce` | yes |
| `ByteIsWhole`, `BytesSwapped` | `DeliverySpec` | `NoByteIsTorn`, `BytesAreSwapped` | yes |
| `LosslessLinkOnlyTimesOut` | `DeliverySpec` | `OnlyTimeouts`: no fault but a timeout as long as nothing was lost | yes |
| `AlikeAreNeverParted` | `HandshakeSpec`, given `Limits` | `AlikeStayTogether` | yes |
| `SessionTypes`, `SessionNothingOrphaned`, `SessionConnectedIsNotReported` | RemoteReconnect `Spec` | types; nothing half-open after a failure; a connected link is not reported lost | |
| `UpdaterCancelHolds`, `UpdaterPreservesSettings` | `UpdSpec` | `CancelHolds`, `PreservesSettings` | yes |
| `BatteryNothingForgotten`, `BatteryImplements` | `SavedSpec` | `NothingForgotten`, the refinement of BatteryMemory | yes |
| `MoviesAreReproduced` | `MovieSpec` | `MoviesReproduce` | yes |
| `SoundTypes`, `SoundsEnd` | `LengthSpec` | types, `CountedSoundsEnd` | the second |
| `DmaTypes`, `DmaTime`, `DmaSnapshot` | `DmaSpec` | types, a transfer's position is its age, `Snapshot` | the last |
| `BusTypes`, `BusInStep`, `BusOneBlock` | `BusSpec` | types, `InStep`, `OneBlockPerHblank` | the last two |
| `CpuTypes`, `CpuShadow`, `CpuDropsNothing`, `CpuSkipsNothing` | `CpuSpec` | types, `EiShadow`, `NothingIsDropped`, `NothingIsSkipped` | the last three |
| `TimerTypes`, `TimerImplementsCycles` | `TimerSpec` | types, the refinement of TimerCycles | the second |
| `PictureInvariant`, `PictureSkips` | `PicSpec` | place within the line; `SkippingIsInvisible` | the second |
| `WavesInvariant`, `ShortcutsHeard` | SoundWaves `SoundSpec` | an unmarked mix is the channels' voltage; `ShortcutsAreInaudible` | the second |

### The invariants

**Cable.** `OwnerIsTheDriver` is not inductive: a claim is granted when the
cable has no owner, which says something of the two ports only if each port is
sound (SC agrees with the role, a running transfer has bits left, a driver's
phase is below a bit period), and plugging in keeps it only if an unplugged
cable has no owner. `IInv` adds these two facts. `EdgeOnCable` is the central
lemma: the peer of a driver that is active must be following, so that both shift,
and either both or none complete. For the bytes, `ExchangeInv` says what SB
holds in the middle of an exchange: what is still to be sent of the own byte
and what has been received of the other (`InFlight`), and that nothing follows a
driver that has completed. It holds for every byte width.

**Scheduler and session.** Types and balance together are inductive: the step
that could unbalance is taken by a console that is not ahead. Of the session,
`SessionInv` adds to `SessionMatchesCable` that slices run only while connected;
`PortsInv` keeps the ports sound even when a start has made both drive, which
is all of the cable's invariant that survives `StartIdle`.

**Remote link.** `DeliveryInv` relates each side's memory (the last request
served and the one deferred) to the history: everything clocked is covered by the
memory, only a reset makes a side forget, and while the marker of a reset waits
for its acknowledgement no request is on its way. Markers and acknowledgements
are ordered, so that an old marker cannot make a side forget again. It was
checked by TLC on three million states before it was proved, and needs only
`QuietResets`: the guests, the retry timers and the channel do as they like.

That a byte is whole needs more (`LinkSound`), and all four conditions: `Steady`,
`Patient`, `AccurateRetries` and `QuietResets`. It speaks of one side and its
peer at a time, taken as records, and has four parts.

- `Own`, what a side knows of its request: the port fits the endpoint
  (`Shaped`), at most one reply is on its way, that reply is a response exactly if
  the peer has clocked the request, its bits are those the peer gave, and part way
  through the byte SB holds the bits received so far and the rest of the byte
  sent. A joiner whose request was clocked finds no request of the host, so it
  does not yield with half a byte exchanged.
- `Inbox`, what a side was asked: one request at most, the peer's newest, and none
  besides a deferred one.
- `Shared`, how the two belong together: a request on its way or put off is the one
  its sender still waits for and has had no answer to, or one that a joiner gave up
  before it was clocked; the cached reply says the same as the log; what is clocked
  is finished or awaited (`Untorn`).
- `Paced`, while nothing was lost: the last request served is the newest one, or the
  newest but one while the newest waits, so that no request is out of order. A loss
  breaks this part and no other.

`Own` and `Inbox` hold while a side is up, `Shared` while both are. Two sides that
take turns (`Turn`) let each action be treated once: a lemma on the record the
handler computes (`Answering`, `Inquires`, `Shifts`, `Forgotten`, `Resumes`,
`Expires`), one on what such a turn does to the two records, and one that brings it
back to the variables (`WriteSCStays`, `LoseStays`, ...). `NoneAssumption`, that an
empty optional is no packet and no fault, is all that is asked of `None`.

**Handshake.** `AlikeStayTogether` says that no deadline is missed, so that its
invariant (`HandshakeInv`, one `EndOK` per end) counts time. An end is parted
when it gives up its hello or judges its peer silent, and both are bounded:

- The *age* of a hello is the number of ticks its end has been saying it: the
  place in the round, and a round for every retry. A poll adds nothing to it, a
  tick at most one. `AgesOK` compares it with what it waits for: with the age of the
  peer's first hello while that is under way, then with the parts of a hello, then
  with the digest and its acknowledgement, one way each. A lost packet costs the
  retry and three ticks, a tick of suspension one. So the age stays
  under `BaseParts + 3 + (RetryTicks + 3) * troubles`, and a hello may grow as old as
  `(MaxRetries + 1) * (RetryTicks + BaseParts)`.
- *Silence* (`PatienceOK`) is bounded by the wait for the connection, what the
  peer's heartbeat clock shows (or, when something is on its way, a heartbeat), and
  a heartbeat and a tick for every trouble.

`HearsOK` is what makes the first bound true: the first packet heard of a peer is
a part of its hello, and every part of a first hello that was said is heard or
on its way. `Limits` asks exactly
that both bounds lie under the code's limits; with the code's numbers it allows
three troubles and a wait of 56 sixtieths of a second. It is a hypothesis
of the theorem and no assumption of the module, as the run of finding 2 violates
it; TLC evaluates it for the passing run. What one poll does is proved on the record
the handler computes (`RetriesHello`, `SaysHello`, `HandleTakes`, `SendsDigest`,
`BeatsOut`, joined in `PolledOpen`), and then for the end that polls
(`PollSelf`) and for its peer (`PollPeer`).

**Remote session.** `ConnectedIsNotReported` is not inductive: a poll may connect
a channel at any time. `ReconnectInv` strengthens it to every session a poll
might still connect (`MayConnect`).

**Updater.** `CancelKept`: an update at hand, or an archive being hashed, was not
cancelled in time.
`SettingsKept`: a helper at work has the installation to itself, and the user's
settings are in their place except while files are copied, and in the backup
from the backup on.

**Battery.** `BatteryInv`: no clock was updated later than now; what the files
lack is marked in the core, while it plays and in every step of a flush; a
replacement core that waits for the swap holds the same memory and the same time.
Without the last the refinement breaks at `Reset`, and without `KeptBeforeReset`
it does not hold at all: that is finding 4.

**Movies.** `RecordingKept`: a recording that nothing interfered with is
complete (it holds every change of the button in order, and the machine is not
being rewound). That a timeline gives every frame its button is proved by
induction over the frames.

**Console.** `SoundInv` adds to `CountedSoundsEnd` that a playing sound has a
length even while its counter is off, since a write can switch the counter on.
`DmaInv` says how far the copy is at each moment and what of OAM it has brought;
`BusInv` that the halves of a dot agree with the speed and a batch of dots has no
HBlank inside. `CpuInv` says where the main program's address is: in `pc`, or
lowest on the stack, or lost by a push to IE or IF, and that it is where the last
instruction of the program left off.

**Timer.** `TimerTypeOK` is inductive by itself; it includes that the bus leaves
no edge of the sequencer's bit behind. The work is in the step simulation. One
clock of the code is one clock of the hardware (`Clocked`, `HardwareClock`,
`ImplClock`); a loop of clocks is the hardware's recursion followed round by
round (`EachMaps`, `TicksRun`); and a span skipped in one addition is a run in
which only the divider and the reload delay move (`SkipOne`), because the bit the
counter watches does not fall before its field wraps, which is a matter of
remainders by a period that is any even divisor of the divider (`BitFalls`).

**Picture unit.** `PicInv` says where the unit stands: inside a line of the length
it has, a shorter line only as line 0, mode 2 only on visible lines.
`SkipsAreQuiet` shows of both shortcuts that nothing is due at a dot they leave
out (`NothingDue`: the scan of mode 2, the dots behind the last pixel, the lines
of VBlank but for the three changes of line 153), and `QuietDot` that such a dot
only counts. `TurnsAreDots` follows the two loops side by side: after every turn
the one with shortcuts stands where the literal one stands once as many dots are
gone. Without the last part of `PicInv` mode 2 could be skipped on line 153,
where the comparison with LYC changes.

**Sound unit.** `ShortcutsAreInaudible` rests on an invariant of the mix: while it
is not marked it is the voltage of the channels (`Kept`), which every register
write and every event of the sequencer must see to. `CyclesAgree` then shows of
one cycle that the kept mix is the one that would be computed. For a span that
is skipped, `Reached(x, s, k)` says what k cycles in which no channel changes
make of `s`: the countdowns are lower by k (the wave channel's by half of it,
the phase of the square's reload moved on by k modulo 4), and k equal voltages
were heard. Each cycle leads from k to k + 1 (`ReachedNext`) because the guard of
the shortcut keeps every countdown above its end, and the shortcut's own result
is what is reached at n (`ReachedInOneGo`). The second half of `Kept`, that no
square plays while the power is off, is needed as the phase stands still then.

### Loops

The library's induction theorems take an operator as a parameter, which the
provers cannot instantiate. **Iteration** states induction over the naturals of
*sets* instead (`InductionOverNat`, `InductionTo`), proved from the
well-foundedness of `<`, and from it that a loop given by a round function has a
function of its values (`LoopExists`) and that a set closed under the rounds
holds them all (`LoopKeeps`). What a recursive function computes is thereby
within reach, and is used for the requests a side has clocked, the timelines of
the movies and the loops of the timer, the picture unit and the sound unit. Remainders by a symbolic period
(`ModUnique`, `ModNext`, `ModPlus`, `ModOfMod`) are there too, as Z3 only knows
those by numbers.

## 7. What is only model-checked

- Liveness: `ArmedPairProgresses`, `EverythingArrives`, `StuckIsNoticed`,
  `AlikeBecomeReady`, `SilenceEnds`, `PortIsReleased`, `QuietLossIsRetried`.
  Fairness needs `ENABLED`, which the prover does not treat.
- `Consistent`: `Alu` computes with `Bitwise`, which no module with theorems may
  use.
- `AlikeStayTogether` where the limits are out of proportion (`Limits`): of a host
  that waits too long it is false (finding 2).
- `PartsTypeOK` as one formula: each of its six conjuncts is proved of its own
  specification (`CpuTypes`, `DmaTypes`, `BusTypes`, `TimerTypes`, `SoundTypes`,
  `SchedulerBalance`); the composite reaches `Bitwise` through `Alu`.
- `ImplementsFifo`: needs lemmas about the decoding of a concatenation of
  damaged frames.
- `PictureIsRight`: a long sequence of fetches whose invariant would restate most
  of `tick_mode3`.

## 8. What is not modelled

Components left out, with the reason, are in `PROJECT.json`: the cartridge
mappers (address arithmetic that contract tests enumerate), joypad, printer and
boot ROMs, the codecs of save states, the Super Game Boy host and its sound
processor (documented as incomplete), core selection, plug-ins, LAN discovery,
the fault harness of the tests, save synchronisation, settings and ROM library,
the desktop tools, Android's glue, logging, voxel rendering, and the command
line, web and test frontends.

Inside modelled components: handshake and serial packets are not composed
(the latter begin with the handshake complete); Android's suspension is in the
handshake only; discovery scans and dialogs that stop the loop are left out of the
remote session; the bit of an MBC3 clock read through its latch, the clocks of
HuC-3 and TAMA5, the camera image and player two's file are left out of the
battery; colour, palettes and the Super Game Boy out of the picture unit; the
values of envelope and sweep, filters and PCM12 out of the sound unit; key
bindings and drawing out of movies; diagnostics and traces everywhere.

Some hazards are covered by a property or a theorem without being a line of
`PROJECT.json`: the drift of two consoles over slices
(`src/link_scheduler.cpp:39`, `Balanced`), the backlog of edges
(`src/serial.cpp:153`, `CableNoBacklog`), the half-failed start
(`apps/sdl/emulation_session.cpp:1298`, `SessionNothingOrphaned`), the stale flag
of a reported loss (`apps/sdl/remote_link_controller.cpp:70`,
`SessionConnectedIsNotReported`) and its silent counterpart (68), files rewritten
in place (`src/cartridge_persistence.cpp:141`, `KeepsTheBattery`), a session
started on a transfer (`apps/sdl/emulation_session.cpp:1135`, `SessionPorts`), a
register write at a clock's edge (`src/timer.cpp:152`) and the bus's choice of
batches (`src/memory_bus.cpp:506`, both `ImplementsCycles`), the yield of a joiner
(`src/tcp_serial_endpoint.cpp:629`, `NoByteIsTorn`), the release of a finished
transfer (`src/serial.cpp:227`, `ImplementsArbiter`), and the loss of a link in
the middle of a poll (`src/tcp_serial_endpoint.cpp:447`, `PortIsReleased`).

## 9. Plan

In order of importance.

1. *Proofs*: the safety half of the channel's FIFO; with `LinkSound` at hand, that the remote link implements one abstract exchange.
2. *Save states* (`src/save_state_bus_read.cpp`): the ranges that are written
   against those that are accepted, and the rollback (finding 12).
3. *Remote link as a cable*: one abstract byte exchange implemented by both the
   local cable and LinkEndpoint; handshake and serial packets in one module, and
   both under the reconnecting session.
4. *Save synchronisation*: `reconcile()` over histories of edits on several
   devices never loses an edit without a conflict.
5. *Printer*, *LAN discovery* and the *mappers* with state of their own.

New components join one of the composites as another `subject`.
