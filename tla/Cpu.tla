-------------------------------- MODULE Cpu --------------------------------
(***************************************************************************)
(* The control part of the processor (src/src/cpu.cpp): sampling and       *)
(* dispatch of interrupts, the delay of EI, HALT and its bug, STOP and the *)
(* speed switch. Peripherals run only while the processor idles, so an     *)
(* action here is the code between two calls of MemoryBus::tick, and       *)
(* requests are raised between the actions that ended in one. What an      *)
(* instruction computes is Alu's; which instruction comes is the guest's   *)
(* choice. A source is its bit in IE and IF; the lower bit has priority.   *)
(***************************************************************************)
EXTENDS Naturals, Sequences, FiniteSets

CONSTANTS Sources,              \* the sources of interrupts: bit numbers
          Lines,                \* addresses of the main program, modulo
          SettleSteps,          \* steps the speed switch takes
          MaxDepth              \* bound: interrupts nested

ASSUME CpuAssumption ==
    /\ Sources \subseteq Nat
    /\ Lines \in Nat \ {0}
    /\ SettleSteps \in Nat

Vblank == 0
Stat   == 1
Joypad == 4

VARIABLES
    machine,    \* DMG, CGB running a monochrome game, CGB
    ime,        \* ime_
    delay,      \* ime_enable_delay_
    halted, stopped,
    bug,        \* halt_bug_
    settling,   \* speed_switch_cycles_, in steps
    resume,     \* speed_switch_resume_
    ack,        \* stat_acknowledgment_
    phase,      \* what the next action goes on with
    ticked,     \* the peripherals ran before it
    late,       \* last_ppu_requests_ & 0x20
    enables,    \* interrupt_enable_, as a set of sources
    requests,   \* io_[0x0F], as a set of sources
    pc,         \* the program (main or a handler) and the address in it
    stack,      \* return addresses in memory, the last one first
    target,        \* where the bytes of the push under way go
    sent,       \* `dispatched`, while the vector is not entered yet
    grace,      \* history: EI is done and the instruction after it is not
    last        \* history: the main program's last instruction

regs    == <<ime, delay, halted, stopped, bug, settling, resume, ack>>
history == <<grace, last>>
cpuVars    == <<machine, regs, phase, ticked, late, enables, requests, pc, stack, target, sent,
             history>>

Places == {"ram", "high_on_ie", "low_on_ie", "high_on_if", "low_on_if"}

Main(n)    == [code |-> "main", of |-> {}, at |-> n % Lines]
Handler(s) == [code |-> "handler", of |-> s, at |-> 0] \* of no source: at 0
After(a)   == IF a.code = "main" THEN Main(a.at + 1) ELSE a

Pending == enables \cap requests       \* pending_interrupts()

\* reset(); the guest may have set up anything it likes since.
CpuInit ==
    /\ machine \in {"dmg", "compatible", "cgb"}
    /\ ime = FALSE /\ delay = 0 /\ halted = FALSE /\ stopped = FALSE
    /\ bug = FALSE /\ settling = 0 /\ resume = FALSE /\ ack = FALSE
    /\ phase = "sample" /\ ticked = FALSE /\ late = FALSE
    /\ enables = {} /\ requests = {}
    /\ pc = Main(0) /\ stack = <<>> /\ target = "ram"
    /\ sent = {}
    /\ grace = FALSE /\ last = [at |-> Main(Lines - 1), again |-> FALSE]

\* MemoryBus::tick: the marker of an earlier tick is forgotten.
Idle == ticked' = TRUE /\ late' = FALSE

(* request_interrupt() by a peripheral. A STAT edge may carry the marker   *)
(* that makes HALT wake up one sample late; edges are further apart than   *)
(* two samples.                                                            *)
Raise(s) ==
    /\ ticked /\ s \notin requests
    /\ requests' = requests \union {s}
    /\ late' \in IF s = Stat THEN BOOLEAN ELSE {late}
    /\ UNCHANGED <<machine, regs, phase, ticked, enables, pc, stack, target, sent, history>>

\* set_button(): the frontend's call between two steps.
Press ==
    /\ phase = "sample" /\ Joypad \in Sources \ requests
    /\ requests' = requests \union {Joypad}
    /\ UNCHANGED <<machine, regs, phase, ticked, late, enables, pc, stack, target, sent,
                   history>>

-----------------------------------------------------------------------------
(* step(), up to the first tick.                                           *)
SettleStep ==
    /\ phase = "sample" /\ settling # 0
    /\ settling' = settling - 1 /\ Idle
    /\ UNCHANGED <<machine, ime, delay, halted, stopped, bug, resume, ack, phase,
                   enables, requests, pc, stack, target, sent, history>>

Resume ==
    /\ phase = "sample" /\ settling = 0 /\ resume
    /\ resume' = FALSE /\ Idle
    /\ UNCHANGED <<machine, ime, delay, halted, stopped, bug, settling, ack, phase,
                   enables, requests, pc, stack, target, sent, history>>

Sampling == phase = "sample" /\ settling = 0 /\ ~resume

\* Nothing runs, the peripherals neither, while the processor is stopped.
Sleep ==
    /\ Sampling /\ (halted \/ stopped) /\ Pending = {}
    /\ IF halted THEN Idle ELSE UNCHANGED <<ticked, late>>
    /\ UNCHANGED <<machine, regs, phase, enables, requests, pc, stack, target, sent, history>>

WakesLate == halted /\ Stat \in Pending /\ late

LateWake ==
    /\ Sampling /\ WakesLate /\ Idle
    /\ UNCHANGED <<machine, regs, phase, enables, requests, pc, stack, target, sent, history>>

Awake == Sampling /\ (halted \/ stopped => Pending # {}) /\ ~WakesLate

\* service_interrupt() up to its first tick.
EnterBehind(address) ==
    /\ ime' = FALSE /\ delay' = 0 /\ halted' = FALSE /\ stopped' = FALSE
    /\ settling' = 0 /\ resume' = FALSE /\ bug' = FALSE
    /\ pc' = IF phase = "fetched" THEN After(address) ELSE address
    /\ phase' = "push" /\ Idle

Enter(address) ==
    /\ ime' = FALSE /\ delay' = 0 /\ halted' = FALSE /\ stopped' = FALSE
    /\ settling' = 0 /\ resume' = FALSE /\ bug' = FALSE
    /\ pc' = address
    /\ phase' = "push" /\ Idle

Dispatch ==
    /\ Awake /\ ime /\ Pending # {}
    /\ Enter(pc)
    /\ UNCHANGED <<machine, ack, enables, requests, stack, target, sent, history>>

Fetch ==
    /\ Awake /\ ~(ime /\ Pending # {})
    /\ halted' = FALSE /\ stopped' = FALSE
    /\ phase' = "fetched" /\ Idle
    /\ UNCHANGED <<machine, ime, delay, bug, settling, resume, ack, enables, requests, pc,
                   stack, target, sent, history>>

-----------------------------------------------------------------------------
(* execute_instruction(), from the opcode that fetch8() read.              *)

\* A STAT edge up to the handler's first fetch belongs to the acknowledged one.
RequestsAtFetch == IF ack THEN requests \ {Stat} ELSE requests
Due       == enables \cap RequestsAtFetch
Discarded == phase = "fetched" /\ ime /\ machine = "cgb" /\ Due # {}

\* The prefetched opcode is not executed.
Discard ==
    /\ Discarded
    /\ Enter(pc)
    /\ requests' = RequestsAtFetch /\ ack' = FALSE
    /\ UNCHANGED <<machine, enables, stack, target, sent, history>>

\* step() after an instruction: the delayed effect of EI.
DelayedByNothing(d, on) == delay' = 0 /\ ime' = (on \/ d # 0)

Delayed(d, on) ==
    /\ delay' = IF d # 0 THEN d - 1 ELSE 0
    /\ ime' = (on \/ d = 1)

Ran(again) ==
    last' = IF pc.code = "main" THEN [at |-> pc, again |-> again] ELSE last

NextPc == IF bug THEN pc ELSE After(pc)

\* The common part of instructions that end with their opcode's fetch.
Executes(kind) ==
    /\ phase = "fetched" /\ ~Discarded
    /\ requests' = RequestsAtFetch /\ ack' = FALSE
    /\ Ran(bug \/ kind = "halt")
    /\ UNCHANGED <<machine, sent, stack>>

Retires(d, on) == Delayed(d, on) /\ phase' = "sample" /\ grace' = FALSE

Plain ==
    /\ Executes("plain") /\ Retires(delay, ime)
    /\ pc' = NextPc /\ bug' = FALSE
    /\ \/ UNCHANGED late /\ ticked' = FALSE
       \/ Idle              \* instructions with cycles after the fetch
    /\ UNCHANGED <<halted, stopped, settling, resume, enables, target>>

Quiet == UNCHANGED late /\ ticked' = FALSE

EI ==
    /\ Len(stack) < MaxDepth
    /\ Executes("ei") /\ Quiet
    /\ Delayed(IF ~ime /\ delay = 0 THEN 2 ELSE delay, ime)
    /\ phase' = "sample" /\ grace' = (~ime /\ delay = 0)
    /\ pc' = NextPc /\ bug' = FALSE
    /\ UNCHANGED <<halted, stopped, settling, resume, enables, target>>

DI ==
    /\ Executes("di") /\ Quiet /\ Retires(0, FALSE)
    /\ pc' = NextPc /\ bug' = FALSE
    /\ UNCHANGED <<halted, stopped, settling, resume, enables, target>>

(* HALT returns to itself when an interrupt is about to be taken, and is   *)
(* cut short, the next opcode being read twice, when one is pending that   *)
(* will not be.                                                            *)
Halt ==
    /\ Executes("halt") /\ Quiet /\ Retires(delay, ime)
    /\ IF Due # {} /\ (ime \/ delay # 0)
         THEN pc' = pc /\ bug' = FALSE /\ halted' = FALSE
         ELSE LET hits == ~ime /\ delay = 0 /\ Due # {}
              IN  pc' = NextPc /\ bug' = hits /\ halted' = ~hits
    /\ UNCHANGED <<stopped, settling, resume, enables, target>>

\* STOP is the speed switch when the guest asked for one.
Stop ==
    /\ Executes("stop") /\ Quiet /\ Retires(delay, ime)
    /\ pc' = After(pc) /\ bug' = FALSE  \* it skips its second byte
    /\ \E asked \in BOOLEAN, staged \in BOOLEAN :
          LET switches == machine = "cgb" /\ asked
          IN  /\ stopped' = ~switches
              /\ settling' = IF switches /\ staged THEN SettleSteps ELSE settling
              /\ resume' = (resume \/ (switches /\ staged))
    /\ UNCHANGED <<halted, enables, target>>

-----------------------------------------------------------------------------
(* Instructions that read or write before they are done.                   *)
Begins(kind) ==
    /\ kind = "reti" => stack # <<>>
    /\ Executes(kind) /\ Idle
    /\ pc' = NextPc /\ bug' = FALSE
    /\ phase' = kind
    /\ UNCHANGED <<ime, delay, halted, stopped, settling, resume, enables, target,
                   grace>>

\* pop() has run.
Reti ==
    /\ phase = "reti" /\ Idle /\ Retires(0, TRUE)
    /\ pc' = Head(stack) /\ stack' = Tail(stack)
    /\ UNCHANGED <<machine, halted, stopped, bug, settling, resume, ack, enables, requests,
                   target, sent, last>>

StoreIE ==
    /\ phase = "ie" /\ Quiet /\ Retires(delay, ime)
    /\ enables' \in SUBSET Sources
    /\ UNCHANGED <<machine, halted, stopped, bug, settling, resume, ack, requests, pc,
                   stack, target, sent, last>>

StoreIF ==
    /\ phase = "if" /\ Quiet /\ Retires(delay, ime)
    /\ requests' \in SUBSET Sources
    /\ UNCHANGED <<machine, halted, stopped, bug, settling, resume, ack, enables, pc,
                   stack, target, sent, last>>

-----------------------------------------------------------------------------
(* The rest of service_interrupt(): both bytes of the address are pushed,  *)
(* and what is pending between them decides where the processor goes.      *)
PushHigh ==
    /\ phase = "push"
    /\ target' \in Places           \* wherever the guest let SP point to
    /\ phase' = "high" /\ Idle
    /\ UNCHANGED <<machine, regs, enables, requests, pc, stack, sent, history>>

StoreHigh ==
    /\ phase = "high"
    /\ enables' \in IF target = "high_on_ie" THEN SUBSET Sources ELSE {enables}
    /\ requests' \in IF target = "high_on_if" THEN SUBSET Sources ELSE {requests}
    /\ phase' = "low" /\ Idle
    /\ UNCHANGED <<machine, regs, pc, stack, target, sent, history>>

Everything(s) == s

Lowest(s) == {t \in s : \A u \in s : t <= u}
OnlyStat == Stat \in Pending /\ Vblank \notin Pending /\ machine = "dmg"

Arbitrate ==
    /\ phase = "low"
    /\ enables' \in IF target = "low_on_ie" THEN SUBSET Sources ELSE {enables}
    /\ stack' = IF target = "ram" THEN <<pc>> \o stack ELSE stack
    /\ sent' = Pending
    /\ \E written \in IF target = "low_on_if" THEN SUBSET Sources ELSE {requests} :
          requests' = written \ Lowest(Pending)
    /\ ack' = OnlyStat
    /\ phase' = "vector" /\ Idle
    /\ UNCHANGED <<machine, ime, delay, halted, stopped, bug, settling, resume, pc,
                   target, history>>

Vector ==
    /\ phase = "vector" /\ Quiet
    /\ requests' = IF ack THEN requests \ {Stat} ELSE requests
    /\ pc' = Handler(Lowest(sent)) /\ sent' = {} /\ target' = "ram"
    /\ phase' = "sample"
    /\ UNCHANGED <<machine, regs, enables, stack, history>>

CpuStep ==
    \/ SettleStep \/ Resume \/ Sleep \/ LateWake \/ Dispatch \/ Fetch
    \/ Discard \/ Plain \/ EI \/ DI \/ Halt \/ Stop
    \/ \E kind \in {"reti", "ie", "if"} : Begins(kind)
    \/ Reti \/ StoreIE \/ StoreIF
    \/ PushHigh \/ StoreHigh \/ Arbitrate \/ Vector

CpuNext == CpuStep \/ Press \/ \E s \in Sources : Raise(s)

CpuSpec == CpuInit /\ [][CpuNext]_cpuVars

-----------------------------------------------------------------------------
CpuTypeOK ==
    /\ delay \in 0 .. 2 /\ ~(ime /\ delay # 0)
    /\ settling \in 0 .. SettleSteps
    /\ enables \subseteq Sources /\ requests \subseteq Sources
    /\ ~(halted /\ stopped)

(* The instruction after EI always runs before an interrupt is taken, so   *)
(* that EI, RET and EI, DI are safe idioms.                                *)
EiShadow == [][phase' = "push" /\ phase # "push" => ~grace]_cpuVars

(* A request leaves IF only when its own handler is entered or the guest   *)
(* writes IF, with a store or with a push its SP puts there; STAT,         *)
(* besides, in the cycles it is being acknowledged.                        *)
NothingIsDropped ==
    [][\A s \in requests \ requests' :
          \/ phase = "if"
          \/ phase = "high" /\ target = "high_on_if"
          \/ phase = "low" /\ target = "low_on_if"
          \/ phase = "low" /\ s \in enables /\ \A t \in Pending : s <= t
          \/ s = Stat /\ ack]_cpuVars

(* Interrupts are invisible to the program they interrupt: it goes on with *)
(* the instruction after its last one. Only HALT may run again, or make    *)
(* the one after it run twice.                                             *)
NothingIsSkipped ==
    [][last' # last =>
          \/ pc = After(last.at)
          \/ last.again /\ pc = last.at]_cpuVars

=============================================================================
