-------------------------------- MODULE Alu --------------------------------
(***************************************************************************)
(* What the processor's instructions compute (src/src/cpu.cpp, from        *)
(* execute_instruction() and execute_cb() to decimal_adjust()): the        *)
(* accumulator r.a and the flags r.z, r.n, r.h and r.c as functions of     *)
(* their old values and an operand.                                        *)
(***************************************************************************)
EXTENDS Naturals, Bitwise

CONSTANT Operands   \* bound: the operands tried with every accumulator

VARIABLES r, v      \* the accumulator with its flags, the operand

aluVars == <<r, v>>

Byte == 0 .. 255
AluInit ==
    /\ r \in [a : Byte, z : {FALSE}, n : BOOLEAN, h : BOOLEAN, c : BOOLEAN]
    /\ v \in Operands

One(flag) == IF flag THEN 1 ELSE 0
Low(n)    == n % 256
Nibble(n) == n % 16

-----------------------------------------------------------------------------
Add(x, y, with) ==
    LET carry == One(with /\ x.c)
        sum   == x.a + y + carry
    IN  [a |-> Low(sum), z |-> Low(sum) = 0, n |-> FALSE,
         h |-> Nibble(x.a) + Nibble(y) + carry > 15, c |-> sum > 255]

Subtract(x, y, with) ==
    LET carry  == One(with /\ x.c)
        result == Low(x.a + 512 - y - carry)
    IN  [a |-> result, z |-> result = 0, n |-> TRUE,
         h |-> Nibble(x.a) < Nibble(y) + carry, c |-> x.a < y + carry]

Compare(x, y) == [Subtract(x, y, FALSE) EXCEPT !.a = x.a]

Logic(x, result, half) ==
    [a |-> result, z |-> result = 0, n |-> FALSE, h |-> half, c |-> FALSE]

AndA(x, y) == Logic(x, x.a & y, TRUE)
XorA(x, y) == Logic(x, x.a ^^ y, FALSE)
OrA(x, y)  == Logic(x, x.a | y, FALSE)

\* INC and DEC of any register or of memory leave the carry alone.
Increment(x, y) == [value |-> Low(y + 1), z |-> y = 255, n |-> FALSE,
                    h |-> Nibble(y) = 15, c |-> x.c]
Decrement(x, y) == [value |-> Low(y + 255), z |-> y = 1, n |-> TRUE,
                    h |-> Nibble(y) = 0, c |-> x.c]

DecimalAdjustOnce(x) ==
    LET high  == x.c \/ (~x.n /\ x.a > 159)
        low   == x.h \/ (~x.n /\ Nibble(x.a) > 9)
        by    == 96 * One(high) + 6 * One(low)
        value == IF x.n THEN Low(x.a + 256 - by) ELSE Low(x.a + by)
    IN  [a |-> value, z |-> value = 0, n |-> x.n, h |-> FALSE, c |-> high]

DecimalAdjust(x) ==
    LET high  == x.c \/ (~x.n /\ x.a > 153)
        low   == x.h \/ (~x.n /\ Nibble(x.a) > 9)
        by    == 96 * One(high) + 6 * One(low)
        value == IF x.n THEN Low(x.a + 256 - by) ELSE Low(x.a + by)
    IN  [a |-> value, z |-> value = 0, n |-> x.n, h |-> FALSE, c |-> high]

Complement(x)  == [x EXCEPT !.a = 255 - @, !.n = TRUE, !.h = TRUE]
SetCarry(x)    == [x EXCEPT !.n = FALSE, !.h = FALSE, !.c = TRUE]
InvertCarry(x) == [x EXCEPT !.n = FALSE, !.h = FALSE, !.c = ~@]

-----------------------------------------------------------------------------
(* The rotations and shifts of execute_cb(): the value and the bit that    *)
(* falls out, given the one that may be shifted in.                        *)
Top(y)    == y \div 128
Bottom(y) == y % 2

Shifted(operation, y, carry) ==
    CASE operation = "rlc"  -> Low(2 * y) + Top(y)
      [] operation = "rrc"  -> y \div 2 + 128 * Bottom(y)
      [] operation = "rl"   -> Low(2 * y) + One(carry)
      [] operation = "rr"   -> y \div 2 + 128 * One(carry)
      [] operation = "sla"  -> Low(2 * y)
      [] operation = "sra"  -> y \div 2 + 128 * Top(y)
      [] operation = "swap" -> Low(16 * y) + y \div 16
      [] operation = "srl"  -> y \div 2

FallsOut(operation, y) ==
    CASE operation \in {"rlc", "rl", "sla"}        -> Top(y) = 1
      [] operation \in {"rrc", "rr", "sra", "srl"} -> Bottom(y) = 1
      [] operation = "swap"                        -> FALSE

Rotate(operation, y, carry) ==
    LET value == Shifted(operation, y, carry)
    IN  [value |-> value, z |-> value = 0, n |-> FALSE, h |-> FALSE,
         c |-> FallsOut(operation, y)]

\* RLCA, RRCA, RLA and RRA clear the zero flag.
RotateA(operation, x) ==
    LET result == Rotate(operation, x.a, x.c)
    IN  [a |-> result.value, z |-> FALSE, n |-> FALSE, h |-> FALSE, c |-> result.c]

TestBit(x, bit, y)  == [x EXCEPT !.z = (y \div 2^bit) % 2 = 0, !.n = FALSE,
                                 !.h = TRUE]
ResetBit(bit, y)    == y - 2^bit * ((y \div 2^bit) % 2)
SetBit(bit, y)      == ResetBit(bit, y) + 2^bit

-----------------------------------------------------------------------------
(* ADD HL,rr and ADD SP,e8: words.                                         *)
AddHL(x, hl, y) ==
    [value |-> (hl + y) % 65536, z |-> x.z, n |-> FALSE,
     h |-> (hl % 4096) + (y % 4096) > 4095, c |-> hl + y > 65535]

Signed(y) == IF y < 128 THEN y ELSE y + 65536 - 256

AddSP(sp, y) ==
    [value |-> (sp + Signed(y)) % 65536, z |-> FALSE, n |-> FALSE,
     h |-> Nibble(sp) + Nibble(y) > 15, c |-> Low(sp) + y > 255]

JumpRelative(pc, y) == (pc + Signed(y)) % 65536

BranchTaken(x, index) ==
    CASE index = 0 -> ~x.z [] index = 1 -> x.z [] index = 2 -> ~x.c
      [] index = 3 -> x.c

\* PUSH AF and POP AF: the low four bits of F do not exist.
FlagByte(x) == 128 * One(x.z) + 64 * One(x.n) + 32 * One(x.h) + 16 * One(x.c)
FromBytes(a, f) == [a |-> a, z |-> f \div 128 = 1, n |-> (f \div 64) % 2 = 1,
                    h |-> (f \div 32) % 2 = 1, c |-> (f \div 16) % 2 = 1]

AluSpec == AluInit /\ [][UNCHANGED aluVars]_aluVars

-----------------------------------------------------------------------------
Bcd(n)     == (n \div 10) * 16 + (n % 10)
IsBcd(y)   == Nibble(y) < 10 /\ y \div 16 < 10
Decimal(y) == (y \div 16) * 10 + Nibble(y)

(* DAA makes decimal arithmetic of binary: after ADD, ADC, SUB and SBC of  *)
(* two decimal bytes it leaves the decimal result and its carry or borrow, *)
(* so that numbers of any length can be computed byte by byte.             *)
DecimalArithmetic ==
    IsBcd(r.a) /\ IsBcd(v) =>
        LET sum   == Decimal(r.a) + Decimal(v) + One(r.c)
            rest  == Decimal(r.a) + 200 - Decimal(v) - One(r.c)
            plus  == DecimalAdjust(Add(r, v, TRUE))
            minus == DecimalAdjust(Subtract(r, v, TRUE))
        IN  /\ plus.a = Bcd(sum % 100) /\ plus.c = (sum > 99)
            /\ minus.a = Bcd(rest % 100) /\ minus.c = (rest < 200)

(* What one instruction does another one undoes, carry and borrow          *)
(* included: SBC after ADC, RR after RL, RRC after RLC, SWAP after SWAP,   *)
(* POP AF after PUSH AF, DEC after INC, XOR after XOR.                     *)
Undone ==
    /\ LET sum == Add(r, v, TRUE)
           low == Subtract([sum EXCEPT !.c = r.c], v, TRUE)
       IN  low.a = r.a /\ low.c = sum.c /\ low.h = sum.h
    /\ LET left == RotateA("rl", r) IN RotateA("rr", left).a = r.a
                                       /\ RotateA("rr", left).c = r.c
    /\ XorA(XorA(r, v), v).a = r.a
    /\ RotateA("rrc", RotateA("rlc", r)).a = r.a
    /\ Shifted("swap", Shifted("swap", v, FALSE), FALSE) = v
    /\ FromBytes(r.a, FlagByte(r)) = r
    /\ LET up == Increment(r, v) IN Decrement(r, up.value).value = v
                                    /\ Decrement(r, up.value).h = up.h

(* The word instructions agree with the same sum done byte by byte: ADD HL *)
(* with ADD and ADC, the flags of ADD SP with those of its low byte, a     *)
(* signed offset with an addition or a subtraction.                        *)
WordsAgreeWithBytes ==
    \A y \in {0, 255, 32512, 65535} :
        LET x    == 256 * v + r.a
            low  == Add(r, Low(y), FALSE)
            high == Add([low EXCEPT !.a = v], y \div 256, TRUE)
            word == AddHL(r, x, y)
            sp   == AddSP(x, Low(y))
        IN  /\ word.value = 256 * high.a + low.a
            /\ word.c = high.c /\ word.h = high.h
            /\ sp.h = low.h /\ sp.c = low.c
            /\ sp.value = IF Low(y) < 128 THEN (x + Low(y)) % 65536
                          ELSE (x + 65536 - (256 - Low(y))) % 65536

(* CP and the conditional jumps order bytes; a bit is what SET and RES make *)
(* of it; AND, OR and CPL obey De Morgan's law.                            *)
TestsAgree ==
    LET compared == Compare(r, v)
    IN  /\ compared.a = r.a
        /\ BranchTaken(compared, 1) = (r.a = v) /\ BranchTaken(compared, 0) = (r.a # v)
        /\ BranchTaken(compared, 3) = (r.a < v) /\ BranchTaken(compared, 2) = (r.a >= v)
        /\ \A bit \in 0 .. 7 : /\ ~TestBit(r, bit, SetBit(bit, v)).z
                              /\ TestBit(r, bit, ResetBit(bit, v)).z
                              /\ v \in {SetBit(bit, v), ResetBit(bit, v)}
        /\ AndA(r, v).a = Complement(OrA(Complement(r), 255 - v)).a
        /\ InvertCarry(SetCarry(r)).c = FALSE
        /\ JumpRelative(256 * v + r.a, v) = AddSP(256 * v + r.a, v).value

(* The instructions agree with each other and with arithmetic, the decimal *)
(* kind included.                                                          *)
Consistent ==
    v \in Operands => DecimalArithmetic /\ Undone /\ WordsAgreeWithBytes /\ TestsAgree
=============================================================================
