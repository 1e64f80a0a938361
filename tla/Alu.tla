---------------------------------- MODULE Alu ----------------------------------
(***************************************************************************)
(* The arithmetic, logic and bit instructions (handlers.c): what each does *)
(* to the registers and to the status register, and what the short         *)
(* programs compilers make of them do to values of two registers.  Those   *)
(* programs are where the flags matter: every one hands the carry of one   *)
(* instruction to the next.                                                *)
(*                                                                         *)
(* A register holds a number.  The code takes single bits of it: bit 7     *)
(* weighs Half, and bit 3 half of Nibble.                                  *)
(***************************************************************************)
EXTENDS Integers, Sequences

CONSTANTS
    Half,       \* the weight of bit 7: 128 in the code
    Nibble,     \* the weight of bit 4: 16 in the code
    Width,      \* the bits of a register: 8 in the code
    Inputs,     \* bound: the values registers start with
    Chosen      \* the programs to run

Size     == 2 * Half
Byte     == 0 .. Size - 1
WordSize == Size * Size

Programs ==
    {"add", "add-loop", "clear-add", "add-word", "double", "subtract", "compare", "sub-word",
     "negate", "constant", "compare-constant", "logical", "arithmetic", "shift-in",
     "multiply", "signed-unsigned", "signed", "fraction", "signed-fraction",
     "half-signed-fraction", "exchange", "merge", "swap", "bit"}

ASSUME WidthAssumption ==
    /\ Half \in Nat \ {0}
    /\ Width \in Nat /\ Size = 2 ^ Width
    /\ Nibble \in Nat \ {0} /\ Nibble % 2 = 0 /\ Size = Nibble * Nibble
    /\ Inputs \subseteq Byte
    /\ Chosen \subseteq Programs

(***************************************************************************)
(* Register pairs, named by their low register.  The multiplications       *)
(* leave their product in R1:R0; X is scratch.  ADIW, SBIW and the         *)
(* multiplications reach only some of the 32 registers, and any would do   *)
(* here.                                                                   *)
(***************************************************************************)
P == 0
A == 2
B == 4
X == 6
Registers == 0 .. 7

Flags == {"C", "Z", "N", "V", "S", "H", "T", "I"}

VARIABLES
    regs,       \* regs[0..31]
    sreg,       \* sreg[8]
    prog, next, \* the program, and its next instruction
    before      \* history: the registers it started with

vars == <<regs, sreg, prog, next, before>>

-----------------------------------------------------------------------------
(***************************************************************************)
(* The programs.  One that needs a constant takes the initial value of B   *)
(* for it: the constant was assembled into the program.                    *)
(***************************************************************************)
I(op, d, r) == [op |-> op, d |-> d, r |-> r]

LowK  == before[B]
HighK == before[B + 1]
ShortK == LowK % Nibble

Code ==
    CASE prog = "add"      -> <<I("ADD", A, B), I("ADC", A+1, B+1)>>
      [] prog = "add-loop" -> <<I("ADD", A, B), I("INC", X, X), I("DEC", X, X), I("ADC", A+1, B+1)>>
      [] prog = "clear-add" -> <<I("CLx", "C", "C"), I("ADC", A, B), I("ADC", A+1, B+1)>>
      [] prog = "add-word" -> <<I("ADIW", A, ShortK)>>
      [] prog = "double"   -> <<I("ADD", A, A), I("ADC", A+1, A+1)>>
      [] prog = "subtract" -> <<I("SUB", A, B), I("SBC", A+1, B+1)>>
      [] prog = "compare"  -> <<I("CP", A, B), I("CPC", A+1, B+1)>>
      [] prog = "sub-word" -> <<I("SBIW", A, ShortK)>>
      [] prog = "negate"   -> <<I("COM", A+1, A+1), I("NEG", A, A), I("SBCI", A+1, Size - 1)>>
      [] prog = "constant" -> <<I("SUBI", A, LowK), I("SBCI", A+1, HighK)>>
      [] prog = "compare-constant" -> <<I("CPI", A, LowK)>>
      [] prog = "logical"  -> <<I("LSR", A+1, A+1), I("ROR", A, A)>>
      [] prog = "arithmetic" -> <<I("ASR", A+1, A+1), I("ROR", A, A)>>
      [] prog = "shift-in" -> <<I("SEx", "C", "C"), I("ROR", A+1, A+1), I("ROR", A, A)>>
      [] prog = "multiply" -> <<I("MUL", A, B), I("MOVW", X, P),
                                I("MUL", A, B+1), I("ADD", X+1, P),
                                I("MUL", A+1, B), I("ADD", X+1, P)>>
      [] prog = "signed-unsigned" -> <<I("MULSU", A, B)>>
      [] prog = "signed"   -> <<I("MULS", A, B)>>
      [] prog = "fraction" -> <<I("FMUL", A, B)>>
      [] prog = "signed-fraction"     -> <<I("FMULS", A, B)>>
      [] prog = "half-signed-fraction" -> <<I("FMULSU", A, B)>>
      [] prog = "exchange" -> <<I("EOR", A, B), I("EOR", B, A), I("EOR", A, B)>>
      [] prog = "merge"    -> <<I("MOV", X, B), I("ANDI", X, HighK), I("LDI", X+1, HighK),
                                I("COM", X+1, X+1), I("AND", A, X+1), I("OR", A, X)>>
      [] prog = "swap"     -> <<I("SWAP", A, A), I("ORI", A, 0), I("SWAP", A, A)>>
      [] prog = "bit"      -> <<I("BST", A, 0), I("BLD", B, 0)>>

Running == next <= Len(Code)
Ends(p) == prog = p /\ ~Running

Execute(op) == Running /\ Code[next].op = op /\ next' = next + 1 /\ UNCHANGED <<prog, before>>

Inst == Code[next]
Rd == regs[Inst.d]
Rr == regs[Inst.r]
K  == Inst.r

TypeOK ==
    /\ regs \in [Registers -> Byte]
    /\ sreg \in [Flags -> BOOLEAN]
    /\ prog \in Chosen
    /\ next \in 1 .. Len(Code) + 1

Init ==
    /\ prog \in Chosen
    /\ next = 1
    /\ \E a, aa, b, bb \in Inputs :
          regs = [r \in Registers |-> CASE r = A   -> a
                                        [] r = A+1 -> aa
                                        [] r = B   -> b
                                        [] r = B+1 -> bb
                                        [] OTHER   -> 0]
    /\ \E flag \in BOOLEAN : sreg = [f \in Flags |-> flag]
    /\ before = regs

-----------------------------------------------------------------------------
(***************************************************************************)
(* Bits of numbers, and the bitwise operators.                             *)
(***************************************************************************)
Msb(x) == x >= Half
Mid(x) == 2 * (x % Nibble) >= Nibble
Odd(x) == x % 2 = 1
Num(flag) == IF flag THEN 1 ELSE 0

BitsOf(x)  == {i \in 0 .. Width - 1 : Odd(x \div 2 ^ i)}
ValueOf(S) == CHOOSE x \in Byte : BitsOf(x) = S

And(x, y) == ValueOf(BitsOf(x) \cap BitsOf(y))
Or(x, y)  == ValueOf(BitsOf(x) \cup BitsOf(y))
Xor(x, y) == ValueOf((BitsOf(x) \cup BitsOf(y)) \ (BitsOf(x) \cap BitsOf(y)))

Signed(x) == IF Msb(x) THEN x - Size ELSE x

(***************************************************************************)
(* The flags, from the top (or the middle) bits of the two operands and of *)
(* the result.  The immediate instructions have formulas of their own.     *)
(***************************************************************************)
Carried(d, r, res)  == (d /\ r) \/ (r /\ ~res) \/ (~res /\ d)
Borrowed(d, r, res) == (~d /\ r) \/ (r /\ res) \/ (res /\ ~d)
BorrowedImmediate(d, k, res) == (~d /\ k) \/ (k /\ res) \/ (res /\ d)

AddOverflow(d, r, res) == (d /\ r /\ ~res) \/ (~d /\ ~r /\ res)
\* Mutant: a difference overflows one way only.
SubOverflowOneSided(d, r, res) == d /\ ~r /\ ~res

SubOverflow(d, r, res) == (d /\ ~r /\ ~res) \/ (~d /\ r /\ res)
SubOverflowImmediate(d, k, res) == (d /\ ~k /\ res) \/ (~d /\ k /\ res)

NZVS(n, zero, v) ==
    [sreg EXCEPT !["N"] = n, !["Z"] = zero, !["V"] = v, !["S"] = (n # v)]

ByteFlags(res, v) == NZVS(Msb(res), res = 0, v)

-----------------------------------------------------------------------------
(***************************************************************************)
(* Addition and subtraction.  x, y are the operands, res the result.       *)
(***************************************************************************)
Adding(carry) ==
    LET res == (Rd + Rr + carry) % Size
    IN  /\ regs' = [regs EXCEPT ![Inst.d] = res]
        /\ sreg' = [ByteFlags(res, AddOverflow(Msb(Rd), Msb(Rr), Msb(res)))
                      EXCEPT !["H"] = Carried(Mid(Rd), Mid(Rr), Mid(res)),
                             !["C"] = Carried(Msb(Rd), Msb(Rr), Msb(res))]

ADD == Execute("ADD") /\ Adding(0)
ADC == Execute("ADC") /\ Adding(Num(sreg["C"]))

SubFlags(x, y, res) ==
    sreg' = [ByteFlags(res, SubOverflow(Msb(x), Msb(y), Msb(res)))
               EXCEPT !["H"] = Borrowed(Mid(x), Mid(y), Mid(res)),
                      !["C"] = Borrowed(Msb(x), Msb(y), Msb(res))]

Difference(x, y, borrow) == (x - y - borrow) % Size

Subtracting(borrow) ==
    LET res == Difference(Rd, Rr, borrow)
    IN  regs' = [regs EXCEPT ![Inst.d] = res] /\ SubFlags(Rd, Rr, res)

Comparing(borrow) ==
    SubFlags(Rd, Rr, Difference(Rd, Rr, borrow)) /\ UNCHANGED regs

SUB == Execute("SUB") /\ Subtracting(0)
SBC == Execute("SBC") /\ Subtracting(Num(sreg["C"]))
CP  == Execute("CP")  /\ Comparing(0)
CPC == Execute("CPC") /\ Comparing(Num(sreg["C"]))

ImmediateFlags(x, k, res) ==
    sreg' = [ByteFlags(res, SubOverflowImmediate(Msb(x), Msb(k), Msb(res)))
               EXCEPT !["H"] = Borrowed(Mid(x), Mid(k), Mid(res)),
                      !["C"] = BorrowedImmediate(Msb(x), Msb(k), Msb(res))]

SubtractingImmediate(borrow) ==
    LET res == Difference(Rd, K, borrow)
    IN  regs' = [regs EXCEPT ![Inst.d] = res] /\ ImmediateFlags(Rd, K, res)

SUBI == Execute("SUBI") /\ SubtractingImmediate(0)
SBCI == Execute("SBCI") /\ SubtractingImmediate(Num(sreg["C"]))
CPI  == Execute("CPI") /\ ImmediateFlags(Rd, K, Difference(Rd, K, 0)) /\ UNCHANGED regs

(***************************************************************************)
(* The word instructions, on the pair whose low register is Inst.d.        *)
(***************************************************************************)
Word(r, low)  == r[low] + Size * r[low + 1]
MsbW(x)       == x >= Size * Half
Stored(low, w) == [regs EXCEPT ![low] = w % Size, ![low + 1] = w \div Size]

\* Mutant: the result is kept in more than 16 bits.
ADIWUnwrapped ==
    LET word == Word(regs, Inst.d)
        res  == word + K
    IN  /\ Execute("ADIW")
        /\ regs' = Stored(Inst.d, res)
        /\ sreg' = [NZVS(MsbW(res), res = 0, MsbW(res) /\ ~MsbW(word))
                      EXCEPT !["C"] = ~MsbW(res) /\ MsbW(word)]

ADIW ==
    LET word == Word(regs, Inst.d)
        res  == (word + K) % WordSize
    IN  /\ Execute("ADIW")
        /\ regs' = Stored(Inst.d, res)
        /\ sreg' = [NZVS(MsbW(res), res = 0, MsbW(res) /\ ~MsbW(word))
                      EXCEPT !["C"] = ~MsbW(res) /\ MsbW(word)]

SBIW ==
    LET word == Word(regs, Inst.d)
        res  == (word - K) % WordSize
    IN  /\ Execute("SBIW")
        /\ regs' = Stored(Inst.d, res)
        /\ sreg' = [NZVS(MsbW(res), res = 0, MsbW(word) /\ ~MsbW(res))
                      EXCEPT !["C"] = MsbW(res) /\ ~MsbW(word)]

NEG ==
    LET res == (0 - Rd) % Size
    IN  /\ Execute("NEG")
        /\ regs' = [regs EXCEPT ![Inst.d] = res]
        /\ sreg' = [ByteFlags(res, res = Half)
                      EXCEPT !["H"] = Mid(res) \/ Mid(Rd), !["C"] = (res # 0)]

(***************************************************************************)
(* INC tests its result for 0x7F, as DEC does, and DEC leaves S alone.     *)
(* Neither touches the carry, so that a loop can count around a carry.     *)
(***************************************************************************)
INC ==
    LET res == (Rd + 1) % Size
    IN  /\ Execute("INC")
        /\ regs' = [regs EXCEPT ![Inst.d] = res]
        /\ sreg' = ByteFlags(res, res = Half - 1)

\* Mutant: DEC borrows into the carry, as SUBI does.
DECWithCarry ==
    LET res == (Rd - 1) % Size
    IN  /\ Execute("DEC")
        /\ regs' = [regs EXCEPT ![Inst.d] = res]
        /\ sreg' = [ByteFlags(res, res = Half - 1)
                      EXCEPT !["S"] = sreg["S"], !["C"] = (Rd = 0)]

DEC ==
    LET res == (Rd - 1) % Size
    IN  /\ Execute("DEC")
        /\ regs' = [regs EXCEPT ![Inst.d] = res]
        /\ sreg' = [ByteFlags(res, res = Half - 1) EXCEPT !["S"] = sreg["S"]]

-----------------------------------------------------------------------------
(***************************************************************************)
(* Multiplication, into R1:R0.  C is the top bit of the product, taken     *)
(* before a fractional product is shifted.  MULS and FMULS shift their     *)
(* operands left and right as ints, which does not extend the sign; MULSU  *)
(* and FMULSU first make the left operand a signed char.  The two signed   *)
(* fractional ones shift the product right, the signed one by its sign.    *)
(***************************************************************************)
Multiplied(op, product, shifted) ==
    LET res == product % WordSize
    IN  /\ Execute(op)
        /\ regs' = Stored(P, shifted)
        /\ sreg' = [sreg EXCEPT !["C"] = MsbW(res), !["Z"] = (shifted = 0)]

ShiftedRight(w) == (w \div 2) + (IF MsbW(w) THEN Size * Half ELSE 0)

MUL    == Multiplied("MUL", Rd * Rr, Rd * Rr)
MULS   == Multiplied("MULS", Rd * Rr, Rd * Rr)
\* Mutant: MULSU does not make its left operand signed.
MULSUUnsigned == Multiplied("MULSU", Rd * Rr, Rd * Rr)

MULSU  == LET w == (Signed(Rd) * Rr) % WordSize IN Multiplied("MULSU", w, w)
FMUL   == Multiplied("FMUL", Rd * Rr, (2 * Rd * Rr) % WordSize)
FMULS  == Multiplied("FMULS", Rd * Rr, ShiftedRight(Rd * Rr))
FMULSU == LET w == (Signed(Rd) * Rr) % WordSize IN Multiplied("FMULSU", w, ShiftedRight(w))

-----------------------------------------------------------------------------
(***************************************************************************)
(* Logic, shifts, bits and moves.                                          *)
(***************************************************************************)
Logical(op, res) ==
    /\ Execute(op)
    /\ regs' = [regs EXCEPT ![Inst.d] = res]
    /\ sreg' = ByteFlags(res, FALSE)

AND  == Logical("AND", And(Rd, Rr))
ANDI == Logical("ANDI", And(Rd, K))
OR   == Logical("OR", Or(Rd, Rr))
ORI  == Logical("ORI", Or(Rd, K))

\* Mutant: the operator of OR.
EORAsOr == Logical("EOR", Or(Rd, Rr))

EOR  == Logical("EOR", Xor(Rd, Rr))

COM ==
    LET res == Size - 1 - Rd
    IN  /\ Execute("COM")
        /\ regs' = [regs EXCEPT ![Inst.d] = res]
        /\ sreg' = [ByteFlags(res, FALSE) EXCEPT !["C"] = TRUE]

(***************************************************************************)
(* LSR, ROR and ASR differ in the bit they shift in.                       *)
(***************************************************************************)
Shifted(op, top) ==
    LET res == (Rd \div 2) + (IF top THEN Half ELSE 0)
    IN  /\ Execute(op)
        /\ regs' = [regs EXCEPT ![Inst.d] = res]
        /\ sreg' = [ByteFlags(res, top # Odd(Rd)) EXCEPT !["C"] = Odd(Rd)]

LSR == Shifted("LSR", FALSE)
ASR == Shifted("ASR", Msb(Rd))

\* Mutant: ROR shifts in the bit it shifts out.
RORStale == Shifted("ROR", Odd(Rd))

ROR == Shifted("ROR", sreg["C"])

Moved(op, res) ==
    /\ Execute(op)
    /\ regs' = [regs EXCEPT ![Inst.d] = res]
    /\ UNCHANGED sreg

SWAP == Moved("SWAP", (Rd % Nibble) * (Size \div Nibble) + Rd \div Nibble)
MOV  == Moved("MOV", Rr)
LDI  == Moved("LDI", K)

MOVW == Execute("MOVW") /\ regs' = Stored(Inst.d, Word(regs, Inst.r)) /\ UNCHANGED sreg

Flagged(op, flag, value) ==
    Execute(op) /\ sreg' = [sreg EXCEPT ![flag] = value] /\ UNCHANGED regs

SEx == Flagged("SEx", Inst.d, TRUE)
CLx == Flagged("CLx", Inst.d, FALSE)
BST == Flagged("BST", "T", Inst.r \in BitsOf(Rd))

(***************************************************************************)
(* BLD looks for the transfer bit in bit 6 of a bool, and so always clears *)
(* the bit of the register.                                                *)
(***************************************************************************)
BLD == Moved("BLD", ValueOf(BitsOf(Rd) \ {Inst.r}))

-----------------------------------------------------------------------------
Arithmetic == ADD \/ ADC \/ SUB \/ SBC \/ CP \/ CPC \/ SUBI \/ SBCI \/ CPI
                  \/ ADIW \/ SBIW \/ NEG \/ INC \/ DEC
Products   == MUL \/ MULS \/ MULSU \/ FMUL \/ FMULS \/ FMULSU
Bits       == AND \/ ANDI \/ OR \/ ORI \/ EOR \/ COM \/ LSR \/ ROR \/ ASR
                  \/ SWAP \/ MOV \/ LDI \/ MOVW \/ SEx \/ CLx \/ BST \/ BLD

Finished == ~Running /\ UNCHANGED vars

Next == Arithmetic \/ Products \/ Bits \/ Finished

Spec == Init /\ [][Next]_vars
-----------------------------------------------------------------------------
(***************************************************************************)
(* Two-byte values, unsigned and signed.                                   *)
(***************************************************************************)
WordA == Word(before, A)
WordB == Word(before, B)

SignedWord(w) == IF MsbW(w) THEN w - WordSize ELSE w
FitsWord(n)   == n \in -(WordSize \div 2) .. WordSize \div 2 - 1

(***************************************************************************)
(* Every way to add two words gives their sum, and the flags of the last   *)
(* instruction are those of the whole addition: C the unsigned overflow, V *)
(* the signed one, S the sign of the exact sum, H the carry out of the     *)
(* middle of the high byte; a loop counter between the two bytes, a stale  *)
(* carry from before and the flags of the low byte make no difference.     *)
(***************************************************************************)
Addend == IF prog = "double" THEN WordA ELSE IF prog = "add-word" THEN ShortK ELSE WordB

Additions == {"add", "add-loop", "clear-add", "double", "add-word"}

WideSum ==
    prog \in Additions /\ ~Running =>
        LET exact  == WordA + Addend
            signed == SignedWord(WordA) + SignedWord(Addend)
            middle == Size * Nibble
        IN  /\ Word(regs, A) = exact % WordSize
            /\ sreg["C"] = (exact >= WordSize)
            /\ sreg["V"] = ~FitsWord(signed)
            /\ sreg["S"] = (signed < 0)
            /\ prog # "add-word"
               => sreg["H"] = ((WordA % middle) + (Addend % middle) >= middle)

(***************************************************************************)
(* Every way to subtract or compare two words orders them: C says that the *)
(* first is lower, S that it is less as a signed number, V that the signed *)
(* difference does not fit.  A subtraction leaves the difference and a     *)
(* comparison both words, and COM, NEG, SBCI negate a word.                *)
(***************************************************************************)
Subtrahend == IF prog = "sub-word" THEN ShortK ELSE WordB

WideDifference ==
    /\ prog \in {"subtract", "compare", "sub-word"} /\ ~Running =>
          LET signed == SignedWord(WordA) - SignedWord(Subtrahend)
          IN  /\ sreg["C"] = (WordA < Subtrahend)
              /\ sreg["S"] = (signed < 0)
              /\ sreg["V"] = ~FitsWord(signed)
              /\ Word(regs, A) = IF prog = "compare" THEN WordA
                                 ELSE (WordA - Subtrahend) % WordSize
              /\ Word(regs, B) = WordB
    /\ Ends("negate") => Word(regs, A) = (0 - WordA) % WordSize

(***************************************************************************)
(* A word shifted right through the carry is halved, as an unsigned number *)
(* or as a signed one by its first instruction, and C is the bit lost.     *)
(***************************************************************************)
WideShift ==
    prog \in {"logical", "arithmetic", "shift-in"} /\ ~Running =>
        /\ Word(regs, A) =
              CASE prog = "logical"    -> WordA \div 2
                [] prog = "arithmetic" -> (SignedWord(WordA) \div 2) % WordSize
                [] prog = "shift-in"   -> (WordA + WordSize) \div 2
        /\ sreg["C"] = Odd(WordA)

(***************************************************************************)
(* The low word of a product of two words is assembled from three products *)
(* of bytes; MULSU multiplies a signed byte by an unsigned one, with the   *)
(* sign in C, and FMUL doubles.  MULS is right where neither operand is    *)
(* negative, which is all it is claimed for.                               *)
(***************************************************************************)
WideProduct ==
    LET a == before[A]
        b == before[B]
    IN  /\ Ends("multiply") =>
              Word(regs, X) = (WordA * b + Size * ((WordA * before[B + 1]) % Size)) % WordSize
        /\ Ends("signed-unsigned") => /\ Word(regs, P) = (Signed(a) * b) % WordSize
                                      /\ sreg["C"] = (Signed(a) * b < 0)
        /\ Ends("fraction") => Word(regs, P) = (2 * a * b) % WordSize
        /\ Ends("signed") /\ ~Msb(a) /\ ~Msb(b) => Word(regs, P) = Signed(a) * Signed(b)

(***************************************************************************)
(* Three exclusive ors exchange two registers; a mask and its complement   *)
(* merge two registers bit by bit; two SWAPs undo each other.              *)
(***************************************************************************)
BitsPlaced ==
    /\ Ends("exchange") => regs[A] = before[B] /\ regs[B] = before[A]
    /\ Ends("merge") => BitsOf(regs[A]) = (BitsOf(before[A]) \ BitsOf(HighK))
                                          \cup (BitsOf(before[B]) \cap BitsOf(HighK))
    /\ Ends("swap") => regs[A] = before[A]

-----------------------------------------------------------------------------
(***************************************************************************)
(* "All conditional branches can be used after this instruction"           *)
(* (Documentation/AVRInstructionSet.pdf, CPI): those that test for lower   *)
(* and for less find what a comparison with the constant should.           *)
(***************************************************************************)
ImmediateCompared ==
    Ends("compare-constant") =>
        /\ sreg["C"] = (before[A] < LowK)
        /\ sreg["S"] = (Signed(before[A]) < Signed(LowK))
=============================================================================
