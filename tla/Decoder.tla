-------------------------------- MODULE Decoder --------------------------------
(***************************************************************************)
(* decodeInstruction (decoder.c): from an opcode, and the word after it,   *)
(* to the record the handlers take.  The decoder sets op, D, R, K and      *)
(* wsize for every opcode and the other fields only where it says so; here *)
(* a field it leaves as malloc returned it is missing from the record.     *)
(* The masks are read as fields of the opcode: (opcode & 0xFC0F) == 0x900F *)
(* is "the top six bits are 36 and the low four are 15".                   *)
(***************************************************************************)
EXTENDS Integers, Sequences

\* The field of n bits whose lowest is bit lo.
Bits(x, lo, n) == (x \div 2^lo) % 2^n
Bit(x, lo)     == Bits(x, lo, 1)
Signed(x, n)   == IF x >= 2^(n - 1) THEN x - 2^n ELSE x

Low4(opcode) == Bits(opcode, 0, 4)
Top4(opcode) == Bits(opcode, 12, 4)
Top6(opcode) == Bits(opcode, 10, 6)
Top7(opcode) == Bits(opcode, 9, 7)
Top8(opcode) == Bits(opcode, 8, 8)

\* What every opcode has before the tests; K is an int8_t.
Common(opcode) ==
    [D |-> Bits(opcode, 4, 5), R |-> Low4(opcode) + 16 * Bit(opcode, 9),
     K |-> Signed(Low4(opcode) + 16 * Bits(opcode, 8, 4), 8), wsize |-> 1]

\* A record with the fields of both, first's where they share one.
Over(first, second) ==
    [f \in DOMAIN first \cup DOMAIN second |-> IF f \in DOMAIN first THEN first[f] ELSE second[f]]

\* An instruction: its name and what it sets beside or over the common part.
Inst(op, fields, opcode) == Over([op |-> op], Over(fields, Common(opcode)))
Plain(op, opcode)        == Over([op |-> op], Common(opcode))

\* Mutant: an undefined opcode leaves ireg as it was.
ILLOPUnset(opcode)       == Plain("ILLOP", opcode)

ILLOP(opcode)            == Inst("ILLOP", [ireg |-> "opcode"], opcode)

-----------------------------------------------------------------------------
\* MOVW takes pairs of registers, the multiplications the upper ones.
MOVW(opcode) ==
    Inst("MOVW", [D |-> 2 * Bits(opcode, 4, 4), R |-> 2 * Low4(opcode)], opcode)

Multiply(opcode) ==
    IF Top8(opcode) = 2
    THEN Inst("MULS", [D |-> 16 + Bits(opcode, 4, 4), R |-> 16 + Low4(opcode),
                       cycles |-> 2], opcode)
    ELSE LET op == CASE Bit(opcode, 7) = 0 /\ Bit(opcode, 3) = 0 -> "MULSU"
                     [] Bit(opcode, 7) = 0 /\ Bit(opcode, 3) = 1 -> "FMUL"
                     [] Bit(opcode, 7) = 1 /\ Bit(opcode, 3) = 0 -> "FMULS"
                     [] OTHER -> "FMULSU"
         IN  Inst(op, [D |-> 16 + Bits(opcode, 4, 3), R |-> 16 + Bits(opcode, 0, 3),
                       cycles |-> 2], opcode)

TwoOperand == <<"CPC", "SBC", "ADD", "CPSE", "CP", "SUB", "ADC", "AND", "EOR", "OR", "MOV">>

Immediate == [top \in (3 .. 7) \cup {14} |->
                IF top = 14 THEN "LDI" ELSE <<"CPI", "SBCI", "SUBI", "ORI", "ANDI">>[top - 2]]

\* A register from 16 up; bit 8 is part of the constant.
WithImmediate(opcode) ==
    Inst(Immediate[Top4(opcode)], [D |-> 16 + Bits(opcode, 4, 4)], opcode)

\* Mutant: the mask of the middle bits of the displacement is 0x400.
DisplacedShort(opcode) ==
    Inst(IF Bit(opcode, 9) = 1 THEN "STD" ELSE "LDD",
         [K |-> Bits(opcode, 0, 3) + 8 * Bit(opcode, 10) + 32 * Bit(opcode, 13),
          ireg |-> IF Bit(opcode, 3) = 1 THEN "RY" ELSE "RZ", cycles |-> 2], opcode)

Displaced(opcode) ==
    Inst(IF Bit(opcode, 9) = 1 THEN "STD" ELSE "LDD",
         [K |-> Bits(opcode, 0, 3) + 8 * Bits(opcode, 10, 2) + 32 * Bit(opcode, 13),
          ireg |-> IF Bit(opcode, 3) = 1 THEN "RY" ELSE "RZ", cycles |-> 2], opcode)

-----------------------------------------------------------------------------
\* 1001 00sd dddd mmmm.  Mode 3 of LD and ST has no instruction, and of the
\* second group of four the loads are LPM and ELPM, the stores XMEGA's.
LoadStore(opcode) ==
    LET low    == Bits(opcode, 0, 2)
        store  == Bit(opcode, 9) = 1
        op     == CASE low = 0 -> (IF store THEN "ST" ELSE "LD")
                    [] low = 1 -> (IF store THEN "ST2" ELSE "LD2")
                    [] low = 2 -> (IF store THEN "ST3" ELSE "LD3")
                    [] OTHER -> "ILLOP"
        group  == Bits(opcode, 2, 2)
        ireg   == CASE group = 0 -> "RZ" [] group = 2 -> "RY" [] OTHER -> "RX"
    IN  CASE group = 1 /\ store -> ILLOP(opcode)
          [] group = 1 /\ ~store ->
                Inst(IF low < 2 THEN "LPMen" ELSE "ELPM",
                     [mode |-> 2 + (low % 2), cycles |-> 3], opcode)
          [] group # 1 /\ op = "ILLOP" -> ILLOP(opcode)
          [] OTHER -> Inst(op, [mode |-> low + 1, ireg |-> ireg, cycles |-> 2], opcode)

\* 1001 00sd dddd xxxx
Memory(opcode, next) ==
    CASE Low4(opcode) = 0 -> Inst(IF Bit(opcode, 9) = 1 THEN "STS" ELSE "LDS",
                                  [AL |-> next, wsize |-> 2, cycles |-> 2], opcode)
      [] Low4(opcode) = 15 -> Inst(IF Bit(opcode, 9) = 1 THEN "PUSH" ELSE "POP",
                                   [cycles |-> 2], opcode)
      [] OTHER -> LoadStore(opcode)

OneOperand == [low \in 0 .. 7 |->
                <<"COM", "NEG", "SWAP", "INC", "ILLOP", "ASR", "LSR", "ROR">>[low + 1]]

\* 1001 0101 xxxx 1000
Misc(opcode) ==
    LET what == Bits(opcode, 4, 4)
    IN  CASE what = 0 -> Inst("RET", [cycles |-> 4], opcode)
          [] what = 1 -> Inst("RETI", [cycles |-> 4], opcode)
          [] what = 8 -> Plain("SLEEP", opcode)
          [] what = 9 -> Plain("BREAK", opcode)
          [] what = 10 -> Plain("WDR", opcode)
          [] what = 12 -> Inst("LPM", [mode |-> 1], opcode)
          [] what = 13 -> Inst("ELPM", [mode |-> 1], opcode)
          [] what \in {14, 15} -> Inst("SPM", [mode |-> what - 13], opcode)
          [] OTHER -> ILLOP(opcode)

IsDEC(opcode) == Top7(opcode) = 74 /\ Low4(opcode) = 10

\* JMP and CALL: six bits of the address are in the opcode.
Absolute(op, cycles, opcode, next) ==
    Inst(op, [AL |-> (Bit(opcode, 0) + 2 * Bits(opcode, 4, 5)) * 65536 + next,
              wsize |-> 2, cycles |-> cycles], opcode)

\* 1001 010x xxxx xxxx
Group94(opcode, next) ==
    LET low == Low4(opcode)
        one == OneOperand[Bits(opcode, 0, 3)]
    IN  CASE low < 8 /\ one # "ILLOP" -> Plain(one, opcode)
          [] low = 8 /\ Top8(opcode) = 148 ->
                Inst(IF Bit(opcode, 7) = 1 THEN "CLx" ELSE "SEx",
                     [R |-> Bits(opcode, 4, 3)], opcode)
          [] low = 8 /\ Top8(opcode) = 149 -> Misc(opcode)
          [] low \in {12, 13} -> Absolute("JMP", 3, opcode, next)
          [] low \in {14, 15} -> Absolute("CALL", 4, opcode, next)
          [] opcode = 37897 -> Inst("IJMP", [cycles |-> 2], opcode)     \* 0x9409
          [] opcode = 37913 -> Inst("EIJMP", [cycles |-> 2], opcode)    \* 0x9419
          [] opcode = 38153 -> Inst("ICALL", [cycles |-> 3], opcode)    \* 0x9509
          [] opcode = 38169 -> Inst("EICALL", [cycles |-> 4], opcode)   \* 0x9519
          [] IsDEC(opcode) -> Plain("DEC", opcode)
          [] OTHER -> ILLOP(opcode)

-----------------------------------------------------------------------------
Pairs == <<"RW", "RX", "RY", "RZ">>

WordImmediate(opcode) ==
    Inst(IF Bit(opcode, 8) = 1 THEN "SBIW" ELSE "ADIW",
         [K |-> Low4(opcode) + 16 * Bits(opcode, 6, 2),
          ireg |-> Pairs[Bits(opcode, 4, 2) + 1], cycles |-> 2], opcode)

IoBit(opcode) ==
    LET fields == [A |-> Bits(opcode, 3, 5), R |-> Bits(opcode, 0, 3)]
    IN  CASE Bits(opcode, 8, 2) = 0 -> Inst("CBI", Over(fields, [cycles |-> 2]), opcode)
          [] Bits(opcode, 8, 2) = 1 -> Inst("SBIC", fields, opcode)
          [] Bits(opcode, 8, 2) = 2 -> Inst("SBI", Over(fields, [cycles |-> 2]), opcode)
          [] OTHER -> Inst("SBIS", fields, opcode)

InOut(opcode) ==
    Inst(IF Bit(opcode, 11) = 1 THEN "OUT" ELSE "IN",
         [A |-> Low4(opcode) + 16 * Bits(opcode, 9, 2)], opcode)

\* Mutant: the sign bit is not brought to the top before the shift.
RelativeUnsigned(op, cycles, opcode) ==
    Inst(op, [A |-> Bits(opcode, 0, 12), cycles |-> cycles], opcode)

Relative(op, cycles, opcode) ==
    Inst(op, [A |-> Signed(Bits(opcode, 0, 12), 12), cycles |-> cycles], opcode)

Branch(opcode) ==
    Inst("BRx", [R |-> Bits(opcode, 0, 3), D |-> 1 - Bit(opcode, 10),
                 K |-> Signed(Bits(opcode, 3, 7), 7)], opcode)

\* BLD and BST test bit 3 of the opcode, SBRC and SBRS do not.
RegisterBit(opcode) ==
    LET fields == [R |-> Bits(opcode, 0, 3)]
    IN  CASE Top6(opcode) = 62 /\ Bit(opcode, 3) = 0 ->
                Inst(IF Bit(opcode, 9) = 1 THEN "BST" ELSE "BLD", fields, opcode)
          [] Top6(opcode) = 63 ->
                Inst(IF Bit(opcode, 9) = 1 THEN "SBRS" ELSE "SBRC", fields, opcode)
          [] OTHER -> ILLOP(opcode)

\* No instruction of this build is above the type of its one device, so that
\* the last test, coredef->type < inst->op, never makes an ILLOP of one.
Decode(opcode, next) ==
    CASE opcode = 0 -> Plain("NOP", opcode)
      [] opcode # 0 /\ Top8(opcode) = 0 -> ILLOP(opcode)
      [] Top8(opcode) = 1 -> MOVW(opcode)
      [] Top7(opcode) = 1 -> Multiply(opcode)
      [] Top6(opcode) \in DOMAIN TwoOperand -> Plain(TwoOperand[Top6(opcode)], opcode)
      [] Top4(opcode) \in DOMAIN Immediate -> WithImmediate(opcode)
      [] Top4(opcode) \in {8, 10} -> Displaced(opcode)
      [] Top6(opcode) = 36 -> Memory(opcode, next)
      [] Top7(opcode) = 74 -> Group94(opcode, next)
      [] Top7(opcode) = 75 -> WordImmediate(opcode)
      [] Top6(opcode) = 38 -> IoBit(opcode)
      [] Top6(opcode) = 39 -> Inst("MUL", [cycles |-> 2], opcode)
      [] Top4(opcode) = 11 -> InOut(opcode)
      [] Top4(opcode) = 12 -> Relative("RJMP", 2, opcode)
      [] Top4(opcode) = 13 -> Relative("RCALL", 3, opcode)
      [] Bits(opcode, 11, 5) = 30 -> Branch(opcode)
      [] Bits(opcode, 11, 5) = 31 -> RegisterBit(opcode)

-----------------------------------------------------------------------------
(***************************************************************************)
(* The assembler's side, as the decoder's tests build their opcodes        *)
(* (UnitTests/decoder_tests.cpp): the base code of each instruction and    *)
(* the places of its operands.                                             *)
(***************************************************************************)
Base == Over([op \in {"IN"} |-> 45056],
    [NOP |-> 0, ADD |-> 3072, ADC |-> 7168, SUB |-> 6144, SBC |-> 2048,
     AND |-> 8192, EOR |-> 9216, OR |-> 10240, MOV |-> 11264, CPSE |-> 4096,
     CP |-> 5120, CPC |-> 1024, MUL |-> 39936, MOVW |-> 256, MULS |-> 512,
     MULSU |-> 768, FMUL |-> 776, FMULS |-> 896, FMULSU |-> 904,
     SUBI |-> 20480, SBCI |-> 16384, ANDI |-> 28672, ORI |-> 24576,
     CPI |-> 12288, LDI |-> 57344, ADIW |-> 38400, SBIW |-> 38656,
     COM |-> 37888, NEG |-> 37889, INC |-> 37891, DEC |-> 37898,
     LSR |-> 37894, ROR |-> 37895, ASR |-> 37893, SWAP |-> 37890,
     PUSH |-> 37391, POP |-> 36879, LDS |-> 36864, STS |-> 37376,
     LDD |-> 32768, STD |-> 33280, LD |-> 36864, ST |-> 37376,
     LPM |-> 38344, LPMen |-> 36868, ELPM |-> 38360, ELPMen |-> 36868,
     SPM |-> 38344 + 32, RJMP |-> 49152, RCALL |-> 53248, JMP |-> 37900,
     CALL |-> 37902, IJMP |-> 37897, EIJMP |-> 37913, ICALL |-> 38153,
     EICALL |-> 38169, RET |-> 38152, RETI |-> 38168, SLEEP |-> 38280,
     BREAK |-> 38296, WDR |-> 38312, SBRC |-> 64512, SBRS |-> 65024,
     SBIC |-> 39168, SBIS |-> 39680, CBI |-> 38912, SBI |-> 39424,
     OUT |-> 47104, BRx |-> 61440, BLD |-> 63488,
     BST |-> 64000, SEx |-> 37896, CLx |-> 38024])

encode_rd(rd)      == 16 * (rd % 32)
encode_4bit_rd(rd) == 16 * (rd % 16)
encode_rr(rr)      == (rr % 16) + 512 * Bit(rr, 4)
encode_k(k)        == (k % 16) + 256 * Bits(k, 4, 4)
encode_6bit_k(k)   == (k % 16) + 64 * Bits(k, 4, 2)
encode_al(al)      == Bit(al, 16) + 16 * Bits(al, 17, 5)

Pointer(ireg) == CASE ireg = "RZ" -> 0 [] ireg = "RY" -> 8 [] ireg = "RX" -> 12
PairNumber(ireg) ==
    CASE ireg = "RW" -> 0 [] ireg = "RX" -> 1 [] ireg = "RY" -> 2 [] ireg = "RZ" -> 3

TwoRegisters == {TwoOperand[n] : n \in DOMAIN TwoOperand} \cup {"MUL"}
Immediates   == {Immediate[n] : n \in DOMAIN Immediate}
OneRegister  == {"COM", "NEG", "SWAP", "INC", "ASR", "LSR", "ROR", "DEC",
                 "PUSH", "POP", "LDS", "STS"}
RegisterBits == {"SBRC", "SBRS", "BLD", "BST"}
IoBits       == {"CBI", "SBIC", "SBI", "SBIS"}
Bare         == {"NOP", "IJMP", "EIJMP", "ICALL", "EICALL", "RET", "RETI",
                 "SLEEP", "BREAK", "WDR", "LPM"}

\* The opcode of an instruction; JMP, CALL, LDS and STS have a second word.
Encode(i) ==
    CASE i.op \in TwoRegisters -> Base[i.op] + encode_rd(i.D) + encode_rr(i.R)
      [] i.op = "MOVW" -> Base.MOVW + encode_4bit_rd(i.D \div 2) + (i.R \div 2)
      [] i.op = "MULS" -> Base.MULS + encode_4bit_rd(i.D) + (i.R % 16)
      [] i.op \in {"MULSU", "FMUL", "FMULS", "FMULSU"} ->
            Base[i.op] + 16 * (i.D % 8) + (i.R % 8)
      [] i.op \in Immediates -> Base[i.op] + encode_4bit_rd(i.D) + encode_k(i.K)
      [] i.op \in {"ADIW", "SBIW"} ->
            Base[i.op] + 16 * PairNumber(i.ireg) + encode_6bit_k(i.K)
      [] i.op \in OneRegister -> Base[i.op] + encode_rd(i.D)
      [] i.op \in {"LDD", "STD"} ->
            Base[i.op] + encode_rd(i.D) + Pointer(i.ireg) + (i.K % 8)
                + 1024 * Bits(i.K, 3, 2) + 8192 * Bit(i.K, 5)
      [] i.op \in {"LD", "LD2", "LD3"} ->
            Base.LD + encode_rd(i.D) + Pointer(i.ireg) + i.mode - 1
      [] i.op \in {"ST", "ST2", "ST3"} ->
            Base.ST + encode_rd(i.D) + Pointer(i.ireg) + i.mode - 1
      [] i.op = "LPMen" -> Base.LPMen + encode_rd(i.D) + i.mode - 2
      [] i.op = "ELPM" -> IF i.mode = 1 THEN Base.ELPM
                          ELSE Base.ELPMen + encode_rd(i.D) + i.mode
      [] i.op = "SPM" -> Base.SPM + 16 * (i.mode - 1)
      [] i.op \in {"RJMP", "RCALL"} -> Base[i.op] + (i.A % 4096)
      [] i.op \in {"JMP", "CALL"} -> Base[i.op] + encode_al(i.AL)
      [] i.op \in RegisterBits -> Base[i.op] + encode_rd(i.D) + i.R
      [] i.op \in IoBits -> Base[i.op] + 8 * i.A + i.R
      [] i.op \in {"IN", "OUT"} ->
            Base[i.op] + encode_rd(i.D) + (i.A % 16) + 512 * Bits(i.A, 4, 2)
      [] i.op = "BRx" -> Base.BRx + 1024 * (1 - i.D) + 8 * (i.K % 128) + i.R
      [] i.op \in {"SEx", "CLx"} -> Base[i.op] + 16 * i.R
      [] i.op \in Bare -> Base[i.op]
=============================================================================
