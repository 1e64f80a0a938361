--------------------------------- MODULE Loader --------------------------------
(***************************************************************************)
(* What main does before it runs the program: loadData reads a file into   *)
(* program memory (loadBinFile or loadHexFile, megasim.c), and             *)
(* decodeAllInstructions decodes its words one by one (decoder.c).         *)
(*                                                                         *)
(* A binary file is the sequence of its words.  A hex file is the sequence *)
(* of its lines, [odd, pairs]: whether the number of its characters is odd *)
(* (the only bad format, since isValidHexString accepts every string) and  *)
(* what "%2X" reads at each pair of them, NotHex where it reads nothing.   *)
(* A line becomes a record only through the buffer it is read into, which  *)
(* keeps what earlier lines have left where a line stores nothing.         *)
(*                                                                         *)
(* Undefined behaviour is a choice: the buffer, program->size and the two  *)
(* high bytes of address are used before they are set, and what lies       *)
(* behind the end of a line is read as if it belonged to the line.         *)
(***************************************************************************)
EXTENDS Decoder

CONSTANTS
    MemSize,        \* coredef->prog_mem_size, in words: 65536
    BufSize,        \* the bytes of the buffer of a line: 256
    Span,           \* what the two bytes of an address can tell apart: 65536
    BinFiles, HexFiles,
    NotHex,
    SizeGarbage, HighGarbage, BufferGarbage,
    Behind,         \* what "%2X" may read, pair by pair, past the end of a line:
                    \* the lines that follow (out of step with their digits after
                    \* CR LF), then the heap
    NextWords       \* what may lie after the last word of program memory

Words == 0 .. 65535
Bytes == 0 .. 255
Buffer == 0 .. BufSize - 1
HexPairs == Seq(Bytes \cup {NotHex})
HexLine == [odd : BOOLEAN, pairs : HexPairs]

ASSUME LoaderAssumption ==
    /\ MemSize \in Nat \ {0}
    /\ BufSize \in Nat /\ BufSize > 4
    /\ Span \in Nat
    /\ NotHex \notin Bytes
    /\ SizeGarbage \subseteq Nat /\ HighGarbage \subseteq Nat
    /\ BufferGarbage \subseteq [Buffer -> Bytes]
    /\ Behind \subseteq HexPairs
    /\ NextWords \subseteq Words
    /\ BinFiles \subseteq Seq(Words)
    /\ HexFiles \subseteq Seq(HexLine)

VARIABLES
    phase,      \* "load", "hex", "decode", "run", "failed", or "wild" once
                \* memory outside the program's arrays has been used
    file,       \* the file named on the command line
    hex,        \* it is an Intel hex file
    line,       \* the line loadHexFile is at
    buffer,     \* bytes
    high,       \* the two high bytes of address
    data,       \* program->data
    size,       \* program->size
    i,          \* how many words have been decoded
    inst,       \* the last of program->instructions decoded
    start,      \* history: the size the hex file was begun with
    taken       \* history: the records accepted, each [record, from], from
                \* the size it found

hexVars == <<buffer, high, start, taken>>
vars == <<phase, file, hex, line, data, size, i, inst, hexVars>>

Index == 0 .. MemSize - 1
Least(a, b) == IF a < b THEN a ELSE b
None == [op |-> "none"]

Init ==
    /\ phase = "load"
    /\ \/ hex = FALSE /\ file \in BinFiles
       \/ hex = TRUE /\ file \in HexFiles
    /\ line = 0
    /\ buffer = [k \in Buffer |-> 0]
    /\ high = 0
    /\ data = [w \in Index |-> 0]
    /\ size = 0
    /\ i = 0
    /\ inst = None
    /\ start = 0
    /\ taken = <<>>

-----------------------------------------------------------------------------
\* A file longer than program memory is cut.
loadBinFile ==
    /\ phase = "load" /\ ~hex
    /\ size' = Least(Len(file), MemSize)
    /\ data' = [w \in Index |-> IF w < size' THEN file[w + 1] ELSE 0]
    /\ phase' = "decode"
    /\ UNCHANGED <<file, hex, line, i, inst, hexVars>>

\* Nothing but malloc sets program->size, and what the stack held is in the
\* buffer and above the two bytes that are set of each address.
openHexFile ==
    /\ phase = "load" /\ hex
    /\ size' \in SizeGarbage /\ start' = size'
    /\ buffer' \in BufferGarbage
    /\ high' \in HighGarbage
    /\ line' = 1
    /\ phase' = "hex"
    /\ UNCHANGED <<file, hex, data, i, inst, taken>>

\* What "%2X" reads at the kth pair, when the loop that reads the pairs of a
\* line runs for as many turns as the line has characters: twice too many.
\* The first turn too many meets the end of the line and reads nothing.
ReadAt(pairs, behind, k) ==
    LET n == Len(pairs)
    IN  IF k < n THEN pairs[k + 1]
        ELSE IF k \in n + 1 .. 2 * n - 1 /\ k - n <= Len(behind) THEN behind[k - n]
        ELSE NotHex

\* A pair is stored as an int, a byte with three zeros behind it, and a pair
\* that cannot be read stores nothing.
hexToByteArray(old, pairs, behind) ==
    LET at(k) == IF k < 0 THEN NotHex ELSE ReadAt(pairs, behind, k)
    IN  [k \in Buffer |->
            IF at(k) # NotHex THEN at(k)
            ELSE IF \E j \in 1 .. 3 : at(k - j) # NotHex THEN 0
            ELSE old[k]]

\* The zeros go past the end of the buffer.
Overruns(pairs, behind) ==
    \E k \in Buffer : k > BufSize - 4 /\ ReadAt(pairs, behind, k) # NotHex

\* The record in a sequence of bytes that is counted from 0.
Parsed(b) ==
    [address |-> 256 * b[1] + b[2], type |-> b[3],
     bytes |-> [k \in 1 .. b[0] |-> b[k + 3]], checksum |-> b[4 + b[0]]]

Line    == file[line]
Reading == phase = "hex" /\ line <= Len(file) /\ size < MemSize

ReadLine ==
    /\ Reading /\ ~Line.odd
    /\ \E behind \in Behind :
          /\ ~Overruns(Line.pairs, behind)
          /\ buffer' = hexToByteArray(buffer, Line.pairs, behind)
    /\ UNCHANGED <<file, hex, i, inst, high, start>>

oddLine ==
    /\ Reading /\ Line.odd
    /\ phase' = "failed"
    /\ UNCHANGED <<file, hex, line, data, size, i, inst, hexVars>>

overrunLine ==
    /\ Reading /\ ~Line.odd
    /\ \E behind \in Behind : Overruns(Line.pairs, behind)
    /\ phase' = "wild"
    /\ UNCHANGED <<file, hex, line, data, size, i, inst, hexVars>>

\* A type that is neither data nor end.
badRecord ==
    /\ ReadLine
    /\ buffer'[3] \notin {0, 1}
    /\ phase' = "failed"
    /\ UNCHANGED <<line, data, size, taken>>

endRecord ==
    /\ ReadLine
    /\ buffer'[3] = 1
    /\ phase' = "decode"
    /\ UNCHANGED <<line, data, size, taken>>

SumOf(bytes) ==
    LET sum[n \in 0 .. Len(bytes)] == IF n = 0 THEN 0 ELSE sum[n - 1] + bytes[n]
    IN  sum[Len(bytes)]

\* The two's complement of everything before the checksum.
Checksum(record, stored) ==
    LET sum == SumOf(stored) + (record.address % 256) + (record.address \div 256)
                  + Len(record.bytes) + record.type
    IN  (256 - (sum % 256)) % 256

ByteOf(words, b) == IF b % 2 = 0 THEN words[b \div 2] % 256 ELSE words[b \div 2] \div 256

\* The program's bytes with some stored from an address on.
Store(words, address, bytes) ==
    LET at(b) == IF b \in address .. address + Len(bytes) - 1
                 THEN bytes[b - address + 1]
                 ELSE ByteOf(words, b)
    IN  [w \in Index |-> at(2 * w) + 256 * at(2 * w + 1)]

\* What of a record is stored when it finds a size, and where.
Part(record, from) == SubSeq(record.bytes, 1, Least(Len(record.bytes), MemSize - from))
Place(record)      == record.address + Span * high

Fits(b) ==
    /\ 4 + b[0] < BufSize
    /\ LET record == Parsed(b)
           part   == Part(record, size)
       IN  Len(part) = 0 \/ Place(record) + Len(part) <= 2 * MemSize

\* A record longer than the buffer, or stored outside program->data.
wildRecord ==
    /\ ReadLine
    /\ buffer'[3] = 0 /\ ~Fits(buffer')
    /\ phase' = "wild"
    /\ UNCHANGED <<line, data, size, taken>>

\* Mutant: a record that does not match its checksum is reported and kept.
dataRecordKept ==
    /\ ReadLine
    /\ buffer'[3] = 0 /\ Fits(buffer')
    /\ LET record == Parsed(buffer')
           part   == Part(record, size)
       IN  /\ size' = size + Len(part)
           /\ data' = Store(data, Place(record), part)
           /\ taken' = Append(taken, [record |-> record, from |-> size])
           /\ phase' = "hex"
           /\ line' = line + 1

\* The bytes are stored first, and the checksum is compared after, over what
\* was stored.  The size grows by bytes.
dataRecord ==
    /\ ReadLine
    /\ buffer'[3] = 0 /\ Fits(buffer')
    /\ LET record == Parsed(buffer')
           part   == Part(record, size)
       IN  /\ size' = size + Len(part)
           /\ data' = Store(data, Place(record), part)
           /\ IF Checksum(record, part) = record.checksum
              THEN /\ taken' = Append(taken, [record |-> record, from |-> size])
                   /\ phase' = "hex"
                   /\ line' = line + 1
              ELSE phase' = "failed" /\ UNCHANGED <<line, taken>>

\* The lines have run out, or the size has reached that of the memory.
endOfHexFile ==
    /\ phase = "hex"
    /\ line > Len(file) \/ size >= MemSize
    /\ phase' = "decode"
    /\ UNCHANGED <<file, hex, line, data, size, i, inst, hexVars>>

-----------------------------------------------------------------------------
\* One turn of decodeAllInstructions; it may look at the word after.
decodeNext ==
    /\ phase = "decode" /\ i < size
    /\ IF i >= MemSize THEN phase' = "wild" /\ UNCHANGED <<i, inst>>
       ELSE /\ \E next \in IF i + 1 < MemSize THEN {data[i + 1]} ELSE NextWords :
                  inst' = Decode(data[i], next)
            /\ i' = i + 1
            /\ UNCHANGED phase
    /\ UNCHANGED <<file, hex, line, data, size, hexVars>>

runAVR ==
    /\ phase = "decode" /\ i >= size
    /\ phase' = "run"
    /\ UNCHANGED <<file, hex, line, data, size, i, inst, hexVars>>

Stopped == phase \in {"run", "failed", "wild"} /\ UNCHANGED vars

Next ==
    \/ loadBinFile \/ openHexFile
    \/ oddLine \/ overrunLine \/ badRecord \/ endRecord
    \/ wildRecord \/ dataRecord \/ endOfHexFile
    \/ decodeNext \/ runAVR
    \/ Stopped

Spec == Init /\ [][Next]_vars

-----------------------------------------------------------------------------
(***************************************************************************)
(* Properties.                                                             *)
(***************************************************************************)

\* A jump's offset and an address in program or data memory.
Offsets   == -2048 .. 2047
Addresses == 0 .. 2^22 - 1

\* The fields of a decoded instruction are in the range of the handlers' uses.
InstOK ==
    /\ inst.D \in 0 .. 31 /\ inst.R \in 0 .. 31
    /\ inst.K \in -128 .. 127 /\ inst.wsize \in {1, 2}
    /\ "A" \in DOMAIN inst => inst.A \in Offsets
    /\ "AL" \in DOMAIN inst => inst.AL \in Addresses

HexRecord == [address : Words, type : Bytes, bytes : Seq(Bytes), checksum : Bytes]

TypeOK ==
    /\ phase \in {"load", "hex", "decode", "run", "failed", "wild"}
    /\ hex \in BOOLEAN
    /\ line \in 0 .. Len(file) + 1
    /\ data \in [Index -> Words]
    /\ size \in Nat
    /\ i \in 0 .. MemSize
    /\ inst # None => InstOK
    /\ buffer \in [Buffer -> Bytes]
    /\ high \in Nat /\ start \in Nat
    /\ taken \in Seq([record : HexRecord, from : Nat])

Decoded == inst # None
Opcode  == data[i - 1]

\* Opcodes without an instruction that are decoded as those of another: SBRC
\* and SBRS with bit 3 set.
Tolerated(opcode) == Top6(opcode) = 63 /\ Bit(opcode, 3) = 1

\* An assembler can write the opcode: without the bits that hold operands it
\* is the base code of an instruction with one or two registers, a register
\* and a constant, an offset or a bit number, or without operands.
Assembled(opcode) ==
    LET rd == encode_rd(Bits(opcode, 4, 5))
        is(ops, operands) == \E op \in ops : opcode - operands = Base[op]
    IN  \/ is(TwoRegisters, rd + encode_rr(Bits(opcode, 0, 4) + 16 * Bit(opcode, 9)))
        \/ is(OneRegister, rd)
        \/ is(Immediates \cup {"RJMP", "RCALL"}, Bits(opcode, 0, 12))
        \/ is(RegisterBits, rd + Bits(opcode, 0, 3))
        \/ is(IoBits, Bits(opcode, 0, 8))
        \/ is({"IN", "OUT"}, rd + Low4(opcode) + 512 * Bits(opcode, 9, 2))
        \/ is({"BRx"}, Bits(opcode, 0, 11))
        \/ is(Bare, 0)

\* What is decoded is the instruction the opcode was assembled from, and what
\* is refused no assembler can write: of the overlapping masks, whichever is
\* tested first, none takes an opcode of another instruction, and no operand
\* loses a bit.
EncodesBack ==
    Decoded => IF inst.op = "ILLOP" THEN ~Assembled(Opcode)
               ELSE Tolerated(Opcode) \/ Encode(inst) = Opcode

\* The fields beyond the common ones that a handler takes from its record.
Needs(op) ==
    CASE op \in {"LDD", "STD", "LD2", "LD3", "ST2", "ST3", "ADIW", "SBIW", "ILLOP"} -> {"ireg"}
      [] op \in {"LPM", "LPMen", "ELPM"} -> {"mode"}
      [] op \in {"RJMP", "RCALL", "IN", "OUT", "CBI", "SBI", "SBIC", "SBIS"} -> {"A"}
      [] op \in {"JMP", "CALL", "LDS", "STS"} -> {"AL"}
      [] OTHER -> {}

\* No handler reads a field of its record, or follows its pointer, that the
\* decoder left as malloc returned it, and none shifts by more than a byte.
HandlerReady ==
    Decoded => /\ Needs(inst.op) \subseteq DOMAIN inst
               /\ inst.op \in RegisterBits \cup IoBits \cup {"BRx", "SEx", "CLx"} =>
                     inst.R \in 0 .. 7

\* A line that holds a record: all its pairs are digits, and there are as many
\* as its byte count asks for.
Whole(l) ==
    /\ \A k \in 1 .. Len(l.pairs) : l.pairs[k] # NotHex
    /\ Len(l.pairs) > 4 /\ Len(l.pairs) >= 5 + l.pairs[1]

\* What the digits of such a line say.
Own(l) == Parsed([k \in 0 .. Len(l.pairs) - 1 |-> l.pairs[k + 1]])

Stored(t) == Part(t.record, t.from)
Covers(t, b) == b \in Place(t.record) .. Place(t.record) + Len(Stored(t)) - 1

\* Every line so far gave a record, that of its own digits if it held one, and
\* the checksum was right.
RecordsAre ==
    /\ Len(taken) = line - 1
    /\ \A n \in 1 .. Len(taken) :
          /\ Whole(file[n]) => taken[n].record = Own(file[n])
          /\ taken[n].record.type = 0
          /\ taken[n].record.checksum = Checksum(taken[n].record, Stored(taken[n]))

\* A byte of program memory is that of the last record stored over it, or zero.
MemoryIs ==
    \A b \in 0 .. 2 * MemSize - 1 :
       /\ \A n \in 1 .. Len(taken) :
             /\ Covers(taken[n], b)
             /\ \A m \in n + 1 .. Len(taken) : ~Covers(taken[m], b)
             => ByteOf(data, b) = Stored(taken[n])[b - Place(taken[n].record) + 1]
       /\ (\A n \in 1 .. Len(taken) : ~Covers(taken[n], b)) => ByteOf(data, b) = 0

\* The size has grown by the bytes stored, from what it was begun with.
SizeIs ==
    LET after(t) == t.from + Len(Stored(t))
    IN  IF taken = <<>> THEN size = start
        ELSE /\ taken[1].from = start
             /\ \A n \in 1 .. Len(taken) - 1 : taken[n + 1].from = after(taken[n])
             /\ size = after(taken[Len(taken)])

\* Below the size of the memory no record is cut, and once the file has been
\* read no line is left but after a record that ends it.
NothingLeft ==
    size < MemSize =>
        /\ \A n \in 1 .. Len(taken) : Stored(taken[n]) = taken[n].record.bytes
        /\ phase # "hex" /\ line <= Len(file) =>
              (Whole(file[line]) => Own(file[line]).type = 1)

\* Whatever the buffer, the size and the address were begun with, and whatever
\* shorter or unreadable lines have left in the buffer: while a hex file is
\* read, and once it is accepted, each line that holds a record has been read
\* as its own digits say, memory is what the records stored one over the other,
\* at the place the address had, and the file is cut only where the size says
\* that memory is full.
HexAccounted ==
    hex /\ phase \in {"hex", "decode", "run"} =>
        RecordsAre /\ MemoryIs /\ SizeIs /\ NothingLeft
=============================================================================
