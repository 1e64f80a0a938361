----------------------------- MODULE Loader_proofs -----------------------------
(***************************************************************************)
(* Proofs about the loader and the decoder: every instruction decoded is   *)
(* one its handler can take (HandlerReady) and the one its opcode was      *)
(* assembled from (EncodesBack), and what a hex file makes of memory and   *)
(* of the program's size is what its lines say (HexAccounted), for every   *)
(* file, every size of memory and buffer, and every garbage.               *)
(***************************************************************************)
EXTENDS Loader, TLAPS

-----------------------------------------------------------------------------
(***************************************************************************)
(* Program memory, byte by byte.                                           *)
(***************************************************************************)
Memory0 == [w \in Index |-> 0]

\* The two bytes of a word, and their word.
LEMMA Halves ==
    ASSUME NEW w \in Nat
    PROVE  /\ (2 * w) % 2 = 0 /\ (2 * w) \div 2 = w
           /\ (2 * w + 1) % 2 = 1 /\ (2 * w + 1) \div 2 = w
  OBVIOUS

LEMMA WordsAre == \A x : x \in Words <=> x \in Nat /\ x <= 65535
<1> DEFINE top == 65535
<1>1. top \in Nat
  OBVIOUS
<1>2. Words = 0 .. top
  BY DEF Words
<1>3. top = 65535
  OBVIOUS
<1> HIDE DEF top
<1>4. \A x : x \in Words <=> x \in Nat /\ x <= top
  BY <1>1, <1>2
<1> QED BY <1>3, <1>4

LEMMA BytesAre == \A x : x \in Bytes <=> x \in Nat /\ x <= 255
  BY DEF Bytes

LEMMA WordHalves ==
    ASSUME NEW w \in Words
    PROVE  w % 256 \in Bytes /\ w \div 256 \in Bytes /\ (w % 256) + 256 * (w \div 256) = w
<1>1. w \in Nat /\ w <= 65535
  BY WordsAre
<1>2. w % 256 \in Nat /\ w % 256 <= 255 /\ w \div 256 \in Nat /\ w \div 256 <= 255
  BY <1>1
<1> QED BY <1>1, <1>2 DEF Bytes

LEMMA TwoBytes ==
    ASSUME NEW low \in Bytes, NEW top \in Bytes
    PROVE  low + 256 * top \in Words
<1>1. low \in Nat /\ low <= 255 /\ top \in Nat /\ top <= 255
  BY DEF Bytes
<1>2. low + 256 * top \in Nat /\ low + 256 * top <= 65535
  BY <1>1
<1> QED BY <1>2, WordsAre

\* Storing bytes in words makes words.
LEMMA ByteTyped ==
    ASSUME NEW words \in [Index -> Words], NEW b \in Nat, b \div 2 \in Index
    PROVE  ByteOf(words, b) \in Bytes
<1>1. words[b \div 2] \in Words
  OBVIOUS
<1>2. words[b \div 2] % 256 \in Bytes /\ words[b \div 2] \div 256 \in Bytes
  BY <1>1, WordHalves
<1> QED BY <1>2 DEF ByteOf

\* The byte at an address once some bytes are stored.
NewByte(words, address, bytes, b) ==
    IF b \in address .. address + Len(bytes) - 1 THEN bytes[b - address + 1]
    ELSE ByteOf(words, b)

LEMMA NewByteTyped ==
    ASSUME NEW words \in [Index -> Words], NEW address \in Nat, NEW bytes \in Seq(Bytes),
           NEW b \in Nat, b \div 2 \in Index
    PROVE  NewByte(words, address, bytes, b) \in Bytes
<1>1. CASE b \in address .. address + Len(bytes) - 1
  <2>1. b - address + 1 \in 1 .. Len(bytes)
    BY <1>1
  <2> QED BY <1>1, <2>1 DEF NewByte
<1>2. CASE b \notin address .. address + Len(bytes) - 1
  BY <1>2, ByteTyped DEF NewByte
<1> QED BY <1>1, <1>2

\* Storing is word by word, and each byte of a word is the new one.
LEMMA StoreTyped ==
    ASSUME NEW words \in [Index -> Words], NEW address \in Nat, NEW bytes \in Seq(Bytes)
    PROVE  /\ Store(words, address, bytes) \in [Index -> Words]
           /\ \A w \in Index :
                 Store(words, address, bytes)[w] = NewByte(words, address, bytes, 2 * w)
                                                   + 256 * NewByte(words, address, bytes, 2 * w + 1)
           /\ \A w \in Index : /\ NewByte(words, address, bytes, 2 * w) \in Bytes
                               /\ NewByte(words, address, bytes, 2 * w + 1) \in Bytes
<1> DEFINE at(b) == NewByte(words, address, bytes, b)
<1>1. ASSUME NEW w \in Index
      PROVE  /\ at(2 * w) \in Bytes /\ at(2 * w + 1) \in Bytes
             /\ at(2 * w) + 256 * at(2 * w + 1) \in Words
  <2>1. w \in Nat
    BY LoaderAssumption DEF Index
  <2>2. at(2 * w) \in Bytes /\ at(2 * w + 1) \in Bytes
    <3>1. (2 * w) \div 2 = w /\ (2 * w + 1) \div 2 = w
      BY <2>1, Halves
    <3>2. 2 * w \in Nat /\ 2 * w + 1 \in Nat
      BY <2>1
    <3> QED BY <3>1, <3>2, NewByteTyped
  <2> HIDE DEF at
  <2> QED BY <2>2, TwoBytes
<1>2. Store(words, address, bytes) = [w \in Index |-> at(2 * w) + 256 * at(2 * w + 1)]
  BY DEF Store, NewByte
<1> HIDE DEF at
<1>3. /\ Store(words, address, bytes) \in [Index -> Words]
      /\ \A w \in Index : Store(words, address, bytes)[w] = at(2 * w) + 256 * at(2 * w + 1)
      /\ \A w \in Index : at(2 * w) \in Bytes /\ at(2 * w + 1) \in Bytes
  BY <1>1, <1>2
<1> QED BY <1>3 DEF at

\* The bytes of the words that hold two bytes each.
LEMMA BytesOfWord ==
    ASSUME NEW low \in Bytes, NEW top \in Bytes
    PROVE  (low + 256 * top) % 256 = low /\ (low + 256 * top) \div 256 = top
<1>1. low \in Nat /\ low <= 255 /\ top \in Nat
  BY BytesAre
<1> QED BY <1>1

\* What storing does to each byte.
LEMMA StoreByte ==
    ASSUME NEW words \in [Index -> Words], NEW address \in Nat, NEW bytes \in Seq(Bytes),
           NEW b \in 0 .. 2 * MemSize - 1
    PROVE  ByteOf(Store(words, address, bytes), b) = NewByte(words, address, bytes, b)
<1> DEFINE w == b \div 2
           at(k) == NewByte(words, address, bytes, k)
           new == Store(words, address, bytes)
<1>1. MemSize \in Nat /\ b \in Nat
  BY LoaderAssumption
<1>2. w \in Index /\ w \in Nat /\ ((b = 2 * w /\ b % 2 = 0) \/ (b = 2 * w + 1 /\ b % 2 # 0))
  BY <1>1 DEF Index
<1>3. new[w] = at(2 * w) + 256 * at(2 * w + 1) /\ at(2 * w) \in Bytes /\ at(2 * w + 1) \in Bytes
  BY <1>2, StoreTyped
<1> HIDE DEF at, new
<1>4. new[w] % 256 = at(2 * w) /\ new[w] \div 256 = at(2 * w + 1)
  BY <1>3, BytesOfWord
<1>5. ByteOf(new, b) = at(b)
  <2>1. CASE b = 2 * w /\ b % 2 = 0
    BY <1>4, <2>1 DEF ByteOf
  <2>2. CASE b = 2 * w + 1 /\ b % 2 # 0
    BY <1>4, <2>2 DEF ByteOf
  <2> QED BY <1>2, <2>1, <2>2
<1> QED BY <1>5 DEF at, new

-----------------------------------------------------------------------------
(***************************************************************************)
(* Lines, buffers and records.                                             *)
(***************************************************************************)

\* A file of lines, and what it says of each.
LEMMA LinesAre ==
    ASSUME file \in HexFiles
    PROVE  /\ Len(file) \in Nat
           /\ \A n \in 1 .. Len(file) :
                 /\ file[n] \in HexLine
                 /\ file[n].pairs \in HexPairs /\ Len(file[n].pairs) \in Nat
<1>1. file \in Seq(HexLine)
  BY LoaderAssumption
<1>2. ASSUME NEW n \in 1 .. Len(file)
      PROVE  /\ file[n] \in HexLine
             /\ file[n].pairs \in HexPairs /\ Len(file[n].pairs) \in Nat
  <2>1. file[n] \in HexLine
    BY <1>1
  <2>2. file[n].pairs \in HexPairs
    BY <2>1 DEF HexLine
  <2> QED BY <2>1, <2>2 DEF HexPairs
<1> QED BY <1>1, <1>2

LEMMA BufferIs ==
    /\ BufSize \in Nat /\ BufSize > 4 /\ NotHex \notin Bytes /\ 0 \in Bytes
    /\ Buffer \subseteq Nat /\ {0, 1, 2, 3, 4} \subseteq Buffer
<1>1. BufSize \in Nat /\ BufSize > 4 /\ NotHex \notin Bytes
  BY LoaderAssumption
<1> QED BY <1>1, BytesAre DEF Buffer

\* What is read is a byte, or nothing.
LEMMA ReadTyped ==
    ASSUME NEW pairs \in HexPairs, NEW behind \in HexPairs, NEW k \in Nat
    PROVE  ReadAt(pairs, behind, k) \in Bytes \cup {NotHex}
<1>1. Len(pairs) \in Nat /\ Len(behind) \in Nat
  BY DEF HexPairs
<1>2. \A n \in 1 .. Len(pairs) : pairs[n] \in Bytes \cup {NotHex}
  BY DEF HexPairs
<1>3. \A n \in 1 .. Len(behind) : behind[n] \in Bytes \cup {NotHex}
  BY DEF HexPairs
<1>4. CASE k < Len(pairs)
  <2>1. k + 1 \in 1 .. Len(pairs)
    BY <1>1, <1>4
  <2> QED BY <1>2, <1>4, <2>1 DEF ReadAt
<1>5. CASE ~(k < Len(pairs))
  <2>1. CASE k \in Len(pairs) + 1 .. 2 * Len(pairs) - 1 /\ k - Len(pairs) <= Len(behind)
    <3>1. k - Len(pairs) \in 1 .. Len(behind)
      BY <1>1, <2>1
    <3> QED BY <1>3, <1>5, <2>1, <3>1 DEF ReadAt
  <2>2. CASE ~(k \in Len(pairs) + 1 .. 2 * Len(pairs) - 1 /\ k - Len(pairs) <= Len(behind))
    <3>1. ReadAt(pairs, behind, k) = NotHex
      BY <1>5, <2>2 DEF ReadAt
    <3> QED BY <3>1
  <2> QED BY <2>1, <2>2
<1> QED BY <1>4, <1>5

\* A line is read into bytes, and its own digits are where they belong.
LEMMA BufferTyped ==
    ASSUME NEW old \in [Buffer -> Bytes], NEW pairs \in HexPairs, NEW behind \in HexPairs
    PROVE  /\ hexToByteArray(old, pairs, behind) \in [Buffer -> Bytes]
           /\ \A k \in Buffer : k < Len(pairs) /\ pairs[k + 1] # NotHex =>
                 hexToByteArray(old, pairs, behind)[k] = pairs[k + 1]
<1> DEFINE at(k) == IF k < 0 THEN NotHex ELSE ReadAt(pairs, behind, k)
           value(k) == IF at(k) # NotHex THEN at(k)
                       ELSE IF \E j \in 1 .. 3 : at(k - j) # NotHex THEN 0
                       ELSE old[k]
<1>1. hexToByteArray(old, pairs, behind) = [k \in Buffer |-> value(k)]
  BY DEF hexToByteArray
<1>2. ASSUME NEW k \in Buffer
      PROVE  /\ value(k) \in Bytes
             /\ k < Len(pairs) /\ pairs[k + 1] # NotHex => value(k) = pairs[k + 1]
  <2>1. k \in Nat /\ old[k] \in Bytes /\ 0 \in Bytes
    BY BufferIs
  <2>2. ReadAt(pairs, behind, k) \in Bytes \cup {NotHex}
    BY <2>1, ReadTyped
  <2>3. at(k) = ReadAt(pairs, behind, k)
    BY <2>1
  <2>4. k < Len(pairs) => at(k) = pairs[k + 1]
    BY <2>3 DEF ReadAt
  <2> HIDE DEF at
  <2> QED BY <2>1, <2>2, <2>3, <2>4
<1> HIDE DEF value
<1> QED BY <1>1, <1>2

\* A buffer holds a record, if it has room for it.
LEMMA ParsedTyped ==
    ASSUME NEW b \in [Buffer -> Bytes], 4 + b[0] < BufSize
    PROVE  /\ Parsed(b) \in HexRecord
           /\ Parsed(b).type = b[3]
<1>1. {0, 1, 2, 3, 4} \subseteq Buffer /\ BufSize \in Nat
  BY BufferIs
<1>2. b[0] \in Nat /\ b[0] \in Bytes /\ b[1] \in Bytes /\ b[2] \in Bytes /\ b[3] \in Bytes
  BY <1>1, BytesAre
<1>3. 256 * b[1] + b[2] \in Words
  <2>1. b[2] + 256 * b[1] \in Words
    BY <1>2, TwoBytes
  <2>2. b[2] + 256 * b[1] = 256 * b[1] + b[2]
    <3>1. b[1] \in Nat /\ b[2] \in Nat
      BY <1>2, BytesAre
    <3> QED BY <3>1
  <2> QED BY <2>1, <2>2
<1>4. 4 + b[0] \in Buffer /\ \A k \in 1 .. b[0] : k + 3 \in Buffer
  BY <1>1, <1>2 DEF Buffer
<1>5. b[4 + b[0]] \in Bytes /\ [k \in 1 .. b[0] |-> b[k + 3]] \in Seq(Bytes)
  <2>1. \A k \in 1 .. b[0] : b[k + 3] \in Bytes
    BY <1>4
  <2> QED BY <1>2, <1>4, <2>1
<1> QED BY <1>2, <1>3, <1>5 DEF Parsed, HexRecord

\* The record read from a line that holds one is that of its own digits.
LEMMA OwnParsed ==
    ASSUME NEW old \in [Buffer -> Bytes], NEW l \in HexLine, NEW behind \in HexPairs, Whole(l)
    PROVE  /\ hexToByteArray(old, l.pairs, behind)[3] = Own(l).type
           /\ 4 + hexToByteArray(old, l.pairs, behind)[0] < BufSize =>
                 Parsed(hexToByteArray(old, l.pairs, behind)) = Own(l)
<1> DEFINE n == Len(l.pairs)
           b == hexToByteArray(old, l.pairs, behind)
           own == [k \in 0 .. n - 1 |-> l.pairs[k + 1]]
<1>1. l.pairs \in HexPairs /\ n \in Nat /\ n > 4 /\ n >= 5 + l.pairs[1]
  BY DEF HexLine, HexPairs, Whole
<1>2. \A k \in 1 .. n : l.pairs[k] # NotHex
  BY DEF Whole
<1>3. ASSUME NEW k \in Buffer, k < n PROVE b[k] = l.pairs[k + 1] /\ own[k] = l.pairs[k + 1]
  <2>1. k \in 0 .. n - 1 /\ k + 1 \in 1 .. n
    BY <1>1, <1>3, BufferIs
  <2>2. l.pairs[k + 1] # NotHex
    BY <1>2, <2>1
  <2>3. b[k] = l.pairs[k + 1]
    BY <1>1, <1>3, <2>2, BufferTyped
  <2> QED BY <2>1, <2>3
<1>4. {0, 1, 2, 3, 4} \subseteq Buffer /\ BufSize \in Nat
  BY BufferIs
<1>5. l.pairs[1] \in Nat
  <2>1. l.pairs[1] \in Bytes \cup {NotHex} /\ l.pairs[1] # NotHex
    BY <1>1, <1>2 DEF HexPairs
  <2> QED BY <2>1, BytesAre
<1>6. Own(l) = Parsed(own)
  BY DEF Own
<1> HIDE DEF b, own, n
<1>7. /\ own[0] = l.pairs[1] /\ b[0] = own[0] /\ b[1] = own[1] /\ b[2] = own[2] /\ b[3] = own[3]
  <2>1. /\ 0 \in Buffer /\ 1 \in Buffer /\ 2 \in Buffer /\ 3 \in Buffer
        /\ 0 < n /\ 1 < n /\ 2 < n /\ 3 < n
    BY <1>1, <1>4
  <2> QED BY <1>3, <2>1
<1>8. Own(l).type = own[3]
  BY <1>6 DEF Parsed
<1>9. ASSUME 4 + b[0] < BufSize PROVE Parsed(b) = Parsed(own)
  <2>1. 4 + b[0] \in Buffer /\ 4 + b[0] < n
    BY <1>1, <1>4, <1>5, <1>7, <1>9 DEF Buffer
  <2>2. b[4 + b[0]] = own[4 + own[0]]
    BY <1>3, <1>7, <2>1
  <2>3. \A k \in 1 .. b[0] : b[k + 3] = own[k + 3]
    <3> SUFFICES ASSUME NEW k \in 1 .. b[0] PROVE b[k + 3] = own[k + 3]
      OBVIOUS
    <3>1. k + 3 \in Buffer /\ k + 3 < n
      BY <1>1, <1>4, <1>5, <1>7, <1>9 DEF Buffer
    <3> QED BY <1>3, <3>1
  <2>4. [k \in 1 .. b[0] |-> b[k + 3]] = [k \in 1 .. own[0] |-> own[k + 3]]
    BY <1>7, <2>3
  <2> QED BY <1>7, <2>2, <2>4 DEF Parsed
<1> QED BY <1>6, <1>7, <1>8, <1>9 DEF b

\* What of a record is stored, and how many bytes that is.
LEMMA PartIs ==
    ASSUME NEW record \in HexRecord, NEW from \in Nat, from < MemSize
    PROVE  /\ Part(record, from) \in Seq(Bytes)
           /\ Len(Part(record, from)) \in Nat
           /\ from + Len(Part(record, from)) < MemSize => Part(record, from) = record.bytes
<1> DEFINE bytes == record.bytes
           room == Least(Len(bytes), MemSize - from)
<1>1. bytes \in Seq(Bytes) /\ Len(bytes) \in Nat /\ MemSize \in Nat
  BY LoaderAssumption DEF HexRecord
<1>2. /\ room \in 0 .. Len(bytes)
      /\ from + room < MemSize => room = Len(bytes)
  BY <1>1 DEF Least
<1>3. Part(record, from) = SubSeq(bytes, 1, room)
  BY DEF Part
<1> HIDE DEF bytes, room
<1>4. /\ SubSeq(bytes, 1, room) \in Seq(Bytes) /\ Len(SubSeq(bytes, 1, room)) = room
  BY <1>1, <1>2
<1>5. \A k \in 1 .. room : SubSeq(bytes, 1, room)[k] = bytes[k]
  BY <1>1, <1>2
<1>6. room = Len(bytes) => SubSeq(bytes, 1, room) = bytes
  BY <1>1, <1>4, <1>5
<1> QED BY <1>2, <1>3, <1>4, <1>6 DEF bytes

-----------------------------------------------------------------------------
(***************************************************************************)
(* The decoder.                                                            *)
(***************************************************************************)
ShortOffset(op) == op \in RegisterBits \cup IoBits \cup {"BRx", "SEx", "CLx"}

\* A decoded record its handler can take.
Fine(d) ==
    /\ d.D \in 0 .. 31 /\ d.R \in 0 .. 31
    /\ d.K \in -128 .. 127 /\ d.wsize \in {1, 2}
    /\ "A" \in DOMAIN d => d.A \in Offsets
    /\ "AL" \in DOMAIN d => d.AL \in Addresses
    /\ Needs(d.op) \subseteq DOMAIN d
    /\ ShortOffset(d.op) => d.R \in 0 .. 7

\* The fields an instruction sets beside the common ones make such a record.
Sound(op, fields) ==
    /\ "op" \notin DOMAIN fields
    /\ "D" \in DOMAIN fields => fields["D"] \in 0 .. 31
    /\ "R" \in DOMAIN fields => fields["R"] \in 0 .. 31
    /\ "K" \in DOMAIN fields => fields["K"] \in -128 .. 127
    /\ "wsize" \in DOMAIN fields => fields["wsize"] \in {1, 2}
    /\ "A" \in DOMAIN fields => fields["A"] \in Offsets
    /\ "AL" \in DOMAIN fields => fields["AL"] \in Addresses
    /\ Needs(op) \subseteq DOMAIN fields
    /\ ShortOffset(op) => "R" \in DOMAIN fields /\ fields["R"] \in 0 .. 7

\* Membership in the two long ranges, as comparisons.
LEMMA OffsetsAre == \A x : x \in Offsets <=> x \in Int /\ -2048 <= x /\ x <= 2047
<1> DEFINE low == -2048
           top == 2047
<1>1. low \in Int /\ top \in Int
  OBVIOUS
<1>2. Offsets = low .. top
  BY DEF Offsets
<1>3. low = -2048 /\ top = 2047
  OBVIOUS
<1> HIDE DEF low, top
<1>4. \A x : x \in Offsets <=> x \in Int /\ low <= x /\ x <= top
  BY <1>1, <1>2
<1> QED BY <1>3, <1>4

LEMMA AddressesAre == \A x : x \in Addresses <=> x \in Nat /\ x <= 4194303
<1> DEFINE top == 2^22 - 1
<1>1. top \in Nat
  OBVIOUS
<1>2. Addresses = 0 .. top
  BY DEF Addresses
<1>3. top = 4194303
  OBVIOUS
<1> HIDE DEF top
<1>4. \A x : x \in Addresses <=> x \in Nat /\ x <= top
  BY <1>1, <1>2
<1> QED BY <1>3, <1>4

LEMMA Powers ==
    /\ 2^0 = 1 /\ 2^1 = 2 /\ 2^2 = 4 /\ 2^3 = 8 /\ 2^4 = 16 /\ 2^5 = 32 /\ 2^6 = 64
    /\ 2^7 = 128 /\ 2^8 = 256 /\ 2^9 = 512 /\ 2^10 = 1024 /\ 2^11 = 2048
    /\ 2^12 = 4096 /\ 2^13 = 8192
  OBVIOUS

\* The fields of an opcode that the decoder takes.
LEMMA OpcodeFields ==
    ASSUME NEW o \in Words
    PROVE  /\ Bits(o, 4, 5) \in 0 .. 31 /\ Bits(o, 3, 5) \in 0 .. 31
           /\ Low4(o) \in 0 .. 15 /\ Bits(o, 4, 4) \in 0 .. 15 /\ Bits(o, 8, 4) \in 0 .. 15
           /\ Bits(o, 0, 3) \in 0 .. 7 /\ Bits(o, 4, 3) \in 0 .. 7
           /\ Bits(o, 0, 2) \in 0 .. 3 /\ Bits(o, 4, 2) \in 0 .. 3
           /\ Bits(o, 6, 2) \in 0 .. 3 /\ Bits(o, 9, 2) \in 0 .. 3 /\ Bits(o, 10, 2) \in 0 .. 3
           /\ Bit(o, 0) \in 0 .. 1 /\ Bit(o, 9) \in 0 .. 1 /\ Bit(o, 10) \in 0 .. 1
           /\ Bit(o, 13) \in 0 .. 1
           /\ Bits(o, 0, 12) \in Nat /\ Bits(o, 0, 12) < 4096
           /\ Bits(o, 3, 7) \in Nat /\ Bits(o, 3, 7) < 128
<1>1. o \in Nat
  BY WordsAre
<1>2. /\ Bits(o, 4, 5) \in Nat /\ Bits(o, 4, 5) < 32
      /\ Bits(o, 3, 5) \in Nat /\ Bits(o, 3, 5) < 32
  BY <1>1, Powers DEF Bits
<1>3. /\ Bits(o, 0, 4) \in Nat /\ Bits(o, 0, 4) < 16
      /\ Bits(o, 4, 4) \in Nat /\ Bits(o, 4, 4) < 16
      /\ Bits(o, 8, 4) \in Nat /\ Bits(o, 8, 4) < 16
  BY <1>1, Powers DEF Bits
<1>4. /\ Bits(o, 0, 3) \in Nat /\ Bits(o, 0, 3) < 8
      /\ Bits(o, 4, 3) \in Nat /\ Bits(o, 4, 3) < 8
  BY <1>1, Powers DEF Bits
<1>5. /\ Bits(o, 0, 2) \in Nat /\ Bits(o, 0, 2) < 4
      /\ Bits(o, 4, 2) \in Nat /\ Bits(o, 4, 2) < 4
      /\ Bits(o, 6, 2) \in Nat /\ Bits(o, 6, 2) < 4
      /\ Bits(o, 9, 2) \in Nat /\ Bits(o, 9, 2) < 4
      /\ Bits(o, 10, 2) \in Nat /\ Bits(o, 10, 2) < 4
  BY <1>1, Powers DEF Bits
<1>6. /\ Bits(o, 0, 1) \in Nat /\ Bits(o, 0, 1) < 2
      /\ Bits(o, 9, 1) \in Nat /\ Bits(o, 9, 1) < 2
      /\ Bits(o, 10, 1) \in Nat /\ Bits(o, 10, 1) < 2
      /\ Bits(o, 13, 1) \in Nat /\ Bits(o, 13, 1) < 2
  BY <1>1, Powers DEF Bits
<1>7. /\ Bits(o, 0, 12) \in Nat /\ Bits(o, 0, 12) < 4096
      /\ Bits(o, 3, 7) \in Nat /\ Bits(o, 3, 7) < 128
  BY <1>1, Powers DEF Bits
<1> QED BY <1>2, <1>3, <1>4, <1>5, <1>6, <1>7 DEF Bit, Low4

\* A field read as a signed number.
LEMMA SignedRange ==
    /\ \A x \in Nat : x < 256 => Signed(x, 8) \in -128 .. 127
    /\ \A x \in Nat : x < 128 => Signed(x, 7) \in -64 .. 63
    /\ \A x \in Nat : x < 4096 => Signed(x, 12) \in Offsets
<1>1. /\ \A x \in Nat : Signed(x, 8) = IF x >= 128 THEN x - 256 ELSE x
      /\ \A x \in Nat : Signed(x, 7) = IF x >= 64 THEN x - 128 ELSE x
      /\ \A x \in Nat : Signed(x, 12) = IF x >= 2048 THEN x - 4096 ELSE x
  BY Powers DEF Signed
<1>2. /\ \A x \in Nat : x < 256 => Signed(x, 8) \in -128 .. 127
      /\ \A x \in Nat : x < 128 => Signed(x, 7) \in -64 .. 63
  BY <1>1
<1>3. \A x \in Nat : x < 4096 => Signed(x, 12) \in Offsets
  BY <1>1, OffsetsAre
<1> QED BY <1>2, <1>3

LEMMA CommonFields ==
    ASSUME NEW opcode \in Words
    PROVE  LET c == Common(opcode) IN
           /\ DOMAIN c = {"D", "R", "K", "wsize"}
           /\ c["D"] \in 0 .. 31 /\ c["R"] \in 0 .. 31
           /\ c["K"] \in -128 .. 127 /\ c["wsize"] \in {1, 2}
<1>1. Bits(opcode, 4, 5) \in 0 .. 31
  BY OpcodeFields
<1>2. Low4(opcode) + 16 * Bit(opcode, 9) \in 0 .. 31
  BY OpcodeFields
<1>3. Signed(Low4(opcode) + 16 * Bits(opcode, 8, 4), 8) \in -128 .. 127
  <2>1. /\ Low4(opcode) + 16 * Bits(opcode, 8, 4) \in Nat
        /\ Low4(opcode) + 16 * Bits(opcode, 8, 4) < 256
    BY OpcodeFields
  <2> QED BY <2>1, SignedRange
<1> QED BY <1>1, <1>2, <1>3 DEF Common

\* The fields of a record laid over another.
LEMMA OverFields ==
    ASSUME NEW f, NEW g
    PROVE  /\ DOMAIN Over(f, g) = DOMAIN f \cup DOMAIN g
           /\ \A x \in DOMAIN f : Over(f, g)[x] = f[x]
           /\ \A x \in DOMAIN g : x \notin DOMAIN f => Over(f, g)[x] = g[x]
  BY DEF Over

LEMMA InstFine ==
    ASSUME NEW op, NEW fields, NEW opcode \in Words, Sound(op, fields)
    PROVE  Fine(Inst(op, fields, opcode))
<1> DEFINE c == Common(opcode)
           named == [op |-> op]
           inner == Over(fields, c)
           d == Over(named, inner)
<1>1. /\ DOMAIN c = {"D", "R", "K", "wsize"}
      /\ c["D"] \in 0 .. 31 /\ c["R"] \in 0 .. 31
      /\ c["K"] \in -128 .. 127 /\ c["wsize"] \in {1, 2}
  BY CommonFields
<1>2. DOMAIN named = {"op"} /\ named["op"] = op
  OBVIOUS
<1>3. Inst(op, fields, opcode) = d
  BY DEF Inst
<1> HIDE DEF c, named
<1>4. /\ DOMAIN inner = DOMAIN fields \cup DOMAIN c
      /\ \A x \in DOMAIN fields : inner[x] = fields[x]
      /\ \A x \in DOMAIN c : x \notin DOMAIN fields => inner[x] = c[x]
  BY OverFields
<1> HIDE DEF inner
<1>5. /\ DOMAIN d = DOMAIN named \cup DOMAIN inner
      /\ \A x \in DOMAIN named : d[x] = named[x]
      /\ \A x \in DOMAIN inner : x \notin DOMAIN named => d[x] = inner[x]
  BY OverFields
<1> HIDE DEF d
<1>6. d["op"] = op
  BY <1>2, <1>5
<1>7. \A x \in DOMAIN fields : x \in DOMAIN d /\ d[x] = fields[x]
  BY <1>2, <1>4, <1>5 DEF Sound
<1>8. \A x \in DOMAIN c : x \in DOMAIN d /\ (x \notin DOMAIN fields => d[x] = c[x])
  BY <1>1, <1>2, <1>4, <1>5
<1>9. \A x \in DOMAIN d : x = "op" \/ x \in DOMAIN fields \/ x \in DOMAIN c
  BY <1>2, <1>4, <1>5
<1>10. d["D"] \in 0 .. 31 /\ d["R"] \in 0 .. 31
  BY <1>1, <1>7, <1>8 DEF Sound
<1>11. d["K"] \in -128 .. 127 /\ d["wsize"] \in {1, 2}
  BY <1>1, <1>7, <1>8 DEF Sound
<1>12. "A" \in DOMAIN d => d["A"] \in Offsets
  BY <1>1, <1>7, <1>9 DEF Sound
<1>13. "AL" \in DOMAIN d => d["AL"] \in Addresses
  BY <1>1, <1>7, <1>9 DEF Sound
<1>14. Needs(d["op"]) \subseteq DOMAIN d
  BY <1>6, <1>7 DEF Sound
<1>15. ShortOffset(d["op"]) => d["R"] \in 0 .. 7
  BY <1>6, <1>7 DEF Sound
<1> QED BY <1>3, <1>10, <1>11, <1>12, <1>13, <1>14, <1>15 DEF Fine

\* An instruction that sets nothing and needs nothing beside the common fields.
Modest(op) == Needs(op) = {} /\ ~ShortOffset(op)

LEMMA PlainFine ==
    ASSUME NEW op, NEW opcode \in Words, Modest(op)
    PROVE  Fine(Plain(op, opcode))
<1> DEFINE c == Common(opcode)
           named == [op |-> op]
           d == Over(named, c)
<1>1. /\ DOMAIN c = {"D", "R", "K", "wsize"}
      /\ c["D"] \in 0 .. 31 /\ c["R"] \in 0 .. 31
      /\ c["K"] \in -128 .. 127 /\ c["wsize"] \in {1, 2}
  BY CommonFields
<1>2. DOMAIN named = {"op"} /\ named["op"] = op
  OBVIOUS
<1>3. Plain(op, opcode) = d
  BY DEF Plain
<1> HIDE DEF c, named
<1>4. /\ DOMAIN d = DOMAIN named \cup DOMAIN c
      /\ \A x \in DOMAIN named : d[x] = named[x]
      /\ \A x \in DOMAIN c : x \notin DOMAIN named => d[x] = c[x]
  BY OverFields
<1> HIDE DEF d
<1>5. d["op"] = op /\ "A" \notin DOMAIN d /\ "AL" \notin DOMAIN d
  BY <1>1, <1>2, <1>4
<1>6. d["D"] \in 0 .. 31 /\ d["R"] \in 0 .. 31 /\ d["K"] \in -128 .. 127 /\ d["wsize"] \in {1, 2}
  BY <1>1, <1>2, <1>4
<1> QED BY <1>3, <1>5, <1>6 DEF Fine, Modest

\* What no handler needs more for.
LEMMA ModestOps ==
    ASSUME NEW op,
           op \in {"NOP", "CPC", "SBC", "ADD", "CPSE", "CP", "SUB", "ADC", "AND", "EOR", "OR",
                   "MOV", "CPI", "SBCI", "SUBI", "ORI", "ANDI", "LDI", "COM", "NEG", "SWAP",
                   "INC", "ASR", "LSR", "ROR", "DEC", "SLEEP", "BREAK", "WDR", "MUL", "MOVW",
                   "MULS", "MULSU", "FMUL", "FMULS", "FMULSU", "PUSH", "POP", "LD", "ST", "RET",
                   "RETI", "SPM", "IJMP", "EIJMP", "ICALL", "EICALL"}
    PROVE  Modest(op)
<1>1. ~ShortOffset(op)
  BY DEF ShortOffset, RegisterBits, IoBits
<1>2. Needs(op) = {}
  BY DEF Needs
<1> QED BY <1>1, <1>2 DEF Modest

\* What else the others need.
LEMMA OtherOps ==
    /\ \A op \in {"LDD", "STD", "LD2", "LD3", "ST2", "ST3", "ADIW", "SBIW", "ILLOP"} :
          Needs(op) = {"ireg"} /\ ~ShortOffset(op)
    /\ \A op \in {"LPM", "LPMen", "ELPM"} : Needs(op) = {"mode"} /\ ~ShortOffset(op)
    /\ \A op \in {"RJMP", "RCALL", "IN", "OUT"} : Needs(op) = {"A"} /\ ~ShortOffset(op)
    /\ \A op \in {"CBI", "SBI", "SBIC", "SBIS"} : Needs(op) = {"A"}
    /\ \A op \in {"JMP", "CALL", "LDS", "STS"} : Needs(op) = {"AL"} /\ ~ShortOffset(op)
    /\ \A op \in {"SBRC", "SBRS", "BLD", "BST", "BRx", "SEx", "CLx"} : Needs(op) = {}
  BY DEF Needs, ShortOffset, RegisterBits, IoBits

LEMMA ILLOPFine == \A o \in Words : Fine(ILLOP(o))
<1> SUFFICES ASSUME NEW o \in Words PROVE Fine(ILLOP(o))
  OBVIOUS
<1>1. Sound("ILLOP", [ireg |-> "opcode"])
  BY OtherOps DEF Sound
<1> QED BY <1>1, InstFine DEF ILLOP

LEMMA MOVWFine == \A o \in Words : Fine(MOVW(o))
<1> SUFFICES ASSUME NEW o \in Words PROVE Fine(MOVW(o))
  OBVIOUS
<1> DEFINE f == [D |-> 2 * Bits(o, 4, 4), R |-> 2 * Low4(o)]
<1>1. 2 * Bits(o, 4, 4) \in 0 .. 31 /\ 2 * Low4(o) \in 0 .. 31
  BY OpcodeFields
<1>2. Modest("MOVW")
  BY ModestOps
<1>3. Sound("MOVW", f)
  BY <1>1, <1>2 DEF Sound, Modest
<1> QED BY <1>3, InstFine DEF MOVW

LEMMA MultiplyFine == \A o \in Words : Fine(Multiply(o))
<1> SUFFICES ASSUME NEW o \in Words PROVE Fine(Multiply(o))
  OBVIOUS
<1>1. ASSUME NEW op \in {"MULS", "MULSU", "FMUL", "FMULS", "FMULSU"},
             NEW a \in 0 .. 15, NEW b \in 0 .. 15
      PROVE  Fine(Inst(op, [D |-> 16 + a, R |-> 16 + b, cycles |-> 2], o))
  <2>1. Modest(op)
    BY ModestOps
  <2>2. Sound(op, [D |-> 16 + a, R |-> 16 + b, cycles |-> 2])
    BY <2>1 DEF Sound, Modest
  <2> QED BY <2>2, InstFine
<1>2. /\ Bits(o, 4, 4) \in 0 .. 15 /\ Low4(o) \in 0 .. 15
      /\ Bits(o, 4, 3) \in 0 .. 15 /\ Bits(o, 0, 3) \in 0 .. 15
  BY OpcodeFields
<1> DEFINE op == CASE Bit(o, 7) = 0 /\ Bit(o, 3) = 0 -> "MULSU"
                   [] Bit(o, 7) = 0 /\ Bit(o, 3) = 1 -> "FMUL"
                   [] Bit(o, 7) = 1 /\ Bit(o, 3) = 0 -> "FMULS"
                   [] OTHER -> "FMULSU"
<1>3. op \in {"MULSU", "FMUL", "FMULS", "FMULSU"}
  OBVIOUS
<1>4. Multiply(o) =
        IF Top8(o) = 2
        THEN Inst("MULS", [D |-> 16 + Bits(o, 4, 4), R |-> 16 + Low4(o), cycles |-> 2], o)
        ELSE Inst(op, [D |-> 16 + Bits(o, 4, 3), R |-> 16 + Bits(o, 0, 3), cycles |-> 2], o)
  BY DEF Multiply
<1> HIDE DEF op
<1>5. Fine(Inst("MULS", [D |-> 16 + Bits(o, 4, 4), R |-> 16 + Low4(o), cycles |-> 2], o))
  BY <1>1, <1>2
<1>6. Fine(Inst(op, [D |-> 16 + Bits(o, 4, 3), R |-> 16 + Bits(o, 0, 3), cycles |-> 2], o))
  BY <1>1, <1>2, <1>3
<1> QED BY <1>4, <1>5, <1>6

LEMMA WithImmediateFine ==
    ASSUME NEW o \in Words, Top4(o) \in DOMAIN Immediate
    PROVE  Fine(WithImmediate(o))
<1> DEFINE op == Immediate[Top4(o)]
           f == [D |-> 16 + Bits(o, 4, 4)]
<1>1. op \in {"LDI", "CPI", "SBCI", "SUBI", "ORI", "ANDI"}
  BY DEF Immediate
<1>2. Modest(op)
  BY <1>1, ModestOps
<1>3. 16 + Bits(o, 4, 4) \in 0 .. 31
  BY OpcodeFields
<1> HIDE DEF op
<1>4. Sound(op, f)
  BY <1>2, <1>3 DEF Sound, Modest
<1> QED BY <1>4, InstFine DEF WithImmediate, op

LEMMA DisplacedFine == \A o \in Words : Fine(Displaced(o))
<1> SUFFICES ASSUME NEW o \in Words PROVE Fine(Displaced(o))
  OBVIOUS
<1> DEFINE op == IF Bit(o, 9) = 1 THEN "STD" ELSE "LDD"
           k == Bits(o, 0, 3) + 8 * Bits(o, 10, 2) + 32 * Bit(o, 13)
           r == IF Bit(o, 3) = 1 THEN "RY" ELSE "RZ"
           f == [K |-> k, ireg |-> r, cycles |-> 2]
<1>1. k \in -128 .. 127
  BY OpcodeFields
<1>2. Displaced(o) = Inst(op, f, o)
  BY DEF Displaced
<1>3. Needs(op) = {"ireg"} /\ ~ShortOffset(op)
  BY OtherOps
<1> HIDE DEF op, k, r
<1>4. Sound(op, f)
  BY <1>1, <1>3 DEF Sound
<1> QED BY <1>2, <1>4, InstFine

LEMMA LoadStoreFine == \A o \in Words : Fine(LoadStore(o))
<1> SUFFICES ASSUME NEW o \in Words PROVE Fine(LoadStore(o))
  OBVIOUS
<1> DEFINE low   == Bits(o, 0, 2)
           store == Bit(o, 9) = 1
           op    == CASE low = 0 -> (IF store THEN "ST" ELSE "LD")
                      [] low = 1 -> (IF store THEN "ST2" ELSE "LD2")
                      [] low = 2 -> (IF store THEN "ST3" ELSE "LD3")
                      [] OTHER -> "ILLOP"
           group == Bits(o, 2, 2)
           r     == CASE group = 0 -> "RZ" [] group = 2 -> "RY" [] OTHER -> "RX"
           program == Inst(IF low < 2 THEN "LPMen" ELSE "ELPM",
                           [mode |-> 2 + (low % 2), cycles |-> 3], o)
           pointer == Inst(op, [mode |-> low + 1, ireg |-> r, cycles |-> 2], o)
<1>1. LoadStore(o) = CASE group = 1 /\ store -> ILLOP(o)
                       [] group = 1 /\ ~store -> program
                       [] group # 1 /\ op = "ILLOP" -> ILLOP(o)
                       [] OTHER -> pointer
  BY DEF LoadStore
<1>2. Fine(program)
  <2> DEFINE name == IF low < 2 THEN "LPMen" ELSE "ELPM"
             f == [mode |-> 2 + (low % 2), cycles |-> 3]
  <2>1. Needs(name) = {"mode"} /\ ~ShortOffset(name)
    BY OtherOps
  <2> HIDE DEF name
  <2>2. Sound(name, f)
    BY <2>1 DEF Sound
  <2> QED BY <2>2, InstFine DEF name
<1>3. Fine(pointer)
  <2> DEFINE f == [mode |-> low + 1, ireg |-> r, cycles |-> 2]
  <2>1. op \in {"LD", "LD2", "LD3", "ST", "ST2", "ST3", "ILLOP"}
    OBVIOUS
  <2>2. Needs(op) \subseteq {"ireg"} /\ ~ShortOffset(op)
    BY <2>1, OtherOps, ModestOps DEF Modest
  <2> HIDE DEF op
  <2>3. Sound(op, f)
    BY <2>2 DEF Sound
  <2> QED BY <2>3, InstFine
<1> HIDE DEF program, pointer, op
<1> QED BY <1>1, <1>2, <1>3, ILLOPFine

LEMMA MemoryFine == \A o \in Words, next \in Words : Fine(Memory(o, next))
<1> SUFFICES ASSUME NEW o \in Words, NEW next \in Words PROVE Fine(Memory(o, next))
  OBVIOUS
<1> DEFINE direct == IF Bit(o, 9) = 1 THEN "STS" ELSE "LDS"
           stack  == IF Bit(o, 9) = 1 THEN "PUSH" ELSE "POP"
           df == [AL |-> next, wsize |-> 2, cycles |-> 2]
           sf == [cycles |-> 2]
<1>1. Memory(o, next) = CASE Low4(o) = 0 -> Inst(direct, df, o)
                          [] Low4(o) = 15 -> Inst(stack, sf, o)
                          [] OTHER -> LoadStore(o)
  BY DEF Memory
<1>2. next \in Addresses
  BY WordsAre, AddressesAre
<1>3. Needs(direct) = {"AL"} /\ ~ShortOffset(direct)
  BY OtherOps
<1>4. Modest(stack)
  BY ModestOps
<1> HIDE DEF direct, stack
<1>5. Sound(direct, df)
  BY <1>2, <1>3 DEF Sound
<1>6. Sound(stack, sf)
  BY <1>4 DEF Sound, Modest
<1> HIDE DEF df, sf
<1> QED BY <1>1, <1>5, <1>6, InstFine, LoadStoreFine

LEMMA MiscFine == \A o \in Words : Fine(Misc(o))
<1> SUFFICES ASSUME NEW o \in Words PROVE Fine(Misc(o))
  OBVIOUS
<1> DEFINE what == Bits(o, 4, 4)
           ret == [cycles |-> 4]
           one == [mode |-> 1]
           spm == [mode |-> what - 13]
<1>1. Misc(o) = CASE what = 0 -> Inst("RET", ret, o)
                  [] what = 1 -> Inst("RETI", ret, o)
                  [] what = 8 -> Plain("SLEEP", o)
                  [] what = 9 -> Plain("BREAK", o)
                  [] what = 10 -> Plain("WDR", o)
                  [] what = 12 -> Inst("LPM", one, o)
                  [] what = 13 -> Inst("ELPM", one, o)
                  [] what \in {14, 15} -> Inst("SPM", spm, o)
                  [] OTHER -> ILLOP(o)
  BY DEF Misc
<1>2. Modest("RET") /\ Modest("RETI") /\ Modest("SPM")
      /\ Modest("SLEEP") /\ Modest("BREAK") /\ Modest("WDR")
  BY ModestOps
<1>3. Sound("RET", ret) /\ Sound("RETI", ret)
  BY <1>2 DEF Sound, Modest
<1>4. Sound("SPM", spm)
  BY <1>2 DEF Sound, Modest
<1>5. Sound("LPM", one) /\ Sound("ELPM", one)
  BY OtherOps DEF Sound
<1> HIDE DEF what, ret, one, spm
<1>6. Fine(Inst("RET", ret, o)) /\ Fine(Inst("RETI", ret, o)) /\ Fine(Inst("SPM", spm, o))
  BY <1>3, <1>4, InstFine
<1>7. Fine(Inst("LPM", one, o)) /\ Fine(Inst("ELPM", one, o))
  BY <1>5, InstFine
<1>8. Fine(Plain("SLEEP", o)) /\ Fine(Plain("BREAK", o)) /\ Fine(Plain("WDR", o))
  BY <1>2, PlainFine
<1> QED BY <1>1, <1>6, <1>7, <1>8, ILLOPFine

LEMMA AbsoluteFine ==
    ASSUME NEW o \in Words, NEW next \in Words, NEW op \in {"JMP", "CALL"}, NEW cycles
    PROVE  Fine(Absolute(op, cycles, o, next))
<1> DEFINE al == (Bit(o, 0) + 2 * Bits(o, 4, 5)) * 65536 + next
           f == [AL |-> al, wsize |-> 2, cycles |-> cycles]
<1>1. al \in Addresses
  <2>1. next \in Nat /\ next <= 65535
    BY WordsAre
  <2>2. Bit(o, 0) + 2 * Bits(o, 4, 5) \in 0 .. 63
    BY OpcodeFields
  <2>3. al \in Nat /\ al <= 4194303
    BY <2>1, <2>2
  <2> HIDE DEF al
  <2> QED BY <2>3, AddressesAre
<1>2. Needs(op) = {"AL"} /\ ~ShortOffset(op)
  BY OtherOps
<1>3. Absolute(op, cycles, o, next) = Inst(op, f, o)
  BY DEF Absolute
<1> HIDE DEF al
<1>4. Sound(op, f)
  BY <1>1, <1>2 DEF Sound
<1> QED BY <1>3, <1>4, InstFine

LEMMA Group94Fine == \A o \in Words, next \in Words : Fine(Group94(o, next))
<1> SUFFICES ASSUME NEW o \in Words, NEW next \in Words PROVE Fine(Group94(o, next))
  OBVIOUS
<1> DEFINE low == Low4(o)
           one == OneOperand[Bits(o, 0, 3)]
           flag == IF Bit(o, 7) = 1 THEN "CLx" ELSE "SEx"
           ff == [R |-> Bits(o, 4, 3)]
           two == [cycles |-> 2]
           three == [cycles |-> 3]
           four == [cycles |-> 4]
<1>1. Group94(o, next) =
          CASE low < 8 /\ one # "ILLOP" -> Plain(one, o)
            [] low = 8 /\ Top8(o) = 148 -> Inst(flag, ff, o)
            [] low = 8 /\ Top8(o) = 149 -> Misc(o)
            [] low \in {12, 13} -> Absolute("JMP", 3, o, next)
            [] low \in {14, 15} -> Absolute("CALL", 4, o, next)
            [] o = 37897 -> Inst("IJMP", two, o)
            [] o = 37913 -> Inst("EIJMP", two, o)
            [] o = 38153 -> Inst("ICALL", three, o)
            [] o = 38169 -> Inst("EICALL", four, o)
            [] IsDEC(o) -> Plain("DEC", o)
            [] OTHER -> ILLOP(o)
  BY DEF Group94
<1>2. one # "ILLOP" => Fine(Plain(one, o))
  <2>1. Bits(o, 0, 3) \in 0 .. 7
    BY OpcodeFields
  <2>2. one \in {"COM", "NEG", "SWAP", "INC", "ILLOP", "ASR", "LSR", "ROR"}
    BY <2>1 DEF OneOperand
  <2> HIDE DEF one
  <2>3. one # "ILLOP" => Modest(one)
    BY <2>2, ModestOps
  <2> QED BY <2>3, PlainFine
<1>3. Fine(Inst(flag, ff, o))
  <2>1. Bits(o, 4, 3) \in 0 .. 7 /\ Bits(o, 4, 3) \in 0 .. 31
    BY OpcodeFields
  <2>2. Needs(flag) = {}
    BY OtherOps
  <2> HIDE DEF flag
  <2>3. Sound(flag, ff)
    BY <2>1, <2>2 DEF Sound
  <2> QED BY <2>3, InstFine
<1>4. /\ Fine(Inst("IJMP", two, o)) /\ Fine(Inst("EIJMP", two, o))
      /\ Fine(Inst("ICALL", three, o)) /\ Fine(Inst("EICALL", four, o))
  <2>1. Modest("IJMP") /\ Modest("EIJMP") /\ Modest("ICALL") /\ Modest("EICALL")
    BY ModestOps
  <2>2. Sound("IJMP", two) /\ Sound("EIJMP", two) /\ Sound("ICALL", three) /\ Sound("EICALL", four)
    BY <2>1 DEF Sound, Modest
  <2> HIDE DEF two, three, four
  <2> QED BY <2>2, InstFine
<1>5. Fine(Plain("DEC", o))
  BY ModestOps, PlainFine
<1>6. Fine(Absolute("JMP", 3, o, next)) /\ Fine(Absolute("CALL", 4, o, next))
  BY AbsoluteFine
<1>7. Fine(Misc(o)) /\ Fine(ILLOP(o))
  BY MiscFine, ILLOPFine
<1> HIDE DEF low, one, flag, ff, two, three, four
<1> QED BY <1>1, <1>2, <1>3, <1>4, <1>5, <1>6, <1>7

LEMMA WordImmediateFine == \A o \in Words : Fine(WordImmediate(o))
<1> SUFFICES ASSUME NEW o \in Words PROVE Fine(WordImmediate(o))
  OBVIOUS
<1> DEFINE op == IF Bit(o, 8) = 1 THEN "SBIW" ELSE "ADIW"
           k == Low4(o) + 16 * Bits(o, 6, 2)
           r == Pairs[Bits(o, 4, 2) + 1]
           f == [K |-> k, ireg |-> r, cycles |-> 2]
<1>1. WordImmediate(o) = Inst(op, f, o)
  BY DEF WordImmediate
<1>2. k \in -128 .. 127
  BY OpcodeFields
<1>3. Needs(op) = {"ireg"} /\ ~ShortOffset(op)
  BY OtherOps
<1> HIDE DEF op, k, r
<1>4. Sound(op, f)
  BY <1>2, <1>3 DEF Sound
<1> QED BY <1>1, <1>4, InstFine

LEMMA IoBitFine == \A o \in Words : Fine(IoBit(o))
<1> SUFFICES ASSUME NEW o \in Words PROVE Fine(IoBit(o))
  OBVIOUS
<1> DEFINE f == [A |-> Bits(o, 3, 5), R |-> Bits(o, 0, 3)]
           cycles == [cycles |-> 2]
           ff == Over(f, cycles)
<1>1. /\ Bits(o, 3, 5) \in 0 .. 31 /\ Bits(o, 3, 5) \in Offsets
      /\ Bits(o, 0, 3) \in 0 .. 7 /\ Bits(o, 0, 3) \in 0 .. 31
  BY OpcodeFields, OffsetsAre
<1>2. DOMAIN f = {"A", "R"} /\ f["A"] = Bits(o, 3, 5) /\ f["R"] = Bits(o, 0, 3)
  OBVIOUS
<1>3. DOMAIN cycles = {"cycles"}
  OBVIOUS
<1>4. IoBit(o) = CASE Bits(o, 8, 2) = 0 -> Inst("CBI", ff, o)
                   [] Bits(o, 8, 2) = 1 -> Inst("SBIC", f, o)
                   [] Bits(o, 8, 2) = 2 -> Inst("SBI", ff, o)
                   [] OTHER -> Inst("SBIS", f, o)
  BY DEF IoBit
<1> HIDE DEF f, cycles
<1>5. DOMAIN ff = {"A", "R", "cycles"} /\ ff["A"] = Bits(o, 3, 5) /\ ff["R"] = Bits(o, 0, 3)
  <2>1. DOMAIN ff = DOMAIN f \cup DOMAIN cycles /\ \A x \in DOMAIN f : ff[x] = f[x]
    BY OverFields
  <2> HIDE DEF ff
  <2> QED BY <1>2, <1>3, <2>1
<1> HIDE DEF ff
<1>6. ASSUME NEW op \in {"CBI", "SBI", "SBIC", "SBIS"}
      PROVE  Sound(op, f) /\ Sound(op, ff)
  <2>1. Needs(op) = {"A"}
    BY OtherOps
  <2>2. Sound(op, f)
    BY <1>1, <1>2, <2>1 DEF Sound
  <2>3. Sound(op, ff)
    BY <1>1, <1>5, <2>1 DEF Sound
  <2> QED BY <2>2, <2>3
<1>7. ASSUME NEW op \in {"CBI", "SBI", "SBIC", "SBIS"}
      PROVE  Fine(Inst(op, f, o)) /\ Fine(Inst(op, ff, o))
  <2>1. Sound(op, f) /\ Sound(op, ff)
    BY <1>6
  <2> QED BY <2>1, InstFine
<1> QED BY <1>4, <1>7

LEMMA InOutFine == \A o \in Words : Fine(InOut(o))
<1> SUFFICES ASSUME NEW o \in Words PROVE Fine(InOut(o))
  OBVIOUS
<1> DEFINE op == IF Bit(o, 11) = 1 THEN "OUT" ELSE "IN"
           a == Low4(o) + 16 * Bits(o, 9, 2)
           f == [A |-> a]
<1>1. InOut(o) = Inst(op, f, o)
  BY DEF InOut
<1>2. a \in Offsets
  <2>1. a \in Nat /\ a <= 63
    BY OpcodeFields
  <2> HIDE DEF a
  <2> QED BY <2>1, OffsetsAre
<1>3. Needs(op) = {"A"} /\ ~ShortOffset(op)
  BY OtherOps
<1> HIDE DEF op, a
<1>4. Sound(op, f)
  BY <1>2, <1>3 DEF Sound
<1> QED BY <1>1, <1>4, InstFine

LEMMA RelativeFine ==
    ASSUME NEW o \in Words, NEW op \in {"RJMP", "RCALL"}, NEW cycles
    PROVE  Fine(Relative(op, cycles, o))
<1> DEFINE a == Signed(Bits(o, 0, 12), 12)
           f == [A |-> a, cycles |-> cycles]
<1>1. Relative(op, cycles, o) = Inst(op, f, o)
  BY DEF Relative
<1>2. a \in Offsets
  BY OpcodeFields, SignedRange
<1>3. Needs(op) = {"A"} /\ ~ShortOffset(op)
  BY OtherOps
<1> HIDE DEF a
<1>4. Sound(op, f)
  BY <1>2, <1>3 DEF Sound
<1> QED BY <1>1, <1>4, InstFine

LEMMA BranchFine == \A o \in Words : Fine(Branch(o))
<1> SUFFICES ASSUME NEW o \in Words PROVE Fine(Branch(o))
  OBVIOUS
<1> DEFINE k == Signed(Bits(o, 3, 7), 7)
           f == [R |-> Bits(o, 0, 3), D |-> 1 - Bit(o, 10), K |-> k]
<1>1. Branch(o) = Inst("BRx", f, o)
  BY DEF Branch
<1>2. k \in -128 .. 127
  BY OpcodeFields, SignedRange
<1>3. Bits(o, 0, 3) \in 0 .. 7 /\ 1 - Bit(o, 10) \in 0 .. 31
  BY OpcodeFields
<1>4. Needs("BRx") = {}
  BY OtherOps
<1> HIDE DEF k
<1>5. Sound("BRx", f)
  BY <1>2, <1>3, <1>4 DEF Sound
<1> QED BY <1>1, <1>5, InstFine

LEMMA RegisterBitFine == \A o \in Words : Fine(RegisterBit(o))
<1> SUFFICES ASSUME NEW o \in Words PROVE Fine(RegisterBit(o))
  OBVIOUS
<1> DEFINE f == [R |-> Bits(o, 0, 3)]
           transfer == IF Bit(o, 9) = 1 THEN "BST" ELSE "BLD"
           skip == IF Bit(o, 9) = 1 THEN "SBRS" ELSE "SBRC"
<1>1. RegisterBit(o) =
          CASE Top6(o) = 62 /\ Bit(o, 3) = 0 -> Inst(transfer, f, o)
            [] Top6(o) = 63 -> Inst(skip, f, o)
            [] OTHER -> ILLOP(o)
  BY DEF RegisterBit
<1>2. ASSUME NEW op \in {"BST", "BLD", "SBRS", "SBRC"}
      PROVE  Fine(Inst(op, f, o))
  <2>1. Needs(op) = {}
    BY OtherOps
  <2>2. Bits(o, 0, 3) \in 0 .. 7
    BY OpcodeFields
  <2>3. Sound(op, f)
    BY <2>1, <2>2 DEF Sound
  <2> QED BY <2>3, InstFine
<1>3. Fine(Inst(transfer, f, o)) /\ Fine(Inst(skip, f, o))
  BY <1>2
<1> HIDE DEF f, transfer, skip
<1> QED BY <1>1, <1>3, ILLOPFine

\* The upper fields of an opcode are its quotients, and one group is theirs.
LEMMA UpperFields ==
    ASSUME NEW o \in Words
    PROVE  /\ Top4(o) = o \div 4096 /\ Bits(o, 11, 5) = o \div 2048
           /\ Top6(o) = o \div 1024 /\ Top7(o) = o \div 512 /\ Top8(o) = o \div 256
<1>1. o \in Nat /\ o <= 65535
  BY WordsAre
<1>2. /\ 2^4 = 16 /\ 2^5 = 32 /\ 2^6 = 64 /\ 2^7 = 128 /\ 2^8 = 256
      /\ 2^9 = 512 /\ 2^10 = 1024 /\ 2^11 = 2048 /\ 2^12 = 4096
  OBVIOUS
<1>3. /\ (o \div 4096) % 16 = o \div 4096 /\ (o \div 2048) % 32 = o \div 2048
      /\ (o \div 1024) % 64 = o \div 1024
  BY <1>1
<1>4. (o \div 512) % 128 = o \div 512 /\ (o \div 256) % 256 = o \div 256
  BY <1>1
<1>5. Top4(o) = o \div 4096 /\ Bits(o, 11, 5) = o \div 2048 /\ Top6(o) = o \div 1024
  BY <1>2, <1>3 DEF Top4, Top6, Bits
<1>6. Top7(o) = o \div 512 /\ Top8(o) = o \div 256
  BY <1>2, <1>4 DEF Top7, Top8, Bits
<1> QED BY <1>5, <1>6

LEMMA SomeGroup ==
    ASSUME NEW o \in Words
    PROVE  \/ Top8(o) = 0 \/ Top8(o) = 1 \/ Top7(o) = 1
           \/ Top6(o) \in 1 .. 11 \/ Top4(o) \in (3 .. 7) \cup {14} \/ Top4(o) \in {8, 10}
           \/ Top6(o) = 36 \/ Top7(o) = 74 \/ Top7(o) = 75 \/ Top6(o) = 38 \/ Top6(o) = 39
           \/ Top4(o) = 11 \/ Top4(o) = 12 \/ Top4(o) = 13
           \/ Bits(o, 11, 5) = 30 \/ Bits(o, 11, 5) = 31
<1>1. o \in Nat /\ o <= 65535
  BY WordsAre
<1> SUFFICES ASSUME Top4(o) \notin {3, 4, 5, 6, 7, 8, 10, 11, 12, 13, 14},
                    ~(Bits(o, 11, 5) = 30 \/ Bits(o, 11, 5) = 31)
             PROVE  \/ Top8(o) = 0 \/ Top8(o) = 1 \/ Top7(o) = 1 \/ Top6(o) \in 1 .. 11
                    \/ Top6(o) = 36 \/ Top7(o) = 74 \/ Top7(o) = 75 \/ Top6(o) = 38 \/ Top6(o) = 39
  OBVIOUS
<1>2. o \div 4096 \in {0, 1, 2, 9, 15}
  BY <1>1, UpperFields
<1>3. CASE o \div 4096 \in {0, 1, 2}
  <2>1. o \div 256 = 0 \/ o \div 256 = 1 \/ o \div 512 = 1 \/ o \div 1024 \in 1 .. 11
    BY <1>1, <1>3
  <2> QED BY <2>1, UpperFields
<1>4. CASE o \div 4096 = 9
  BY <1>1, <1>4, UpperFields
<1>5. CASE o \div 4096 = 15
  <2>1. o \div 2048 = 30 \/ o \div 2048 = 31
    BY <1>1, <1>5
  <2> QED BY <2>1, UpperFields
<1> QED BY <1>2, <1>3, <1>4, <1>5

\* Whatever the opcode and the word after it, the handler can take the record.
LEMMA DecodeFine == \A o \in Words, next \in Words : Fine(Decode(o, next))
<1> SUFFICES ASSUME NEW o \in Words, NEW next \in Words PROVE Fine(Decode(o, next))
  OBVIOUS
<1> DEFINE two == [cycles |-> 2]
<1>1. Decode(o, next) =
          CASE o = 0 -> Plain("NOP", o)
            [] o # 0 /\ Top8(o) = 0 -> ILLOP(o)
            [] Top8(o) = 1 -> MOVW(o)
            [] Top7(o) = 1 -> Multiply(o)
            [] Top6(o) \in DOMAIN TwoOperand -> Plain(TwoOperand[Top6(o)], o)
            [] Top4(o) \in DOMAIN Immediate -> WithImmediate(o)
            [] Top4(o) \in {8, 10} -> Displaced(o)
            [] Top6(o) = 36 -> Memory(o, next)
            [] Top7(o) = 74 -> Group94(o, next)
            [] Top7(o) = 75 -> WordImmediate(o)
            [] Top6(o) = 38 -> IoBit(o)
            [] Top6(o) = 39 -> Inst("MUL", two, o)
            [] Top4(o) = 11 -> InOut(o)
            [] Top4(o) = 12 -> Relative("RJMP", 2, o)
            [] Top4(o) = 13 -> Relative("RCALL", 3, o)
            [] Bits(o, 11, 5) = 30 -> Branch(o)
            [] Bits(o, 11, 5) = 31 -> RegisterBit(o)
  BY DEF Decode
<1>2. Fine(Plain("NOP", o)) /\ Fine(ILLOP(o)) /\ Fine(MOVW(o)) /\ Fine(Multiply(o))
  BY ModestOps, PlainFine, ILLOPFine, MOVWFine, MultiplyFine
<1>3. Top6(o) \in DOMAIN TwoOperand => Fine(Plain(TwoOperand[Top6(o)], o))
  <2> SUFFICES ASSUME Top6(o) \in DOMAIN TwoOperand PROVE Fine(Plain(TwoOperand[Top6(o)], o))
    OBVIOUS
  <2>1. TwoOperand[Top6(o)] \in {"CPC", "SBC", "ADD", "CPSE", "CP", "SUB", "ADC", "AND",
                                 "EOR", "OR", "MOV"}
    BY DEF TwoOperand
  <2>2. Modest(TwoOperand[Top6(o)])
    BY <2>1, ModestOps
  <2> QED BY <2>2, PlainFine
<1>4. Top4(o) \in DOMAIN Immediate => Fine(WithImmediate(o))
  BY WithImmediateFine
<1>5. Fine(Displaced(o)) /\ Fine(Memory(o, next)) /\ Fine(Group94(o, next))
  BY DisplacedFine, MemoryFine, Group94Fine
<1>6. Fine(WordImmediate(o)) /\ Fine(IoBit(o)) /\ Fine(InOut(o))
  BY WordImmediateFine, IoBitFine, InOutFine
<1>7. Fine(Inst("MUL", two, o))
  <2>1. Modest("MUL")
    BY ModestOps
  <2>2. Sound("MUL", two)
    BY <2>1 DEF Sound, Modest
  <2> HIDE DEF two
  <2> QED BY <2>2, InstFine
<1>8. Fine(Relative("RJMP", 2, o)) /\ Fine(Relative("RCALL", 3, o))
  BY RelativeFine
<1>9. Fine(Branch(o)) /\ Fine(RegisterBit(o))
  BY BranchFine, RegisterBitFine
<1>10. DOMAIN TwoOperand = 1 .. 11 /\ DOMAIN Immediate = (3 .. 7) \cup {14}
  BY DEF TwoOperand, Immediate
<1>11. \/ Top8(o) = 0 \/ Top8(o) = 1 \/ Top7(o) = 1
       \/ Top6(o) \in DOMAIN TwoOperand \/ Top4(o) \in DOMAIN Immediate \/ Top4(o) \in {8, 10}
       \/ Top6(o) = 36 \/ Top7(o) = 74 \/ Top7(o) = 75 \/ Top6(o) = 38 \/ Top6(o) = 39
       \/ Top4(o) = 11 \/ Top4(o) = 12 \/ Top4(o) = 13
       \/ Bits(o, 11, 5) = 30 \/ Bits(o, 11, 5) = 31
  BY <1>10, SomeGroup
<1> HIDE DEF two
<1> QED BY <1>1, <1>2, <1>3, <1>4, <1>5, <1>6, <1>7, <1>8, <1>9, <1>11

-----------------------------------------------------------------------------
(***************************************************************************)
(* The inductive invariant.                                                *)
(***************************************************************************)

\* The file is one of those named, nothing is decoded while it is read, and
\* nothing has been stored before.
Before ==
    /\ hex => file \in HexFiles
    /\ ~hex => file \in BinFiles
    /\ phase = "hex" => hex
    /\ phase \in {"load", "hex"} => inst = None
    /\ phase = "load" => /\ data = Memory0 /\ size = 0 /\ i = 0
                         /\ line = 0 /\ taken = <<>>

DecodedFine == Decoded => Fine(inst)

LoaderInv == TypeOK /\ Before /\ DecodedFine /\ HexAccounted

LEMMA FineIsOK ==
    ASSUME Fine(inst)
    PROVE  InstOK
  BY DEF Fine, InstOK

LEMMA MemoryTyped ==
    /\ Memory0 \in [Index -> Words]
    /\ MemSize \in Nat \ {0}
<1>1. 0 \in Words
  BY WordsAre
<1> QED BY <1>1, LoaderAssumption DEF Memory0

LEMMA LoaderInit == Init => LoaderInv
<1> SUFFICES ASSUME Init PROVE LoaderInv
  OBVIOUS
<1>1. Len(file) \in Nat
  BY LoaderAssumption DEF Init
<1>2. TypeOK
  <2>1. phase \in {"load", "hex", "decode", "run", "failed", "wild"} /\ hex \in BOOLEAN
    BY DEF Init
  <2>2. line \in 0 .. Len(file) + 1 /\ size \in Nat /\ i \in 0 .. MemSize
    BY <1>1, MemoryTyped DEF Init
  <2>3. data \in [Index -> Words]
    BY MemoryTyped DEF Init, Memory0
  <2>4. inst = None
    BY DEF Init
  <2>5. buffer \in [Buffer -> Bytes] /\ high \in Nat /\ start \in Nat
    BY BufferIs DEF Init
  <2>6. taken \in Seq([record : HexRecord, from : Nat])
    BY DEF Init
  <2> QED BY <2>1, <2>2, <2>3, <2>4, <2>5, <2>6 DEF TypeOK
<1>3. Before
  BY DEF Init, Before, Memory0
<1>4. DecodedFine
  BY DEF Init, DecodedFine, Decoded, None
<1>5. HexAccounted
  BY DEF Init, HexAccounted
<1> QED BY <1>2, <1>3, <1>4, <1>5 DEF LoaderInv

\* The file stays.
LEMMA FileStays ==
    ASSUME [Next]_vars
    PROVE  file' = file /\ hex' = hex
BY DEF Next, vars, loadBinFile, openHexFile, oddLine, overrunLine, badRecord, endRecord,
       wildRecord, dataRecord, ReadLine, endOfHexFile, decodeNext, runAVR, Stopped

\* A line that is read is one of the file's, and the buffer holds bytes: if the
\* line holds a record, those of its digits.
LEMMA TheLine ==
    ASSUME LoaderInv, ReadLine
    PROVE  /\ hex /\ phase = "hex" /\ size \in Nat /\ size < MemSize
           /\ Len(file) \in Nat /\ line \in 1 .. Len(file) /\ Len(taken) = line - 1
           /\ buffer' \in [Buffer -> Bytes]
           /\ Whole(file[line]) =>
                 /\ Own(file[line]).type = buffer'[3]
                 /\ 4 + buffer'[0] < BufSize => Parsed(buffer') = Own(file[line])
           /\ UNCHANGED <<file, hex, i, inst, high, start>>
<1>1. /\ phase = "hex" /\ line <= Len(file) /\ size < MemSize
      /\ UNCHANGED <<file, hex, i, inst, high, start>>
  BY DEF ReadLine, Reading
<1>2. hex /\ file \in HexFiles
  BY <1>1 DEF LoaderInv, Before
<1>3. Len(taken) = line - 1 /\ taken \in Seq([record : HexRecord, from : Nat])
  BY <1>1, <1>2 DEF LoaderInv, HexAccounted, RecordsAre, TypeOK
<1>4. Len(taken) \in Nat /\ Len(file) \in Nat /\ line \in 0 .. Len(file) + 1
  BY <1>2, <1>3, LinesAre DEF LoaderInv, TypeOK
<1>5. line \in 1 .. Len(file)
  BY <1>1, <1>3, <1>4
<1>6. file[line] \in HexLine /\ file[line].pairs \in HexPairs
  BY <1>2, <1>5, LinesAre
<1>7. PICK behind \in Behind : buffer' = hexToByteArray(buffer, file[line].pairs, behind)
  BY DEF ReadLine, Line
<1>8. behind \in HexPairs /\ buffer \in [Buffer -> Bytes] /\ size \in Nat
  BY LoaderAssumption DEF LoaderInv, TypeOK
<1>9. buffer' \in [Buffer -> Bytes]
  BY <1>6, <1>7, <1>8, BufferTyped
<1>10. ASSUME Whole(file[line])
       PROVE  /\ Own(file[line]).type = buffer'[3]
              /\ 4 + buffer'[0] < BufSize => Parsed(buffer') = Own(file[line])
  BY <1>6, <1>7, <1>8, <1>10, OwnParsed
<1>11. size \in Nat /\ size < MemSize /\ UNCHANGED <<file, hex, i, inst, high, start>>
  BY <1>1, <1>8
<1>12. hex /\ phase = "hex" /\ Len(file) \in Nat /\ line \in 1 .. Len(file) /\ Len(taken) = line - 1
  BY <1>1, <1>2, <1>3, <1>4, <1>5
<1> QED BY ONLY <1>9, <1>10, <1>11, <1>12

\* The record that a step stores, and what it is made of.
LEMMA TheRecord ==
    ASSUME LoaderInv, dataRecord,
           NEW record, record = Parsed(buffer'), NEW part, part = Part(record, size)
    PROVE  /\ record \in HexRecord /\ record.type = 0
           /\ part \in Seq(Bytes) /\ Len(part) \in Nat
           /\ size + Len(part) < MemSize => part = record.bytes
           /\ Place(record) \in Nat
           /\ Whole(file[line]) => record = Own(file[line])
           /\ size' = size + Len(part)
           /\ data' = Store(data, Place(record), part)
           /\ \/ /\ taken' = Append(taken, [record |-> record, from |-> size])
                 /\ Checksum(record, part) = record.checksum
                 /\ phase' = "hex" /\ line' = line + 1
              \/ phase' = "failed" /\ UNCHANGED <<line, taken>>
<1>1. ReadLine /\ buffer'[3] = 0 /\ 4 + buffer'[0] < BufSize
  BY DEF dataRecord, Fits
<1>2. /\ size \in Nat /\ size < MemSize /\ buffer' \in [Buffer -> Bytes]
      /\ Whole(file[line]) /\ 4 + buffer'[0] < BufSize => Parsed(buffer') = Own(file[line])
  BY <1>1, TheLine
<1>3. record \in HexRecord /\ record.type = 0
  BY <1>1, <1>2, ParsedTyped
<1>4. /\ part \in Seq(Bytes) /\ Len(part) \in Nat
      /\ size + Len(part) < MemSize => part = record.bytes
  BY <1>2, <1>3, PartIs
<1>5. Place(record) \in Nat
  <2>1. record.address \in Nat
    BY <1>3, WordsAre DEF HexRecord
  <2>2. Span \in Nat /\ high \in Nat
    BY LoaderAssumption DEF LoaderInv, TypeOK
  <2>3. Span * high \in Nat
    BY <2>2
  <2> QED BY <2>1, <2>3 DEF Place
<1>6. /\ size' = size + Len(part)
      /\ data' = Store(data, Place(record), part)
      /\ \/ /\ taken' = Append(taken, [record |-> record, from |-> size])
            /\ Checksum(record, part) = record.checksum
            /\ phase' = "hex" /\ line' = line + 1
         \/ phase' = "failed" /\ UNCHANGED <<line, taken>>
  BY DEF dataRecord
<1> QED BY <1>1, <1>2, <1>3, <1>4, <1>5, <1>6

\* A word of the program or past its end.
LEMMA NextWord ==
    ASSUME TypeOK, phase = "decode", i < MemSize,
           NEW next \in IF i + 1 < MemSize THEN {data[i + 1]} ELSE NextWords
    PROVE  data[i] \in Words /\ next \in Words
<1>1. data \in [Index -> Words] /\ i \in Nat
  BY MemoryTyped DEF TypeOK
<1>2. NextWords \subseteq Words
  BY LoaderAssumption
<1> QED BY <1>1, <1>2, MemoryTyped DEF Index

LEMMA KeepsDecoded ==
    ASSUME LoaderInv, [Next]_vars
    PROVE  DecodedFine'
<1>1. ASSUME inst' = inst PROVE DecodedFine'
  BY <1>1 DEF LoaderInv, DecodedFine, Decoded, Fine
<1>2. CASE decodeNext
  <2>1. CASE i >= MemSize
    BY <1>1, <1>2, <2>1 DEF decodeNext
  <2>2. CASE ~(i >= MemSize)
    <3>1. PICK next \in IF i + 1 < MemSize THEN {data[i + 1]} ELSE NextWords :
             inst' = Decode(data[i], next)
      BY <1>2, <2>2 DEF decodeNext
    <3>2. phase = "decode" /\ TypeOK /\ i < MemSize
      BY <1>2, <2>2, MemoryTyped DEF decodeNext, LoaderInv, TypeOK
    <3>3. data[i] \in Words /\ next \in Words
      BY <3>1, <3>2, NextWord
    <3>4. Fine(inst')
      BY <3>1, <3>3, DecodeFine
    <3> QED BY <3>4 DEF DecodedFine, Fine
  <2> QED BY <2>1, <2>2
<1>3. CASE ~decodeNext
  <2>1. inst' = inst
    BY <1>3 DEF Next, vars, loadBinFile, openHexFile, oddLine, overrunLine, badRecord,
           endRecord, wildRecord, dataRecord, ReadLine, endOfHexFile, runAVR, Stopped
  <2> QED BY <1>1, <2>1
<1> QED BY <1>2, <1>3

LEMMA KeepsBefore ==
    ASSUME LoaderInv, [Next]_vars
    PROVE  Before'
<1> USE DEF LoaderInv, Before
<1>1. file' = file /\ hex' = hex
  BY FileStays
<1>2. CASE loadBinFile \/ openHexFile
  BY <1>1, <1>2 DEF loadBinFile, openHexFile
<1>3. CASE oddLine \/ overrunLine
  BY <1>1, <1>3 DEF oddLine, overrunLine, Reading
<1>4. CASE badRecord \/ endRecord \/ wildRecord \/ dataRecord
  <2>1. phase' # "load" /\ inst' = inst /\ phase = "hex"
    BY <1>4 DEF badRecord, endRecord, wildRecord, dataRecord, ReadLine, Reading
  <2> QED BY <1>1, <2>1
<1>5. CASE endOfHexFile \/ runAVR
  BY <1>1, <1>5 DEF endOfHexFile, runAVR
<1>6. CASE decodeNext
  <2>1. phase' \notin {"load", "hex"}
    BY <1>6 DEF decodeNext
  <2> QED BY <1>1, <2>1
<1>7. CASE Stopped \/ UNCHANGED vars
  BY <1>1, <1>7 DEF Stopped, vars, hexVars
<1> QED BY <1>2, <1>3, <1>4, <1>5, <1>6, <1>7 DEF Next

\* The variables of the hex file's lines keep their types.
HexTyped == /\ buffer \in [Buffer -> Bytes] /\ high \in Nat /\ start \in Nat
            /\ taken \in Seq([record : HexRecord, from : Nat])

LEMMA KeepsHexType ==
    ASSUME LoaderInv, [Next]_vars
    PROVE  HexTyped'
<1>1. HexTyped
  BY DEF LoaderInv, TypeOK, HexTyped
<1>2. CASE UNCHANGED hexVars
  BY <1>1, <1>2 DEF HexTyped, hexVars
<1>3. CASE openHexFile
  <2>1. /\ buffer' \in BufferGarbage /\ high' \in HighGarbage /\ start' \in SizeGarbage
        /\ taken' = taken
    BY <1>3 DEF openHexFile
  <2> QED BY <1>1, <2>1, LoaderAssumption DEF HexTyped
<1>4. CASE badRecord \/ endRecord \/ wildRecord
  <2>1. ReadLine /\ taken' = taken
    BY <1>4 DEF badRecord, endRecord, wildRecord
  <2>2. buffer' \in [Buffer -> Bytes] /\ UNCHANGED <<high, start>>
    BY <2>1, TheLine
  <2> QED BY <1>1, <2>1, <2>2 DEF HexTyped
<1>5. CASE dataRecord
  <2> DEFINE record == Parsed(buffer')
             part == Part(record, size)
             t == [record |-> record, from |-> size]
  <2>1. ReadLine
    BY <1>5 DEF dataRecord
  <2>2. buffer' \in [Buffer -> Bytes] /\ UNCHANGED <<high, start>> /\ size \in Nat
    BY <2>1, TheLine
  <2>3. record \in HexRecord /\ (taken' = Append(taken, t) \/ taken' = taken)
    <3> HIDE DEF record, part
    <3>1. record = Parsed(buffer') /\ part = Part(record, size)
      BY DEF record, part
    <3>2. /\ record \in HexRecord
          /\ \/ /\ taken' = Append(taken, [record |-> record, from |-> size])
                /\ Checksum(record, part) = record.checksum
                /\ phase' = "hex" /\ line' = line + 1
             \/ phase' = "failed" /\ UNCHANGED <<line, taken>>
      BY <1>5, <3>1, TheRecord
    <3> QED BY <3>2
  <2> HIDE DEF record
  <2>4. t \in [record : HexRecord, from : Nat]
    BY <2>2, <2>3
  <2> HIDE DEF t
  <2>5. taken' \in Seq([record : HexRecord, from : Nat])
    <3> DEFINE T == [record : HexRecord, from : Nat]
    <3>1. t \in T /\ taken \in Seq(T)
      BY <1>1, <2>4 DEF HexTyped
    <3> HIDE DEF T
    <3>2. Append(taken, t) \in Seq(T)
      BY <3>1
    <3>3. taken' \in Seq(T)
      BY <2>3, <3>1, <3>2
    <3> QED BY <3>3 DEF T
  <2> QED BY <1>1, <2>2, <2>5 DEF HexTyped
<1> QED BY <1>2, <1>3, <1>4, <1>5 DEF Next, vars, loadBinFile, oddLine, overrunLine,
                                      endOfHexFile, decodeNext, runAVR, Stopped

LEMMA KeepsType ==
    ASSUME LoaderInv, [Next]_vars
    PROVE  TypeOK'
<1> DEFINE Phases == {"load", "hex", "decode", "run", "failed", "wild"}
<1>1. /\ phase \in Phases /\ hex \in BOOLEAN
      /\ line \in 0 .. Len(file) + 1
      /\ data \in [Index -> Words] /\ size \in Nat /\ i \in 0 .. MemSize
  BY DEF LoaderInv, TypeOK
<1>2. file' = file /\ hex' = hex
  BY FileStays
<1>3. Len(file) \in Nat
  BY LinesAre, LoaderAssumption DEF LoaderInv, Before
<1>4. inst' # None => InstOK'
  BY KeepsDecoded DEF DecodedFine, Decoded, Fine, InstOK
<1>5. /\ phase' \in Phases /\ line' \in 0 .. Len(file) + 1
      /\ data' \in [Index -> Words] /\ size' \in Nat /\ i' \in 0 .. MemSize
  <2>1. CASE loadBinFile
    <3>1. size' = Least(Len(file), MemSize) /\ i' = i /\ line' = line /\ phase' = "decode"
      BY <2>1 DEF loadBinFile
    <3>2. size' \in Nat /\ size' <= Len(file)
      BY <1>3, <3>1, MemoryTyped DEF Least
    <3>3. file \in Seq(Words)
      BY <2>1, LoaderAssumption DEF loadBinFile, LoaderInv, Before
    <3>4. \A w \in Index : (IF w < size' THEN file[w + 1] ELSE 0) \in Words
      <4> SUFFICES ASSUME NEW w \in Index PROVE (IF w < size' THEN file[w + 1] ELSE 0) \in Words
        OBVIOUS
      <4>1. w \in Nat
        BY MemoryTyped DEF Index
      <4>2. w < size' => w + 1 \in 1 .. Len(file)
        BY <1>3, <3>2, <4>1
      <4>3. 0 \in Words
        BY WordsAre
      <4> QED BY <3>3, <4>2, <4>3
    <3>5. data' = [w \in Index |-> IF w < size' THEN file[w + 1] ELSE 0]
      BY <2>1 DEF loadBinFile
    <3>6. data' \in [Index -> Words]
      BY <3>4, <3>5
    <3> QED BY <1>1, <3>1, <3>2, <3>6
  <2>2. CASE openHexFile
    <3>1. size' \in Nat
      BY <2>2, LoaderAssumption DEF openHexFile
    <3> QED BY <1>1, <1>3, <2>2, <3>1 DEF openHexFile
  <2>3. CASE oddLine \/ overrunLine \/ badRecord \/ endRecord \/ wildRecord \/ endOfHexFile
    BY <1>1, <2>3 DEF oddLine, overrunLine, badRecord, endRecord, wildRecord, endOfHexFile, ReadLine
  <2>4. CASE dataRecord
    <3> DEFINE record == Parsed(buffer')
               part == Part(record, size)
    <3> HIDE DEF record, part
    <3>1. record = Parsed(buffer') /\ part = Part(record, size)
      BY DEF record, part
    <3>2. /\ part \in Seq(Bytes) /\ Len(part) \in Nat /\ Place(record) \in Nat
          /\ size' = size + Len(part)
          /\ data' = Store(data, Place(record), part)
          /\ (phase' = "hex" /\ line' = line + 1) \/ (phase' = "failed" /\ line' = line)
      BY <2>4, <3>1, TheRecord
    <3>3. ReadLine
      BY <2>4 DEF dataRecord
    <3>4. line \in 1 .. Len(file) /\ i' = i
      BY <3>3, TheLine
    <3>5. data' \in [Index -> Words]
      BY <1>1, <3>2, StoreTyped
    <3>6. size' \in Nat /\ line' \in 0 .. Len(file) + 1
      BY <1>1, <1>3, <3>2, <3>4
    <3> QED BY <1>1, <3>2, <3>4, <3>5, <3>6
  <2>5. CASE decodeNext
    <3>1. i' \in 0 .. MemSize
      BY <1>1, <2>5, MemoryTyped DEF decodeNext
    <3> QED BY <1>1, <2>5, <3>1 DEF decodeNext
  <2>6. CASE runAVR \/ Stopped \/ UNCHANGED vars
    BY <1>1, <2>6 DEF runAVR, Stopped, vars
  <2> QED BY <2>1, <2>2, <2>3, <2>4, <2>5, <2>6 DEF Next
<1>6. line' \in 0 .. Len(file') + 1
  BY <1>2, <1>5
<1>7. hex' \in BOOLEAN
  BY <1>1, <1>2
<1>8. HexTyped'
  BY KeepsHexType
<1> QED BY <1>4, <1>5, <1>6, <1>7, <1>8 DEF TypeOK, HexTyped

Accepted == hex /\ phase \in {"hex", "decode", "run"}

\* What does not touch the lines, memory and the size keeps what is said of them.
LEMMA Untouched ==
    ASSUME LoaderInv, Accepted, UNCHANGED <<file, line, high, data, size, start, taken>>
    PROVE  RecordsAre' /\ MemoryIs' /\ SizeIs'
<1>1. RecordsAre /\ MemoryIs /\ SizeIs
  BY DEF LoaderInv, HexAccounted, Accepted
<1>2. RecordsAre'
  BY <1>1 DEF RecordsAre
<1>3. MemoryIs'
  BY <1>1 DEF MemoryIs, Covers, Place
<1>4. SizeIs'
  BY <1>1 DEF SizeIs
<1> QED BY <1>2, <1>3, <1>4

\* One more record that is taken.
LEMMA Appended ==
    ASSUME LoaderInv, NEW t \in [record : HexRecord, from : Nat], taken' = Append(taken, t)
    PROVE  /\ Len(taken) \in Nat /\ Len(taken') = Len(taken) + 1
           /\ taken'[Len(taken) + 1] = t
           /\ \A n \in 1 .. Len(taken) : taken'[n] = taken[n] /\ n \in 1 .. Len(taken')
           /\ taken' # <<>>
           /\ taken \in Seq([record : HexRecord, from : Nat])
<1> DEFINE T == [record : HexRecord, from : Nat]
<1>1. taken \in Seq(T) /\ t \in T
  BY DEF LoaderInv, TypeOK
<1> HIDE DEF T
<1>2. /\ Len(taken) \in Nat /\ Len(taken') = Len(taken) + 1
      /\ taken'[Len(taken) + 1] = t
      /\ \A n \in 1 .. Len(taken) : taken'[n] = taken[n] /\ n \in 1 .. Len(taken')
  BY <1>1
<1>3. taken' # <<>>
  BY <1>2
<1> QED BY <1>1, <1>2, <1>3 DEF T

\* The records after one more is taken.
LEMMA RecordsGrow ==
    ASSUME LoaderInv, dataRecord, Accepted'
    PROVE  RecordsAre'
<1> DEFINE record == Parsed(buffer')
           part == Part(record, size)
           t == [record |-> record, from |-> size]
           n == Len(taken)
<1>1. ReadLine
  BY DEF dataRecord
<1>2. /\ hex /\ phase = "hex" /\ size \in Nat /\ line \in 1 .. Len(file) /\ n = line - 1
      /\ Len(file) \in Nat /\ UNCHANGED <<file, high>>
  BY <1>1, TheLine
<1>3. RecordsAre
  BY <1>2 DEF LoaderInv, HexAccounted
<1> HIDE DEF record, part
<1>4. record = Parsed(buffer') /\ part = Part(record, size)
  BY DEF record, part
<1>5. /\ record \in HexRecord /\ record.type = 0
      /\ Whole(file[line]) => record = Own(file[line])
      /\ taken' = Append(taken, t)
      /\ Checksum(record, part) = record.checksum
      /\ line' = line + 1
  <2>1. phase' # "failed"
    BY DEF Accepted
  <2> QED BY <1>4, <2>1, TheRecord
<1>6. t \in [record : HexRecord, from : Nat] /\ t.record = record /\ t.from = size
  BY <1>2, <1>5
<1> HIDE DEF t, n
<1>7. /\ n \in Nat /\ Len(taken') = n + 1 /\ taken'[n + 1] = t
      /\ \A k \in 1 .. n : taken'[k] = taken[k]
  BY <1>5, <1>6, Appended DEF n
<1>8. Len(taken') = line' - 1
  BY <1>2, <1>5, <1>7
<1>9. ASSUME NEW k \in 1 .. Len(taken')
      PROVE  /\ Whole(file[k]) => taken'[k].record = Own(file[k])
             /\ taken'[k].record.type = 0
             /\ taken'[k].record.checksum = Checksum(taken'[k].record, Stored(taken'[k]))
  <2>1. CASE k = n + 1
    <3>1. k = line /\ taken'[k] = t
      BY <1>2, <1>7, <2>1
    <3>2. Stored(t) = part
      BY <1>4, <1>6 DEF Stored
    <3> QED BY <1>5, <1>6, <3>1, <3>2
  <2>2. CASE k # n + 1
    <3>1. k \in 1 .. n
      BY <1>7, <2>2
    <3>2. taken'[k] = taken[k]
      BY <1>7, <3>1
    <3> QED BY <1>3, <3>1, <3>2 DEF RecordsAre, n
  <2> QED BY <2>1, <2>2
<1> QED BY <1>2, <1>8, <1>9 DEF RecordsAre

\* Memory after one more is stored.
LEMMA MemoryGrows ==
    ASSUME LoaderInv, dataRecord, Accepted'
    PROVE  MemoryIs'
<1> DEFINE record == Parsed(buffer')
           part == Part(record, size)
           t == [record |-> record, from |-> size]
           n == Len(taken)
<1>1. ReadLine
  BY DEF dataRecord
<1>2. hex /\ phase = "hex" /\ size \in Nat /\ high' = high
  BY <1>1, TheLine
<1>3. MemoryIs /\ data \in [Index -> Words]
  BY <1>2 DEF LoaderInv, HexAccounted, TypeOK
<1> HIDE DEF record, part
<1>4. record = Parsed(buffer') /\ part = Part(record, size)
  BY DEF record, part
<1>5. /\ record \in HexRecord
      /\ part \in Seq(Bytes) /\ Place(record) \in Nat
      /\ data' = Store(data, Place(record), part)
      /\ taken' = Append(taken, t)
  <2>1. phase' # "failed"
    BY DEF Accepted
  <2> QED BY <1>4, <2>1, TheRecord
<1>6. t \in [record : HexRecord, from : Nat] /\ t.record = record /\ Stored(t) = part
  BY <1>2, <1>4, <1>5 DEF Stored
<1> HIDE DEF t, n
<1>7. /\ n \in Nat /\ Len(taken') = n + 1 /\ taken'[n + 1] = t
      /\ \A k \in 1 .. n : taken'[k] = taken[k]
  BY <1>5, <1>6, Appended DEF n
<1> DEFINE place == Place(record)
           here(b) == b \in place .. place + Len(part) - 1
<1>8. ASSUME NEW b \in 0 .. 2 * MemSize - 1
      PROVE  ByteOf(data', b) = IF here(b) THEN part[b - place + 1] ELSE ByteOf(data, b)
  BY <1>3, <1>5, <1>8, StoreByte DEF NewByte
<1>9. \A k \in 1 .. n, b \in 0 .. 2 * MemSize - 1 : Covers(taken'[k], b) <=> Covers(taken[k], b)
  BY <1>2, <1>7 DEF Covers, Place
<1>10. \A b \in 0 .. 2 * MemSize - 1 : Covers(taken'[n + 1], b) <=> here(b)
  BY <1>2, <1>6, <1>7 DEF Covers, Place
<1> HIDE DEF here, place
<1>11. ASSUME NEW b \in 0 .. 2 * MemSize - 1, NEW k \in 1 .. Len(taken'),
              Covers(taken'[k], b), \A m \in k + 1 .. Len(taken') : ~Covers(taken'[m], b)
       PROVE  ByteOf(data', b) = Stored(taken'[k])[b - Place(taken'[k].record) + 1]
  <2>1. CASE k = n + 1
    <3>1. here(b) /\ taken'[k] = t
      BY <1>7, <1>10, <1>11, <2>1
    <3> QED BY <1>6, <1>8, <3>1 DEF place
  <2>2. CASE k # n + 1
    <3>1. k \in 1 .. n
      BY <1>7, <2>2
    <3>2. n + 1 \in k + 1 .. Len(taken')
      BY <1>7, <3>1
    <3>3. ~here(b)
      BY <1>10, <1>11, <3>2
    <3>4. taken'[k] = taken[k] /\ Covers(taken[k], b)
      BY <1>7, <1>9, <1>11, <3>1
    <3>5. \A m \in k + 1 .. n : ~Covers(taken[m], b)
      <4> SUFFICES ASSUME NEW m \in k + 1 .. n PROVE ~Covers(taken[m], b)
        OBVIOUS
      <4>1. m \in 1 .. n /\ m \in k + 1 .. Len(taken')
        BY <1>7, <3>1
      <4> QED BY <1>9, <1>11, <4>1
    <3>6. ByteOf(data, b) = Stored(taken[k])[b - Place(taken[k].record) + 1]
      BY <1>3, <3>1, <3>4, <3>5 DEF MemoryIs, n
    <3> QED BY <1>8, <3>3, <3>4, <3>6
  <2> QED BY <2>1, <2>2
<1>12. ASSUME NEW b \in 0 .. 2 * MemSize - 1, \A k \in 1 .. Len(taken') : ~Covers(taken'[k], b)
       PROVE  ByteOf(data', b) = 0
  <2>1. n + 1 \in 1 .. Len(taken')
    BY <1>7
  <2>2. ~here(b)
    BY <1>10, <1>12, <2>1
  <2>3. \A k \in 1 .. n : ~Covers(taken[k], b)
    <3> SUFFICES ASSUME NEW k \in 1 .. n PROVE ~Covers(taken[k], b)
      OBVIOUS
    <3>1. k \in 1 .. Len(taken')
      BY <1>7
    <3> QED BY <1>9, <1>12, <3>1
  <2>4. ByteOf(data, b) = 0
    BY <1>3, <2>3 DEF MemoryIs, n
  <2> QED BY <1>8, <2>2, <2>4
<1>13. MemoryIs'
  BY <1>2, <1>11, <1>12 DEF MemoryIs, Covers, Place
<1> QED BY <1>13

\* The size after one more is stored.
LEMMA SizeGrows ==
    ASSUME LoaderInv, dataRecord, Accepted'
    PROVE  SizeIs' /\ NothingLeft'
<1> DEFINE record == Parsed(buffer')
           part == Part(record, size)
           t == [record |-> record, from |-> size]
           n == Len(taken)
           after(u) == u.from + Len(Stored(u))
<1>1. ReadLine
  BY DEF dataRecord
<1>2. hex /\ phase = "hex" /\ size \in Nat /\ size < MemSize /\ start' = start /\ MemSize \in Nat
  BY <1>1, TheLine, MemoryTyped
<1>3. SizeIs /\ NothingLeft
  BY <1>2 DEF LoaderInv, HexAccounted
<1> HIDE DEF record, part
<1>4. record = Parsed(buffer') /\ part = Part(record, size)
  BY DEF record, part
<1>5. /\ record \in HexRecord /\ Len(part) \in Nat
      /\ size + Len(part) < MemSize => part = record.bytes
      /\ size' = size + Len(part)
      /\ taken' = Append(taken, t)
      /\ phase' = "hex"
  <2>1. phase' # "failed"
    BY DEF Accepted
  <2> QED BY <1>4, <2>1, TheRecord
<1>6. /\ t \in [record : HexRecord, from : Nat] /\ t.record = record /\ t.from = size
      /\ Stored(t) = part
  BY <1>2, <1>4, <1>5 DEF Stored
<1> HIDE DEF t, n
<1>7. /\ n \in Nat /\ Len(taken') = n + 1 /\ taken'[n + 1] = t
      /\ \A k \in 1 .. n : taken'[k] = taken[k]
      /\ taken' # <<>> /\ taken \in Seq([record : HexRecord, from : Nat])
  BY <1>5, <1>6, Appended DEF n
<1>8. size' = after(taken'[Len(taken')])
  BY <1>5, <1>6, <1>7
<1>9. /\ taken = <<>> => size = start /\ n = 0
      /\ taken # <<>> => /\ taken[1].from = start /\ n # 0
                         /\ \A k \in 1 .. n - 1 : taken[k + 1].from = after(taken[k])
                         /\ size = after(taken[n])
  BY <1>3, <1>7 DEF SizeIs, n
<1> HIDE DEF after
<1>10. taken'[1].from = start'
  <2>1. CASE taken = <<>>
    BY <1>2, <1>6, <1>7, <1>9, <2>1
  <2>2. CASE taken # <<>>
    <3>1. 1 \in 1 .. n
      BY <1>7, <1>9, <2>2
    <3> QED BY <1>2, <1>7, <1>9, <2>2, <3>1
  <2> QED BY <2>1, <2>2
<1>11. ASSUME NEW k \in 1 .. Len(taken') - 1
       PROVE  taken'[k + 1].from = after(taken'[k])
  <2>1. k \in 1 .. n /\ taken # <<>> /\ taken'[k] = taken[k]
    BY <1>7, <1>9
  <2>2. CASE k = n
    <3>1. taken'[k + 1] = t
      BY <1>7, <2>2
    <3> QED BY <1>6, <1>9, <2>1, <2>2, <3>1
  <2>3. CASE k # n
    <3>1. k \in 1 .. n - 1 /\ k + 1 \in 1 .. n
      BY <1>7, <2>1, <2>3
    <3> QED BY <1>7, <1>9, <2>1, <3>1
  <2> QED BY <2>2, <2>3
<1>12. SizeIs'
  BY <1>7, <1>8, <1>10, <1>11 DEF SizeIs, after
<1>13. NothingLeft'
  <2> SUFFICES ASSUME size' < MemSize, NEW k \in 1 .. Len(taken')
               PROVE  Stored(taken'[k]) = taken'[k].record.bytes
    BY <1>5 DEF NothingLeft
  <2>1. CASE k = n + 1
    BY <1>5, <1>6, <1>7, <2>1
  <2>2. CASE k # n + 1
    <3>1. k \in 1 .. n
      BY <1>7, <2>2
    <3> QED BY <1>2, <1>3, <1>7, <3>1 DEF NothingLeft, n
  <2> QED BY <2>1, <2>2
<1> QED BY <1>12, <1>13

LEMMA KeepsAccounted ==
    ASSUME LoaderInv, [Next]_vars
    PROVE  HexAccounted'
<1> SUFFICES ASSUME Accepted' PROVE RecordsAre' /\ MemoryIs' /\ SizeIs' /\ NothingLeft'
  BY DEF HexAccounted, Accepted
<1>1. file' = file /\ hex' = hex
  BY FileStays
<1>2. ASSUME Accepted, HexAccounted, UNCHANGED <<line, high, data, size, start, taken>>,
             phase = phase' \/ phase # "hex"
      PROVE  RecordsAre' /\ MemoryIs' /\ SizeIs' /\ NothingLeft'
  <2>1. RecordsAre' /\ MemoryIs' /\ SizeIs'
    BY <1>1, <1>2, Untouched
  <2>2. NothingLeft
    BY <1>2 DEF HexAccounted, Accepted
  <2>3. NothingLeft'
    BY <1>1, <1>2, <2>2 DEF NothingLeft
  <2> QED BY <2>1, <2>3
<1>3. HexAccounted
  BY DEF LoaderInv
<1>4. CASE loadBinFile \/ oddLine \/ overrunLine \/ badRecord \/ wildRecord
  <2>1. ~Accepted'
    BY <1>1, <1>4 DEF loadBinFile, oddLine, overrunLine, badRecord, wildRecord, Accepted
  <2> QED BY <2>1
<1>5. CASE openHexFile
  <2>1. /\ taken' = <<>> /\ line' = 1 /\ size' = start' /\ data' = Memory0 /\ phase' = "hex"
    BY <1>5 DEF openHexFile, LoaderInv, Before
  <2>2. Len(taken') = 0 /\ 1 .. Len(taken') = {}
    BY <2>1
  <2>3. RecordsAre'
    BY <2>1, <2>2 DEF RecordsAre
  <2>4. MemoryIs'
    <3>1. ASSUME NEW b \in 0 .. 2 * MemSize - 1 PROVE ByteOf(Memory0, b) = 0
      <4>1. b \div 2 \in Index
        BY MemoryTyped DEF Index
      <4>2. Memory0[b \div 2] = 0
        BY <4>1 DEF Memory0
      <4> QED BY <4>2 DEF ByteOf
    <3> QED BY <2>1, <2>2, <3>1 DEF MemoryIs
  <2>5. SizeIs' /\ NothingLeft'
    BY <2>1, <2>2 DEF SizeIs, NothingLeft
  <2> QED BY <2>3, <2>4, <2>5
<1>6. CASE endRecord
  <2>1. ReadLine /\ buffer'[3] = 1 /\ UNCHANGED <<line, data, size, taken>>
    BY <1>6 DEF endRecord
  <2>2. /\ hex /\ phase = "hex" /\ UNCHANGED <<high, start>>
        /\ Whole(file[line]) => Own(file[line]).type = 1
    BY <2>1, TheLine
  <2>3. RecordsAre' /\ MemoryIs' /\ SizeIs'
    BY <1>1, <2>1, <2>2, Untouched DEF Accepted
  <2>4. NothingLeft
    BY <1>3, <2>2 DEF HexAccounted
  <2>5. NothingLeft'
    BY <1>1, <2>1, <2>2, <2>4 DEF NothingLeft
  <2> QED BY <2>3, <2>5
<1>7. CASE dataRecord
  BY <1>7, RecordsGrow, MemoryGrows, SizeGrows
<1>8. CASE endOfHexFile
  <2>1. /\ phase = "hex" /\ UNCHANGED <<line, data, size, high, start, taken>>
        /\ line > Len(file) \/ size >= MemSize
    BY <1>8 DEF endOfHexFile, hexVars
  <2>2. hex
    BY <2>1 DEF LoaderInv, Before
  <2>3. RecordsAre' /\ MemoryIs' /\ SizeIs'
    BY <1>1, <2>1, <2>2, Untouched DEF Accepted
  <2>4. NothingLeft /\ Len(file) \in Nat /\ line \in 0 .. Len(file) + 1 /\ size \in Nat /\ MemSize \in Nat
    BY <1>3, <2>1, <2>2, LinesAre, MemoryTyped DEF HexAccounted, LoaderInv, Before, TypeOK
  <2>5. NothingLeft'
    BY <1>1, <2>1, <2>4 DEF NothingLeft
  <2> QED BY <2>3, <2>5
<1>9. CASE runAVR \/ decodeNext
  <2>1. Accepted /\ phase # "hex" /\ UNCHANGED <<line, high, data, size, start, taken>>
    BY <1>1, <1>9 DEF runAVR, decodeNext, Accepted, hexVars
  <2> QED BY <1>2, <1>3, <2>1
<1>10. CASE Stopped \/ UNCHANGED vars
  <2>1. Accepted /\ phase' = phase /\ UNCHANGED <<line, high, data, size, start, taken>>
    BY <1>1, <1>10 DEF Stopped, vars, hexVars, Accepted
  <2> QED BY <1>2, <1>3, <2>1
<1> QED BY <1>4, <1>5, <1>6, <1>7, <1>8, <1>9, <1>10 DEF Next

-----------------------------------------------------------------------------
(***************************************************************************)
(* The theorems.                                                           *)
(***************************************************************************)

\* Reading a file and decoding it keep the invariant, for every file, every
\* size of memory and every rubbish in the memory that is used before it is set.
THEOREM LoaderCorrect == Spec => []LoaderInv
<1>1. LoaderInv /\ [Next]_vars => LoaderInv'
  <2> SUFFICES ASSUME LoaderInv, [Next]_vars PROVE LoaderInv'
    OBVIOUS
  <2> QED BY KeepsType, KeepsBefore, KeepsDecoded, KeepsAccounted DEF LoaderInv
<1> QED BY LoaderInit, <1>1, PTL DEF Spec

\* The loader's state, and the fields of every instruction decoded, stay in range.
THEOREM LoaderTypeCorrect == Spec => []TypeOK
<1>1. LoaderInv => TypeOK
  BY DEF LoaderInv
<1> QED BY LoaderCorrect, <1>1, PTL

\* Whatever words the program holds, no handler meets a field that the decoder
\* left unset or shifts by more than a byte.
THEOREM HandlersReady == Spec => []HandlerReady
<1>1. LoaderInv => HandlerReady
  BY DEF LoaderInv, DecodedFine, HandlerReady, Fine, ShortOffset
<1> QED BY LoaderCorrect, <1>1, PTL

\* What a hex file makes of memory and of the size is what its lines say, from
\* whatever garbage it is begun with.
THEOREM HexFilesAccounted == Spec => []HexAccounted
<1>1. LoaderInv => HexAccounted
  BY DEF LoaderInv
<1> QED BY LoaderCorrect, <1>1, PTL

-----------------------------------------------------------------------------
(***************************************************************************)
(* Decoding and encoding.  The bits of an opcode are spelled out, and each *)
(* group of the decoder is shown to give an instruction that encodes back  *)
(* to the opcode, or to refuse one that lies where no assembler writes.    *)
(***************************************************************************)
\* The base codes, one by one.
LEMMA BaseCodes ==
    /\ Base["NOP"] = 0 /\ Base["ADD"] = 3072 /\ Base["ADC"] = 7168
    /\ Base["SUB"] = 6144 /\ Base["SBC"] = 2048 /\ Base["AND"] = 8192
    /\ Base["EOR"] = 9216 /\ Base["OR"] = 10240 /\ Base["MOV"] = 11264
    /\ Base["CPSE"] = 4096 /\ Base["CP"] = 5120 /\ Base["CPC"] = 1024
    /\ Base["MUL"] = 39936 /\ Base["MOVW"] = 256 /\ Base["MULS"] = 512
    /\ Base["MULSU"] = 768 /\ Base["FMUL"] = 776 /\ Base["FMULS"] = 896
    /\ Base["FMULSU"] = 904 /\ Base["SUBI"] = 20480 /\ Base["SBCI"] = 16384
    /\ Base["ANDI"] = 28672 /\ Base["ORI"] = 24576 /\ Base["CPI"] = 12288
    /\ Base["LDI"] = 57344 /\ Base["ADIW"] = 38400 /\ Base["SBIW"] = 38656
    /\ Base["COM"] = 37888 /\ Base["NEG"] = 37889 /\ Base["INC"] = 37891
    /\ Base["DEC"] = 37898 /\ Base["LSR"] = 37894 /\ Base["ROR"] = 37895
    /\ Base["ASR"] = 37893 /\ Base["SWAP"] = 37890 /\ Base["PUSH"] = 37391
    /\ Base["POP"] = 36879 /\ Base["LDS"] = 36864 /\ Base["STS"] = 37376
    /\ Base["LDD"] = 32768 /\ Base["STD"] = 33280 /\ Base["LD"] = 36864
    /\ Base["ST"] = 37376 /\ Base["LPM"] = 38344 /\ Base["LPMen"] = 36868
    /\ Base["ELPM"] = 38360 /\ Base["ELPMen"] = 36868 /\ Base["SPM"] = 38376
    /\ Base["RJMP"] = 49152 /\ Base["RCALL"] = 53248 /\ Base["JMP"] = 37900
    /\ Base["CALL"] = 37902 /\ Base["IJMP"] = 37897 /\ Base["EIJMP"] = 37913
    /\ Base["ICALL"] = 38153 /\ Base["EICALL"] = 38169 /\ Base["RET"] = 38152
    /\ Base["RETI"] = 38168 /\ Base["SLEEP"] = 38280 /\ Base["BREAK"] = 38296
    /\ Base["WDR"] = 38312 /\ Base["SBRC"] = 64512 /\ Base["SBRS"] = 65024
    /\ Base["SBIC"] = 39168 /\ Base["SBIS"] = 39680 /\ Base["CBI"] = 38912
    /\ Base["SBI"] = 39424 /\ Base["IN"] = 45056 /\ Base["OUT"] = 47104
    /\ Base["BRx"] = 61440 /\ Base["BLD"] = 63488 /\ Base["BST"] = 64000
    /\ Base["SEx"] = 37896 /\ Base["CLx"] = 38024
<1>1. /\ Base["NOP"] = 0 /\ Base["ADD"] = 3072 /\ Base["ADC"] = 7168
      /\ Base["SUB"] = 6144 /\ Base["SBC"] = 2048 /\ Base["AND"] = 8192
  BY SMTT(30) DEF Base, Over
<1>2. /\ Base["EOR"] = 9216 /\ Base["OR"] = 10240 /\ Base["MOV"] = 11264
      /\ Base["CPSE"] = 4096 /\ Base["CP"] = 5120 /\ Base["CPC"] = 1024
  BY SMTT(30) DEF Base, Over
<1>3. /\ Base["MUL"] = 39936 /\ Base["MOVW"] = 256 /\ Base["MULS"] = 512
      /\ Base["MULSU"] = 768 /\ Base["FMUL"] = 776 /\ Base["FMULS"] = 896
  BY SMTT(30) DEF Base, Over
<1>4. /\ Base["FMULSU"] = 904 /\ Base["SUBI"] = 20480 /\ Base["SBCI"] = 16384
      /\ Base["ANDI"] = 28672 /\ Base["ORI"] = 24576 /\ Base["CPI"] = 12288
  BY SMTT(30) DEF Base, Over
<1>5. /\ Base["LDI"] = 57344 /\ Base["ADIW"] = 38400 /\ Base["SBIW"] = 38656
      /\ Base["COM"] = 37888 /\ Base["NEG"] = 37889 /\ Base["INC"] = 37891
  BY SMTT(30) DEF Base, Over
<1>6. /\ Base["DEC"] = 37898 /\ Base["LSR"] = 37894 /\ Base["ROR"] = 37895
      /\ Base["ASR"] = 37893 /\ Base["SWAP"] = 37890 /\ Base["PUSH"] = 37391
  BY SMTT(30) DEF Base, Over
<1>7. /\ Base["POP"] = 36879 /\ Base["LDS"] = 36864 /\ Base["STS"] = 37376
      /\ Base["LDD"] = 32768 /\ Base["STD"] = 33280 /\ Base["LD"] = 36864
  BY SMTT(30) DEF Base, Over
<1>8. /\ Base["ST"] = 37376 /\ Base["LPM"] = 38344 /\ Base["LPMen"] = 36868
      /\ Base["ELPM"] = 38360 /\ Base["ELPMen"] = 36868 /\ Base["SPM"] = 38376
  BY SMTT(30) DEF Base, Over
<1>9. /\ Base["RJMP"] = 49152 /\ Base["RCALL"] = 53248 /\ Base["JMP"] = 37900
      /\ Base["CALL"] = 37902 /\ Base["IJMP"] = 37897 /\ Base["EIJMP"] = 37913
  BY SMTT(30) DEF Base, Over
<1>10. /\ Base["ICALL"] = 38153 /\ Base["EICALL"] = 38169 /\ Base["RET"] = 38152
      /\ Base["RETI"] = 38168 /\ Base["SLEEP"] = 38280 /\ Base["BREAK"] = 38296
  BY SMTT(30) DEF Base, Over
<1>11. /\ Base["WDR"] = 38312 /\ Base["SBRC"] = 64512 /\ Base["SBRS"] = 65024
      /\ Base["SBIC"] = 39168 /\ Base["SBIS"] = 39680 /\ Base["CBI"] = 38912
  BY SMTT(30) DEF Base, Over
<1>12. /\ Base["SBI"] = 39424 /\ Base["IN"] = 45056 /\ Base["OUT"] = 47104
      /\ Base["BRx"] = 61440 /\ Base["BLD"] = 63488 /\ Base["BST"] = 64000
  BY SMTT(30) DEF Base, Over
<1>13. /\ Base["SEx"] = 37896 /\ Base["CLx"] = 38024
  BY SMTT(30) DEF Base, Over
<1> QED BY <1>1, <1>2, <1>3, <1>4, <1>5, <1>6, <1>7, <1>8, <1>9, <1>10, <1>11, <1>12, <1>13

\* The mnemonics whose operands are two registers, and those with an immediate.
LEMMA OpFamilies ==
    /\ TwoRegisters = {"CPC", "SBC", "ADD", "CPSE", "CP", "SUB", "ADC", "AND", "EOR", "OR", "MOV",
                       "MUL"}
    /\ Immediates = {"LDI", "CPI", "SBCI", "SUBI", "ORI", "ANDI"}
<1>1. {TwoOperand[n] : n \in DOMAIN TwoOperand}
        = {"CPC", "SBC", "ADD", "CPSE", "CP", "SUB", "ADC", "AND", "EOR", "OR", "MOV"}
  <2>1. DOMAIN TwoOperand = {1, 2, 3, 4, 5, 6, 7, 8, 9, 10, 11}
    BY DEF TwoOperand
  <2>2. /\ TwoOperand[1] = "CPC" /\ TwoOperand[2] = "SBC" /\ TwoOperand[3] = "ADD"
        /\ TwoOperand[4] = "CPSE" /\ TwoOperand[5] = "CP" /\ TwoOperand[6] = "SUB"
        /\ TwoOperand[7] = "ADC" /\ TwoOperand[8] = "AND" /\ TwoOperand[9] = "EOR"
        /\ TwoOperand[10] = "OR" /\ TwoOperand[11] = "MOV"
    BY DEF TwoOperand
  <2> QED BY <2>1, <2>2
<1>2. Immediates = {"LDI", "CPI", "SBCI", "SUBI", "ORI", "ANDI"}
  <2>1. DOMAIN Immediate = {3, 4, 5, 6, 7, 14}
    BY DEF Immediate
  <2>2. /\ Immediate[3] = "CPI" /\ Immediate[4] = "SBCI" /\ Immediate[5] = "SUBI"
        /\ Immediate[6] = "ORI" /\ Immediate[7] = "ANDI" /\ Immediate[14] = "LDI"
    BY DEF Immediate
  <2> QED BY <2>1, <2>2 DEF Immediates
<1> QED BY <1>1, <1>2 DEF TwoRegisters

\* What the opcode of an instruction is, one kind of operands at a time.
LEMMA EncodeIs ==
    ASSUME NEW d
    PROVE  /\ d.op \in TwoRegisters =>
                Encode(d) = Base[d.op] + encode_rd(d.D) + encode_rr(d.R)
           /\ d.op = "MOVW" =>
                Encode(d) = Base["MOVW"] + encode_4bit_rd(d.D \div 2) + (d.R \div 2)
           /\ d.op = "MULS" => Encode(d) = Base["MULS"] + encode_4bit_rd(d.D) + (d.R % 16)
           /\ d.op \in {"MULSU", "FMUL", "FMULS", "FMULSU"} =>
                Encode(d) = Base[d.op] + 16 * (d.D % 8) + (d.R % 8)
           /\ d.op \in Immediates =>
                Encode(d) = Base[d.op] + encode_4bit_rd(d.D) + encode_k(d.K)
           /\ d.op \in {"ADIW", "SBIW"} =>
                Encode(d) = Base[d.op] + 16 * PairNumber(d.ireg) + encode_6bit_k(d.K)
           /\ d.op \in OneRegister => Encode(d) = Base[d.op] + encode_rd(d.D)
           /\ d.op \in {"LDD", "STD"} =>
                Encode(d) = Base[d.op] + encode_rd(d.D) + Pointer(d.ireg) + (d.K % 8)
                              + 1024 * Bits(d.K, 3, 2) + 8192 * Bit(d.K, 5)
           /\ d.op \in {"LD", "LD2", "LD3"} =>
                Encode(d) = Base["LD"] + encode_rd(d.D) + Pointer(d.ireg) + d.mode - 1
           /\ d.op \in {"ST", "ST2", "ST3"} =>
                Encode(d) = Base["ST"] + encode_rd(d.D) + Pointer(d.ireg) + d.mode - 1
           /\ d.op = "LPMen" => Encode(d) = Base["LPMen"] + encode_rd(d.D) + d.mode - 2
           /\ d.op = "ELPM" => Encode(d) = IF d.mode = 1 THEN Base["ELPM"]
                                           ELSE Base["ELPMen"] + encode_rd(d.D) + d.mode
           /\ d.op = "SPM" => Encode(d) = Base["SPM"] + 16 * (d.mode - 1)
           /\ d.op \in {"RJMP", "RCALL"} => Encode(d) = Base[d.op] + (d.A % 4096)
           /\ d.op \in {"JMP", "CALL"} => Encode(d) = Base[d.op] + encode_al(d.AL)
           /\ d.op \in RegisterBits => Encode(d) = Base[d.op] + encode_rd(d.D) + d.R
           /\ d.op \in IoBits => Encode(d) = Base[d.op] + 8 * d.A + d.R
           /\ d.op \in {"IN", "OUT"} =>
                Encode(d) = Base[d.op] + encode_rd(d.D) + (d.A % 16) + 512 * Bits(d.A, 4, 2)
           /\ d.op = "BRx" =>
                Encode(d) = Base["BRx"] + 1024 * (1 - d.D) + 8 * (d.K % 128) + d.R
           /\ d.op \in {"SEx", "CLx"} => Encode(d) = Base[d.op] + 16 * d.R
           /\ d.op \in Bare => Encode(d) = Base[d.op]
<1>1. d.op \in TwoRegisters =>
           Encode(d) = Base[d.op] + encode_rd(d.D) + encode_rr(d.R)
  BY OpFamilies DEF Encode, OneRegister, RegisterBits, IoBits, Bare
<1>2. d.op = "MOVW" =>
           Encode(d) = Base["MOVW"] + encode_4bit_rd(d.D \div 2) + (d.R \div 2)
  BY OpFamilies DEF Encode, OneRegister, RegisterBits, IoBits, Bare
<1>3. d.op = "MULS" => Encode(d) = Base["MULS"] + encode_4bit_rd(d.D) + (d.R % 16)
  BY OpFamilies DEF Encode, OneRegister, RegisterBits, IoBits, Bare
<1>4. d.op \in {"MULSU", "FMUL", "FMULS", "FMULSU"} =>
           Encode(d) = Base[d.op] + 16 * (d.D % 8) + (d.R % 8)
  BY OpFamilies DEF Encode, OneRegister, RegisterBits, IoBits, Bare
<1>5. d.op \in Immediates =>
           Encode(d) = Base[d.op] + encode_4bit_rd(d.D) + encode_k(d.K)
  BY OpFamilies DEF Encode, OneRegister, RegisterBits, IoBits, Bare
<1>6. d.op \in {"ADIW", "SBIW"} =>
           Encode(d) = Base[d.op] + 16 * PairNumber(d.ireg) + encode_6bit_k(d.K)
  BY OpFamilies DEF Encode, OneRegister, RegisterBits, IoBits, Bare
<1>7. d.op \in OneRegister => Encode(d) = Base[d.op] + encode_rd(d.D)
  BY OpFamilies DEF Encode, OneRegister, RegisterBits, IoBits, Bare
<1>8. d.op \in {"LDD", "STD"} =>
           Encode(d) = Base[d.op] + encode_rd(d.D) + Pointer(d.ireg) + (d.K % 8)
                         + 1024 * Bits(d.K, 3, 2) + 8192 * Bit(d.K, 5)
  BY OpFamilies DEF Encode, OneRegister, RegisterBits, IoBits, Bare
<1>9. d.op \in {"LD", "LD2", "LD3"} =>
           Encode(d) = Base["LD"] + encode_rd(d.D) + Pointer(d.ireg) + d.mode - 1
  BY OpFamilies DEF Encode, OneRegister, RegisterBits, IoBits, Bare
<1>10. d.op \in {"ST", "ST2", "ST3"} =>
           Encode(d) = Base["ST"] + encode_rd(d.D) + Pointer(d.ireg) + d.mode - 1
  BY OpFamilies DEF Encode, OneRegister, RegisterBits, IoBits, Bare
<1>11. d.op = "LPMen" => Encode(d) = Base["LPMen"] + encode_rd(d.D) + d.mode - 2
  BY OpFamilies DEF Encode, OneRegister, RegisterBits, IoBits, Bare
<1>12. d.op = "ELPM" => Encode(d) = IF d.mode = 1 THEN Base["ELPM"]
                                      ELSE Base["ELPMen"] + encode_rd(d.D) + d.mode
  BY OpFamilies DEF Encode, OneRegister, RegisterBits, IoBits, Bare
<1>13. d.op = "SPM" => Encode(d) = Base["SPM"] + 16 * (d.mode - 1)
  BY OpFamilies DEF Encode, OneRegister, RegisterBits, IoBits, Bare
<1>14. d.op \in {"RJMP", "RCALL"} => Encode(d) = Base[d.op] + (d.A % 4096)
  BY OpFamilies DEF Encode, OneRegister, RegisterBits, IoBits, Bare
<1>15. d.op \in {"JMP", "CALL"} => Encode(d) = Base[d.op] + encode_al(d.AL)
  BY OpFamilies DEF Encode, OneRegister, RegisterBits, IoBits, Bare
<1>16. d.op \in RegisterBits => Encode(d) = Base[d.op] + encode_rd(d.D) + d.R
  BY OpFamilies DEF Encode, OneRegister, RegisterBits, IoBits, Bare
<1>17. d.op \in IoBits => Encode(d) = Base[d.op] + 8 * d.A + d.R
  BY OpFamilies DEF Encode, OneRegister, RegisterBits, IoBits, Bare
<1>18. d.op \in {"IN", "OUT"} =>
           Encode(d) = Base[d.op] + encode_rd(d.D) + (d.A % 16) + 512 * Bits(d.A, 4, 2)
  BY OpFamilies DEF Encode, OneRegister, RegisterBits, IoBits, Bare
<1>19. d.op = "BRx" =>
           Encode(d) = Base["BRx"] + 1024 * (1 - d.D) + 8 * (d.K % 128) + d.R
  BY OpFamilies DEF Encode, OneRegister, RegisterBits, IoBits, Bare
<1>20. d.op \in {"SEx", "CLx"} => Encode(d) = Base[d.op] + 16 * d.R
  BY OpFamilies DEF Encode, OneRegister, RegisterBits, IoBits, Bare
<1>21. d.op \in Bare => Encode(d) = Base[d.op]
  BY OpFamilies DEF Encode, OneRegister, RegisterBits, IoBits, Bare
<1> QED BY <1>1, <1>2, <1>3, <1>4, <1>5, <1>6, <1>7, <1>8, <1>9, <1>10, <1>11, <1>12,
          <1>13, <1>14, <1>15, <1>16, <1>17, <1>18, <1>19, <1>20, <1>21

\* The fields of an instruction's record.
LEMMA InstHas ==
    ASSUME NEW op, NEW fields, NEW o, "op" \notin DOMAIN fields
    PROVE  /\ Inst(op, fields, o).op = op
           /\ \A x \in DOMAIN fields : Inst(op, fields, o)[x] = fields[x]
           /\ \A x \in {"D", "R", "K"} \ DOMAIN fields : Inst(op, fields, o)[x] = Common(o)[x]
<1> DEFINE named == [op |-> op]
           c == Common(o)
           inner == Over(fields, c)
           d == Over(named, inner)
<1>1. DOMAIN named = {"op"} /\ named["op"] = op
  OBVIOUS
<1>2. DOMAIN c = {"D", "R", "K", "wsize"}
  BY DEF Common
<1>3. Inst(op, fields, o) = d
  BY DEF Inst
<1> HIDE DEF named, c
<1>4. /\ DOMAIN inner = DOMAIN fields \cup DOMAIN c
      /\ \A x \in DOMAIN fields : inner[x] = fields[x]
      /\ \A x \in DOMAIN c : x \notin DOMAIN fields => inner[x] = c[x]
  BY OverFields
<1> HIDE DEF inner
<1>5. /\ DOMAIN d = DOMAIN named \cup DOMAIN inner
      /\ \A x \in DOMAIN named : d[x] = named[x]
      /\ \A x \in DOMAIN inner : x \notin DOMAIN named => d[x] = inner[x]
  BY OverFields
<1> HIDE DEF d
<1>6. d["op"] = op
  BY <1>1, <1>5
<1>7. \A x \in DOMAIN fields : d[x] = fields[x]
  BY <1>1, <1>4, <1>5
<1>8. \A x \in {"D", "R", "K"} \ DOMAIN fields : d[x] = c[x]
  BY <1>1, <1>2, <1>4, <1>5
<1> QED BY <1>3, <1>6, <1>7, <1>8 DEF c

\* A record with no fields of its own has the common ones.
LEMMA PlainHas ==
    ASSUME NEW op, NEW o
    PROVE  /\ Plain(op, o).op = op
           /\ \A x \in {"D", "R", "K"} : Plain(op, o)[x] = Common(o)[x]
<1> DEFINE named == [op |-> op]
           c == Common(o)
           d == Over(named, c)
<1>1. DOMAIN named = {"op"} /\ named["op"] = op
  OBVIOUS
<1>2. DOMAIN c = {"D", "R", "K", "wsize"}
  BY DEF Common
<1>3. Plain(op, o) = d
  BY DEF Plain
<1> HIDE DEF named, c
<1>4. /\ \A x \in DOMAIN named : d[x] = named[x]
      /\ \A x \in DOMAIN c : x \notin DOMAIN named => d[x] = c[x]
  BY OverFields
<1> HIDE DEF d
<1>5. d["op"] = op /\ \A x \in {"D", "R", "K"} : d[x] = c[x]
  BY <1>1, <1>2, <1>4
<1> QED BY <1>3, <1>5 DEF c

\* The fields that every record has.
LEMMA CommonHas ==
    ASSUME NEW o
    PROVE  /\ Common(o)["D"] = Bits(o, 4, 5)
           /\ Common(o)["R"] = Low4(o) + 16 * Bit(o, 9)
           /\ Common(o)["K"] = Signed(Low4(o) + 16 * Bits(o, 8, 4), 8)
  BY DEF Common

\* The fields of an opcode as quotients and remainders.
LEMMA Quotients ==
    ASSUME NEW o \in Int
    PROVE  /\ Bits(o, 0, 2) = o % 4 /\ Bits(o, 0, 3) = o % 8 /\ Low4(o) = o % 16
           /\ Bits(o, 0, 11) = o % 2048 /\ Bits(o, 0, 12) = o % 4096 /\ Bits(o, 0, 8) = o % 256
           /\ Bits(o, 0, 4) = o % 16
           /\ Bit(o, 0) = o % 2 /\ Bits(o, 2, 2) = (o \div 4) % 4
           /\ Bit(o, 3) = (o \div 8) % 2 /\ Bits(o, 3, 2) = (o \div 8) % 4
           /\ Bits(o, 3, 5) = (o \div 8) % 32 /\ Bits(o, 3, 7) = (o \div 8) % 128
           /\ Bit(o, 4) = (o \div 16) % 2 /\ Bits(o, 4, 2) = (o \div 16) % 4
           /\ Bits(o, 4, 3) = (o \div 16) % 8 /\ Bits(o, 4, 4) = (o \div 16) % 16
           /\ Bits(o, 4, 5) = (o \div 16) % 32 /\ Bit(o, 5) = (o \div 32) % 2
           /\ Bits(o, 6, 2) = (o \div 64) % 4 /\ Bit(o, 7) = (o \div 128) % 2
           /\ Bit(o, 8) = (o \div 256) % 2 /\ Bits(o, 8, 2) = (o \div 256) % 4
           /\ Bits(o, 8, 4) = (o \div 256) % 16
           /\ Bit(o, 9) = (o \div 512) % 2 /\ Bits(o, 9, 2) = (o \div 512) % 4
           /\ Bit(o, 10) = (o \div 1024) % 2 /\ Bits(o, 10, 2) = (o \div 1024) % 4
           /\ Bit(o, 11) = (o \div 2048) % 2 /\ Bit(o, 13) = (o \div 8192) % 2
<1>1. \A x \in Int : x \div 1 = x
  OBVIOUS
<1> QED BY <1>1, Powers DEF Bits, Bit, Low4

\* Half of a number, over and over.
LEMMA Halving ==
    ASSUME NEW x \in Nat
    PROVE  /\ x = 2 * (x \div 2) + (x % 2) /\ x % 2 \in {0, 1} /\ x \div 2 \in Nat
  OBVIOUS

\* The quotients of a number by powers of two are halves of each other.
LEMMA Quarters ==
    ASSUME NEW x \in Nat
    PROVE  /\ (x \div 2) \div 2 = x \div 4
           /\ (x \div 4) \div 2 = x \div 8
           /\ (x \div 8) \div 2 = x \div 16
           /\ (x \div 16) \div 2 = x \div 32
           /\ (x \div 32) \div 2 = x \div 64
           /\ (x \div 64) \div 2 = x \div 128
           /\ (x \div 128) \div 2 = x \div 256
           /\ (x \div 256) \div 2 = x \div 512
           /\ (x \div 512) \div 2 = x \div 1024
           /\ (x \div 1024) \div 2 = x \div 2048
           /\ (x \div 2048) \div 2 = x \div 4096
           /\ (x \div 4096) \div 2 = x \div 8192
           /\ (x \div 8192) \div 2 = x \div 16384
           /\ (x \div 16384) \div 2 = x \div 32768
  OBVIOUS

\* An opcode and its fields as sums of the opcode's bits.
LEMMA Spelled ==
    ASSUME NEW o \in Words
    PROVE  /\ Bit(o, 0) \in Int /\ Bit(o, 1) \in Int /\ Bit(o, 2) \in Int /\ Bit(o, 3) \in Int
           /\ Bit(o, 4) \in Int /\ Bit(o, 5) \in Int /\ Bit(o, 6) \in Int /\ Bit(o, 7) \in Int
           /\ Bit(o, 8) \in Int /\ Bit(o, 9) \in Int /\ Bit(o, 10) \in Int /\ Bit(o, 11) \in Int
           /\ Bit(o, 12) \in Int /\ Bit(o, 13) \in Int /\ Bit(o, 14) \in Int /\ Bit(o, 15) \in Int
           /\ o = Bit(o, 0) + 2 * Bit(o, 1) + 4 * Bit(o, 2) + 8 * Bit(o, 3) + 16 * Bit(o, 4)
                   + 32 * Bit(o, 5) + 64 * Bit(o, 6) + 128 * Bit(o, 7) + 256 * Bit(o, 8)
                   + 512 * Bit(o, 9) + 1024 * Bit(o, 10) + 2048 * Bit(o, 11)
                   + 4096 * Bit(o, 12) + 8192 * Bit(o, 13) + 16384 * Bit(o, 14)
                   + 32768 * Bit(o, 15)
           /\ Bits(o, 0, 2) = Bit(o, 0) + 2 * Bit(o, 1)
           /\ Bits(o, 0, 3) = Bit(o, 0) + 2 * Bit(o, 1) + 4 * Bit(o, 2)
           /\ Low4(o) = Bit(o, 0) + 2 * Bit(o, 1) + 4 * Bit(o, 2) + 8 * Bit(o, 3)
           /\ Bits(o, 0, 4) = Bit(o, 0) + 2 * Bit(o, 1) + 4 * Bit(o, 2) + 8 * Bit(o, 3)
           /\ Bits(o, 0, 8) = Bit(o, 0) + 2 * Bit(o, 1) + 4 * Bit(o, 2) + 8 * Bit(o, 3)
                   + 16 * Bit(o, 4) + 32 * Bit(o, 5) + 64 * Bit(o, 6) + 128 * Bit(o, 7)
           /\ Bits(o, 0, 11) = Bit(o, 0) + 2 * Bit(o, 1) + 4 * Bit(o, 2) + 8 * Bit(o, 3)
                   + 16 * Bit(o, 4) + 32 * Bit(o, 5) + 64 * Bit(o, 6) + 128 * Bit(o, 7)
                   + 256 * Bit(o, 8) + 512 * Bit(o, 9) + 1024 * Bit(o, 10)
           /\ Bits(o, 0, 12) = Bit(o, 0) + 2 * Bit(o, 1) + 4 * Bit(o, 2) + 8 * Bit(o, 3)
                   + 16 * Bit(o, 4) + 32 * Bit(o, 5) + 64 * Bit(o, 6) + 128 * Bit(o, 7)
                   + 256 * Bit(o, 8) + 512 * Bit(o, 9) + 1024 * Bit(o, 10)
                   + 2048 * Bit(o, 11)
           /\ Bits(o, 2, 2) = Bit(o, 2) + 2 * Bit(o, 3)
           /\ Bits(o, 3, 5) = Bit(o, 3) + 2 * Bit(o, 4) + 4 * Bit(o, 5) + 8 * Bit(o, 6)
                   + 16 * Bit(o, 7)
           /\ Bits(o, 3, 7) = Bit(o, 3) + 2 * Bit(o, 4) + 4 * Bit(o, 5) + 8 * Bit(o, 6)
                   + 16 * Bit(o, 7) + 32 * Bit(o, 8) + 64 * Bit(o, 9)
           /\ Bits(o, 4, 2) = Bit(o, 4) + 2 * Bit(o, 5)
           /\ Bits(o, 4, 3) = Bit(o, 4) + 2 * Bit(o, 5) + 4 * Bit(o, 6)
           /\ Bits(o, 4, 4) = Bit(o, 4) + 2 * Bit(o, 5) + 4 * Bit(o, 6) + 8 * Bit(o, 7)
           /\ Bits(o, 4, 5) = Bit(o, 4) + 2 * Bit(o, 5) + 4 * Bit(o, 6) + 8 * Bit(o, 7)
                   + 16 * Bit(o, 8)
           /\ Bits(o, 6, 2) = Bit(o, 6) + 2 * Bit(o, 7)
           /\ Bits(o, 8, 2) = Bit(o, 8) + 2 * Bit(o, 9)
           /\ Bits(o, 8, 4) = Bit(o, 8) + 2 * Bit(o, 9) + 4 * Bit(o, 10) + 8 * Bit(o, 11)
           /\ Bits(o, 9, 2) = Bit(o, 9) + 2 * Bit(o, 10)
           /\ Bits(o, 10, 2) = Bit(o, 10) + 2 * Bit(o, 11)
           /\ Bits(o, 11, 5) = Bit(o, 11) + 2 * Bit(o, 12) + 4 * Bit(o, 13) + 8 * Bit(o, 14)
                   + 16 * Bit(o, 15)
           /\ Top4(o) = Bit(o, 12) + 2 * Bit(o, 13) + 4 * Bit(o, 14) + 8 * Bit(o, 15)
           /\ Top6(o) = Bit(o, 10) + 2 * Bit(o, 11) + 4 * Bit(o, 12) + 8 * Bit(o, 13)
                   + 16 * Bit(o, 14) + 32 * Bit(o, 15)
           /\ Top7(o) = Bit(o, 9) + 2 * Bit(o, 10) + 4 * Bit(o, 11) + 8 * Bit(o, 12)
                   + 16 * Bit(o, 13) + 32 * Bit(o, 14) + 64 * Bit(o, 15)
           /\ Top8(o) = Bit(o, 8) + 2 * Bit(o, 9) + 4 * Bit(o, 10) + 8 * Bit(o, 11)
                   + 16 * Bit(o, 12) + 32 * Bit(o, 13) + 64 * Bit(o, 14) + 128 * Bit(o, 15)
<1>1. o \in Nat /\ o <= 65535
  BY WordsAre
<1> DEFINE h0 == o \div 1
           h1 == o \div 2
           h2 == o \div 4
           h3 == o \div 8
           h4 == o \div 16
           h5 == o \div 32
           h6 == o \div 64
           h7 == o \div 128
           h8 == o \div 256
           h9 == o \div 512
           h10 == o \div 1024
           h11 == o \div 2048
           h12 == o \div 4096
           h13 == o \div 8192
           h14 == o \div 16384
           h15 == o \div 32768
           b0 == h0 % 2
           b1 == h1 % 2
           b2 == h2 % 2
           b3 == h3 % 2
           b4 == h4 % 2
           b5 == h5 % 2
           b6 == h6 % 2
           b7 == h7 % 2
           b8 == h8 % 2
           b9 == h9 % 2
           b10 == h10 % 2
           b11 == h11 % 2
           b12 == h12 % 2
           b13 == h13 % 2
           b14 == h14 % 2
           b15 == h15 % 2
<1>2. /\ 2^14 = 16384 /\ 2^15 = 32768
  OBVIOUS
<1>3. h0 = o
  BY <1>1
<1>4. /\ Bit(o, 0) = b0
      /\ Bit(o, 1) = b1
      /\ Bit(o, 2) = b2
      /\ Bit(o, 3) = b3
      /\ Bit(o, 4) = b4
      /\ Bit(o, 5) = b5
      /\ Bit(o, 6) = b6
      /\ Bit(o, 7) = b7
      /\ Bit(o, 8) = b8
      /\ Bit(o, 9) = b9
      /\ Bit(o, 10) = b10
      /\ Bit(o, 11) = b11
      /\ Bit(o, 12) = b12
      /\ Bit(o, 13) = b13
      /\ Bit(o, 14) = b14
      /\ Bit(o, 15) = b15
  BY <1>1, <1>2, Powers DEF Bit, Bits
<1>5. /\ h1 = h0 \div 2
      /\ h2 = h1 \div 2
      /\ h3 = h2 \div 2
      /\ h4 = h3 \div 2
      /\ h5 = h4 \div 2
      /\ h6 = h5 \div 2
      /\ h7 = h6 \div 2
      /\ h8 = h7 \div 2
      /\ h9 = h8 \div 2
      /\ h10 = h9 \div 2
      /\ h11 = h10 \div 2
      /\ h12 = h11 \div 2
      /\ h13 = h12 \div 2
      /\ h14 = h13 \div 2
      /\ h15 = h14 \div 2
  BY <1>1, <1>3, Quarters
<1>6. h15 <= 1
  BY <1>1
<1>7. /\ h0 = 2 * h1 + b0 /\ b0 \in {0, 1} /\ h0 \in Nat
      /\ h1 = 2 * h2 + b1 /\ b1 \in {0, 1} /\ h1 \in Nat
      /\ h2 = 2 * h3 + b2 /\ b2 \in {0, 1} /\ h2 \in Nat
      /\ h3 = 2 * h4 + b3 /\ b3 \in {0, 1} /\ h3 \in Nat
      /\ h4 = 2 * h5 + b4 /\ b4 \in {0, 1} /\ h4 \in Nat
      /\ h5 = 2 * h6 + b5 /\ b5 \in {0, 1} /\ h5 \in Nat
      /\ h6 = 2 * h7 + b6 /\ b6 \in {0, 1} /\ h6 \in Nat
      /\ h7 = 2 * h8 + b7 /\ b7 \in {0, 1} /\ h7 \in Nat
      /\ h8 = 2 * h9 + b8 /\ b8 \in {0, 1} /\ h8 \in Nat
      /\ h9 = 2 * h10 + b9 /\ b9 \in {0, 1} /\ h9 \in Nat
      /\ h10 = 2 * h11 + b10 /\ b10 \in {0, 1} /\ h10 \in Nat
      /\ h11 = 2 * h12 + b11 /\ b11 \in {0, 1} /\ h11 \in Nat
      /\ h12 = 2 * h13 + b12 /\ b12 \in {0, 1} /\ h12 \in Nat
      /\ h13 = 2 * h14 + b13 /\ b13 \in {0, 1} /\ h13 \in Nat
      /\ h14 = 2 * h15 + b14 /\ b14 \in {0, 1} /\ h14 \in Nat
      /\ h15 = b15 /\ b15 \in {0, 1} /\ h15 \in Nat
  BY <1>1, <1>3, <1>5, <1>6, Halving
<1>8. /\ Bits(o, 0, 2) = h0 % 4
      /\ Bits(o, 0, 3) = h0 % 8
      /\ Low4(o) = h0 % 16
      /\ Bits(o, 0, 4) = h0 % 16
      /\ Bits(o, 0, 8) = h0 % 256
      /\ Bits(o, 0, 11) = h0 % 2048
      /\ Bits(o, 0, 12) = h0 % 4096
      /\ Bits(o, 2, 2) = h2 % 4
      /\ Bits(o, 3, 5) = h3 % 32
      /\ Bits(o, 3, 7) = h3 % 128
      /\ Bits(o, 4, 2) = h4 % 4
      /\ Bits(o, 4, 3) = h4 % 8
      /\ Bits(o, 4, 4) = h4 % 16
      /\ Bits(o, 4, 5) = h4 % 32
      /\ Bits(o, 6, 2) = h6 % 4
      /\ Bits(o, 8, 2) = h8 % 4
      /\ Bits(o, 8, 4) = h8 % 16
      /\ Bits(o, 9, 2) = h9 % 4
      /\ Bits(o, 10, 2) = h10 % 4
      /\ Bits(o, 11, 5) = h11 % 32
      /\ Top4(o) = h12 % 16
      /\ Top6(o) = h10 % 64
      /\ Top7(o) = h9 % 128
      /\ Top8(o) = h8 % 256
  BY <1>2, Powers DEF Bits, Low4, Top4, Top6, Top7, Top8
<1> HIDE DEF h0, h1, h2, h3, h4, h5, h6, h7, h8, h9, h10, h11, h12, h13, h14, h15,
         b0, b1, b2, b3, b4, b5, b6, b7, b8, b9, b10, b11, b12, b13, b14, b15
<1>9. Bits(o, 0, 2) = b0 + 2 * b1
  BY <1>7, <1>8
<1>10. Bits(o, 0, 3) = b0 + 2 * b1 + 4 * b2
  BY <1>7, <1>8
<1>11. Low4(o) = b0 + 2 * b1 + 4 * b2 + 8 * b3
  BY <1>7, <1>8
<1>12. Bits(o, 0, 4) = b0 + 2 * b1 + 4 * b2 + 8 * b3
  BY <1>7, <1>8
<1>13. Bits(o, 0, 8) = b0 + 2 * b1 + 4 * b2 + 8 * b3 + 16 * b4 + 32 * b5 + 64 * b6 + 128 * b7
  BY <1>7, <1>8
<1>14. Bits(o, 0, 11) = b0 + 2 * b1 + 4 * b2 + 8 * b3 + 16 * b4 + 32 * b5 + 64 * b6 + 128 * b7
        + 256 * b8 + 512 * b9 + 1024 * b10
  <2> DEFINE s == b0 + 2 * b1 + 4 * b2 + 8 * b3 + 16 * b4 + 32 * b5 + 64 * b6 + 128 * b7 + 256 * b8
            + 512 * b9 + 1024 * b10
  <2>1. h0 = 2048 * h11 + s /\ s \in Nat /\ s < 2048 /\ h11 \in Nat
    BY <1>7
  <2> HIDE DEF s
  <2>2. h0 % 2048 = s
    BY <2>1
  <2> QED BY <1>8, <2>2 DEF s
<1>15. Bits(o, 0, 12) = b0 + 2 * b1 + 4 * b2 + 8 * b3 + 16 * b4 + 32 * b5 + 64 * b6 + 128 * b7
        + 256 * b8 + 512 * b9 + 1024 * b10 + 2048 * b11
  <2> DEFINE s == b0 + 2 * b1 + 4 * b2 + 8 * b3 + 16 * b4 + 32 * b5 + 64 * b6 + 128 * b7 + 256 * b8
            + 512 * b9 + 1024 * b10 + 2048 * b11
  <2>1. h0 = 4096 * h12 + s /\ s \in Nat /\ s < 4096 /\ h12 \in Nat
    BY <1>7
  <2> HIDE DEF s
  <2>2. h0 % 4096 = s
    BY <2>1
  <2> QED BY <1>8, <2>2 DEF s
<1>16. Bits(o, 2, 2) = b2 + 2 * b3
  BY <1>7, <1>8
<1>17. Bits(o, 3, 5) = b3 + 2 * b4 + 4 * b5 + 8 * b6 + 16 * b7
  BY <1>7, <1>8
<1>18. Bits(o, 3, 7) = b3 + 2 * b4 + 4 * b5 + 8 * b6 + 16 * b7 + 32 * b8 + 64 * b9
  BY <1>7, <1>8
<1>19. Bits(o, 4, 2) = b4 + 2 * b5
  BY <1>7, <1>8
<1>20. Bits(o, 4, 3) = b4 + 2 * b5 + 4 * b6
  BY <1>7, <1>8
<1>21. Bits(o, 4, 4) = b4 + 2 * b5 + 4 * b6 + 8 * b7
  BY <1>7, <1>8
<1>22. Bits(o, 4, 5) = b4 + 2 * b5 + 4 * b6 + 8 * b7 + 16 * b8
  BY <1>7, <1>8
<1>23. Bits(o, 6, 2) = b6 + 2 * b7
  BY <1>7, <1>8
<1>24. Bits(o, 8, 2) = b8 + 2 * b9
  BY <1>7, <1>8
<1>25. Bits(o, 8, 4) = b8 + 2 * b9 + 4 * b10 + 8 * b11
  BY <1>7, <1>8
<1>26. Bits(o, 9, 2) = b9 + 2 * b10
  BY <1>7, <1>8
<1>27. Bits(o, 10, 2) = b10 + 2 * b11
  BY <1>7, <1>8
<1>28. Bits(o, 11, 5) = b11 + 2 * b12 + 4 * b13 + 8 * b14 + 16 * b15
  BY <1>7, <1>8
<1>29. Top4(o) = b12 + 2 * b13 + 4 * b14 + 8 * b15
  BY <1>7, <1>8
<1>30. Top6(o) = b10 + 2 * b11 + 4 * b12 + 8 * b13 + 16 * b14 + 32 * b15
  BY <1>7, <1>8
<1>31. Top7(o) = b9 + 2 * b10 + 4 * b11 + 8 * b12 + 16 * b13 + 32 * b14 + 64 * b15
  BY <1>7, <1>8
<1>32. Top8(o) = b8 + 2 * b9 + 4 * b10 + 8 * b11 + 16 * b12 + 32 * b13 + 64 * b14 + 128 * b15
  BY <1>7, <1>8
<1>33. o = b0 + 2 * b1 + 4 * b2 + 8 * b3 + 16 * b4 + 32 * b5 + 64 * b6 + 128 * b7 + 256 * b8
        + 512 * b9 + 1024 * b10 + 2048 * b11 + 4096 * b12 + 8192 * b13 + 16384 * b14
        + 32768 * b15
  BY <1>7, <1>3
<1>34. /\ Bit(o, 0) \in Int /\ Bit(o, 1) \in Int /\ Bit(o, 2) \in Int /\ Bit(o, 3) \in Int
       /\ Bit(o, 4) \in Int /\ Bit(o, 5) \in Int /\ Bit(o, 6) \in Int /\ Bit(o, 7) \in Int
       /\ Bit(o, 8) \in Int /\ Bit(o, 9) \in Int /\ Bit(o, 10) \in Int /\ Bit(o, 11) \in Int
       /\ Bit(o, 12) \in Int /\ Bit(o, 13) \in Int /\ Bit(o, 14) \in Int /\ Bit(o, 15) \in Int
  BY <1>4, <1>7
<1> QED BY <1>4, <1>9, <1>10, <1>11, <1>12, <1>13, <1>14, <1>15, <1>16, <1>17, <1>18,
     <1>19, <1>20, <1>21, <1>22, <1>23, <1>24, <1>25, <1>26, <1>27, <1>28, <1>29, <1>30,
     <1>31, <1>32, <1>33, <1>34

\* What is decoded is encoded back to the opcode.
Exact(o, d) == d.op # "ILLOP" /\ Encode(d) = o

\* The opcode from some of its fields.
LEMMA Regrouped ==
    ASSUME NEW o \in Words
    PROVE  /\ o = 1024 * Top6(o) + 512 * Bit(o, 9) + 16 * Bits(o, 4, 5) + Low4(o)
           /\ o = 512 * Top7(o) + 16 * Bits(o, 4, 5) + Low4(o)
           /\ o = 4096 * Top4(o) + 256 * Bits(o, 8, 4) + 16 * Bits(o, 4, 4) + Low4(o)
           /\ o = 2048 * Bits(o, 11, 5) + 512 * Bits(o, 9, 2) + 16 * Bits(o, 4, 5) + Low4(o)
           /\ o = 4096 * Top4(o) + Bits(o, 0, 12)
           /\ o = 256 * Top8(o) + 8 * Bits(o, 3, 5) + Bits(o, 0, 3)
           /\ o = 2048 * Bits(o, 11, 5) + 1024 * Bit(o, 10) + 8 * Bits(o, 3, 7) + Bits(o, 0, 3)
           /\ o = 512 * Top7(o) + 16 * Bits(o, 4, 5) + 8 * Bit(o, 3) + Bits(o, 0, 3)
           /\ o = 1024 * Top6(o) + 512 * Bit(o, 9) + 16 * Bits(o, 4, 5) + 4 * Bits(o, 2, 2)
                    + Bits(o, 0, 2)
           /\ o = 512 * Top7(o) + 256 * Bit(o, 8) + 64 * Bits(o, 6, 2) + 16 * Bits(o, 4, 2)
                    + Low4(o)
           /\ o = 256 * Top8(o) + 128 * Bit(o, 7) + 16 * Bits(o, 4, 3) + Low4(o)
           /\ o = 256 * Top8(o) + 16 * Bits(o, 4, 4) + Low4(o)
           /\ Top6(o) = 2 * Bits(o, 11, 5) + Bit(o, 10) /\ Top7(o) = 2 * Top6(o) + Bit(o, 9)
           /\ Top8(o) = 2 * Top7(o) + Bit(o, 8) /\ Bits(o, 11, 5) = 2 * Top4(o) + Bit(o, 11)
           /\ Top8(o) = 4 * Top6(o) + Bits(o, 8, 2)
           /\ Low4(o) = 8 * Bit(o, 3) + Bits(o, 0, 3) /\ Low4(o) = 4 * Bits(o, 2, 2) + Bits(o, 0, 2)
           /\ Top4(o) \in Nat /\ Bits(o, 11, 5) \in Nat /\ Top6(o) \in Nat
           /\ Top7(o) \in Nat /\ Top8(o) \in Nat
<1>1. o = 1024 * Top6(o) + 512 * Bit(o, 9) + 16 * Bits(o, 4, 5) + Low4(o)
  BY Spelled
<1>2. o = 512 * Top7(o) + 16 * Bits(o, 4, 5) + Low4(o)
  BY Spelled
<1>3. o = 4096 * Top4(o) + 256 * Bits(o, 8, 4) + 16 * Bits(o, 4, 4) + Low4(o)
  BY Spelled
<1>4. o = 2048 * Bits(o, 11, 5) + 512 * Bits(o, 9, 2) + 16 * Bits(o, 4, 5) + Low4(o)
  BY Spelled
<1>5. o = 4096 * Top4(o) + Bits(o, 0, 12)
  BY Spelled
<1>6. o = 256 * Top8(o) + 8 * Bits(o, 3, 5) + Bits(o, 0, 3)
  BY Spelled
<1>7. o = 2048 * Bits(o, 11, 5) + 1024 * Bit(o, 10) + 8 * Bits(o, 3, 7) + Bits(o, 0, 3)
  BY Spelled
<1>8. o = 512 * Top7(o) + 16 * Bits(o, 4, 5) + 8 * Bit(o, 3) + Bits(o, 0, 3)
  BY Spelled
<1>9. o = 1024 * Top6(o) + 512 * Bit(o, 9) + 16 * Bits(o, 4, 5) + 4 * Bits(o, 2, 2)
          + Bits(o, 0, 2)
  BY Spelled
<1>10. o = 512 * Top7(o) + 256 * Bit(o, 8) + 64 * Bits(o, 6, 2) + 16 * Bits(o, 4, 2)
          + Low4(o)
  BY Spelled
<1>11. o = 256 * Top8(o) + 128 * Bit(o, 7) + 16 * Bits(o, 4, 3) + Low4(o)
  BY Spelled
<1>12. o = 256 * Top8(o) + 16 * Bits(o, 4, 4) + Low4(o)
  BY Spelled
<1>13. /\ Top6(o) = 2 * Bits(o, 11, 5) + Bit(o, 10) /\ Top7(o) = 2 * Top6(o) + Bit(o, 9)
  BY Spelled
<1>14. /\ Top8(o) = 2 * Top7(o) + Bit(o, 8) /\ Bits(o, 11, 5) = 2 * Top4(o) + Bit(o, 11)
  BY Spelled
<1>15. Top8(o) = 4 * Top6(o) + Bits(o, 8, 2)
  BY Spelled
<1>16. /\ Low4(o) = 8 * Bit(o, 3) + Bits(o, 0, 3) /\ Low4(o) = 4 * Bits(o, 2, 2) + Bits(o, 0, 2)
  BY Spelled
<1>17. /\ Top4(o) \in Nat /\ Bits(o, 11, 5) \in Nat /\ Top6(o) \in Nat
       /\ Top7(o) \in Nat /\ Top8(o) \in Nat
  <2>1. o \in Nat
    BY WordsAre
  <2> QED BY <2>1, UpperFields
<1> QED BY <1>1, <1>2, <1>3, <1>4, <1>5, <1>6, <1>7, <1>8, <1>9, <1>10, <1>11,
          <1>12, <1>13, <1>14, <1>15, <1>16, <1>17

\* Two registers are put back where they were.
LEMMA TwoBack ==
    ASSUME NEW o \in Words, NEW d, d.op \in TwoRegisters, Base[d.op] = 1024 * Top6(o),
           d.D = Bits(o, 4, 5), d.R = Low4(o) + 16 * Bit(o, 9)
    PROVE  Exact(o, d)
<1>1. d.op # "ILLOP"
  BY OpFamilies
<1>2. Encode(d) = 1024 * Top6(o) + encode_rd(d.D) + encode_rr(d.R)
  BY EncodeIs
<1>3. Bits(o, 4, 5) \in 0 .. 31 /\ Low4(o) \in 0 .. 15 /\ Bit(o, 9) \in 0 .. 1
  BY OpcodeFields
<1>4. encode_rd(d.D) = 16 * Bits(o, 4, 5)
  BY <1>3 DEF encode_rd
<1>5. encode_rr(d.R) = Low4(o) + 512 * Bit(o, 9)
  <2> DEFINE r == Low4(o) + 16 * Bit(o, 9)
  <2>1. r \in Int /\ r % 16 = Low4(o) /\ (r \div 16) % 2 = Bit(o, 9)
    BY <1>3
  <2> HIDE DEF r
  <2>2. Bit(r, 4) = (r \div 16) % 2
    BY <2>1, Quotients
  <2> QED BY <2>1, <2>2 DEF encode_rr, r
<1>6. 1024 * Top6(o) + 16 * Bits(o, 4, 5) + (Low4(o) + 512 * Bit(o, 9)) = o
  BY <1>3, Regrouped
<1> QED BY <1>1, <1>2, <1>4, <1>5, <1>6 DEF Exact

\* The arithmetic of two registers, MUL aside.
LEMMA TwoOperandBack ==
    ASSUME NEW o \in Words, Top6(o) \in DOMAIN TwoOperand
    PROVE  Exact(o, Plain(TwoOperand[Top6(o)], o))
<1> DEFINE op == TwoOperand[Top6(o)]
           d == Plain(op, o)
<1>1. op \in TwoRegisters
  BY DEF TwoRegisters
<1>2. Base[op] = 1024 * Top6(o)
  <2>1. Top6(o) \in 1 .. 11
    BY DEF TwoOperand
  <2> DEFINE t == Top6(o)
  <2>2. <<t, op>> \in {<<1, "CPC">>, <<2, "SBC">>, <<3, "ADD">>, <<4, "CPSE">>, <<5, "CP">>,
                       <<6, "SUB">>, <<7, "ADC">>, <<8, "AND">>, <<9, "EOR">>, <<10, "OR">>,
                       <<11, "MOV">>}
    BY <2>1 DEF TwoOperand
  <2> HIDE DEF t, op
  <2>3. Base[op] = 1024 * t
    BY <2>2, BaseCodes
  <2> QED BY <2>3 DEF t
<1> HIDE DEF op
<1>3. d.op = op /\ d.D = Bits(o, 4, 5) /\ d.R = Low4(o) + 16 * Bit(o, 9)
  BY PlainHas, CommonHas
<1> HIDE DEF d
<1>4. Exact(o, d)
  BY <1>1, <1>2, <1>3, TwoBack
<1> QED BY <1>4 DEF d, op

\* MUL.
LEMMA MULBack ==
    ASSUME NEW o \in Words, Top6(o) = 39
    PROVE  Exact(o, Inst("MUL", [cycles |-> 2], o))
<1> DEFINE f == [cycles |-> 2]
           d == Inst("MUL", f, o)
<1>1. DOMAIN f = {"cycles"}
  OBVIOUS
<1> HIDE DEF f
<1>2. d.op = "MUL" /\ d["D"] = Common(o)["D"] /\ d["R"] = Common(o)["R"]
  BY <1>1, InstHas
<1>3. d.D = Bits(o, 4, 5) /\ d.R = Low4(o) + 16 * Bit(o, 9)
  BY <1>2, CommonHas
<1> HIDE DEF d
<1>4. d.op \in TwoRegisters /\ Base[d.op] = 1024 * Top6(o)
  BY <1>2, OpFamilies, BaseCodes
<1>5. Exact(o, d)
  BY <1>3, <1>4, TwoBack
<1> QED BY <1>5 DEF d, f

\* MOVW: pairs of registers.
LEMMA MOVWBack ==
    ASSUME NEW o \in Words, Top8(o) = 1
    PROVE  Exact(o, MOVW(o))
<1> DEFINE f == [D |-> 2 * Bits(o, 4, 4), R |-> 2 * Low4(o)]
           d == Inst("MOVW", f, o)
<1>1. d.op = "MOVW" /\ d.D = 2 * Bits(o, 4, 4) /\ d.R = 2 * Low4(o)
  BY InstHas
<1> HIDE DEF d
<1>2. Encode(d) = 256 + encode_4bit_rd(d.D \div 2) + (d.R \div 2)
  BY <1>1, EncodeIs, BaseCodes
<1>3. Bits(o, 4, 4) \in 0 .. 15 /\ Low4(o) \in 0 .. 15
  BY OpcodeFields
<1>4. encode_4bit_rd(d.D \div 2) = 16 * Bits(o, 4, 4) /\ d.R \div 2 = Low4(o)
  BY <1>1, <1>3 DEF encode_4bit_rd
<1>5. 256 + 16 * Bits(o, 4, 4) + Low4(o) = o
  BY <1>3, Regrouped
<1> QED BY <1>1, <1>2, <1>4, <1>5 DEF Exact, MOVW, d

\* The fields that OpcodeFields leaves out.
LEMMA MoreFields ==
    ASSUME NEW o \in Words
    PROVE  /\ Bit(o, 3) \in 0 .. 1 /\ Bit(o, 7) \in 0 .. 1 /\ Bit(o, 8) \in 0 .. 1
           /\ Bit(o, 11) \in 0 .. 1 /\ Bits(o, 2, 2) \in 0 .. 3 /\ Bits(o, 8, 2) \in 0 .. 3
<1>1. o \in Nat
  BY WordsAre
<1> QED BY <1>1, Powers DEF Bits, Bit

\* MULS, MULSU and the fractional products.
LEMMA MultiplyBack ==
    ASSUME NEW o \in Words, Top7(o) = 1
    PROVE  Exact(o, Multiply(o))
<1>1. /\ Bits(o, 4, 4) \in 0 .. 15 /\ Low4(o) \in 0 .. 15 /\ Bits(o, 4, 3) \in 0 .. 7
      /\ Bits(o, 0, 3) \in 0 .. 7 /\ Bit(o, 7) \in 0 .. 1 /\ Bit(o, 3) \in 0 .. 1
      /\ Bit(o, 8) \in 0 .. 1
  BY OpcodeFields, MoreFields
<1>2. Top8(o) = 2 + Bit(o, 8)
  BY Regrouped, <1>1
<1>3. CASE Top8(o) = 2
  <2> DEFINE f == [D |-> 16 + Bits(o, 4, 4), R |-> 16 + Low4(o), cycles |-> 2]
             d == Inst("MULS", f, o)
  <2>1. d.op = "MULS" /\ d.D = 16 + Bits(o, 4, 4) /\ d.R = 16 + Low4(o)
    BY InstHas
  <2>2. Multiply(o) = d
    BY <1>3 DEF Multiply
  <2> HIDE DEF d
  <2>3. Encode(d) = 512 + encode_4bit_rd(d.D) + (d.R % 16)
    BY <2>1, EncodeIs, BaseCodes
  <2>4. encode_4bit_rd(d.D) = 16 * Bits(o, 4, 4) /\ d.R % 16 = Low4(o)
    BY <1>1, <2>1 DEF encode_4bit_rd
  <2>5. 512 + 16 * Bits(o, 4, 4) + Low4(o) = o
    BY <1>1, <1>3, Regrouped
  <2> QED BY <2>1, <2>2, <2>3, <2>4, <2>5 DEF Exact
<1>4. CASE Top8(o) # 2
  <2> DEFINE s == Bit(o, 7)
             v == Bit(o, 3)
             op == CASE s = 0 /\ v = 0 -> "MULSU" [] s = 0 /\ v = 1 -> "FMUL"
                     [] s = 1 /\ v = 0 -> "FMULS" [] OTHER -> "FMULSU"
             f == [D |-> 16 + Bits(o, 4, 3), R |-> 16 + Bits(o, 0, 3), cycles |-> 2]
             d == Inst(op, f, o)
  <2>1. Multiply(o) = d
    BY <1>4 DEF Multiply
  <2>2. <<s, v, op>> \in {<<0, 0, "MULSU">>, <<0, 1, "FMUL">>, <<1, 0, "FMULS">>,
                          <<1, 1, "FMULSU">>}
    BY <1>1
  <2> HIDE DEF op
  <2>3. d.op = op /\ d.D = 16 + Bits(o, 4, 3) /\ d.R = 16 + Bits(o, 0, 3)
    BY InstHas
  <2> HIDE DEF d, s, v
  <2>4. op \in {"MULSU", "FMUL", "FMULS", "FMULSU"} /\ Base[op] = 768 + 8 * v + 128 * s
    BY <2>2, BaseCodes
  <2>5. Encode(d) = 768 + 8 * v + 128 * s + 16 * (d.D % 8) + (d.R % 8)
    BY <2>3, <2>4, EncodeIs
  <2>6. d.D % 8 = Bits(o, 4, 3) /\ d.R % 8 = Bits(o, 0, 3)
    BY <1>1, <2>3
  <2>7. 768 + 8 * v + 128 * s + 16 * Bits(o, 4, 3) + Bits(o, 0, 3) = o
    <3>1. o = 256 * Top8(o) + 128 * Bit(o, 7) + 16 * Bits(o, 4, 3) + Low4(o)
      BY Regrouped
    <3>2. Low4(o) = 8 * Bit(o, 3) + Bits(o, 0, 3) /\ Top8(o) = 3
      BY <1>1, <1>2, <1>4, Regrouped
    <3> QED BY <1>1, <3>1, <3>2 DEF s, v
  <2> QED BY <2>1, <2>3, <2>4, <2>5, <2>6, <2>7 DEF Exact
<1> QED BY <1>3, <1>4

\* Operands as they stand in the opcode are put back where they were.
LEMMA Operands ==
    ASSUME NEW o \in Words
    PROVE  /\ encode_rd(Bits(o, 4, 5)) = 16 * Bits(o, 4, 5)
           /\ encode_4bit_rd(16 + Bits(o, 4, 4)) = 16 * Bits(o, 4, 4)
           /\ encode_rr(Low4(o) + 16 * Bit(o, 9)) = Low4(o) + 512 * Bit(o, 9)
           /\ encode_rr(Bits(o, 0, 4) + 16 * Bit(o, 9)) = Low4(o) + 512 * Bit(o, 9)
<1>1. /\ Bits(o, 4, 5) \in 0 .. 31 /\ Bits(o, 4, 4) \in 0 .. 15 /\ Low4(o) \in 0 .. 15
      /\ Bit(o, 9) \in 0 .. 1
  BY OpcodeFields
<1>2. /\ encode_rd(Bits(o, 4, 5)) = 16 * Bits(o, 4, 5)
      /\ encode_4bit_rd(16 + Bits(o, 4, 4)) = 16 * Bits(o, 4, 4)
  BY <1>1 DEF encode_rd, encode_4bit_rd
<1>3. encode_rr(Low4(o) + 16 * Bit(o, 9)) = Low4(o) + 512 * Bit(o, 9)
  <2> DEFINE r == Low4(o) + 16 * Bit(o, 9)
  <2>1. r \in Int /\ r % 16 = Low4(o) /\ (r \div 16) % 2 = Bit(o, 9)
    BY <1>1
  <2> HIDE DEF r
  <2>2. Bit(r, 4) = (r \div 16) % 2
    BY <2>1, Quotients
  <2> QED BY <2>1, <2>2 DEF encode_rr, r
<1> QED BY <1>2, <1>3 DEF Low4

\* A register and an immediate.
LEMMA WithImmediateBack ==
    ASSUME NEW o \in Words, Top4(o) \in DOMAIN Immediate
    PROVE  Exact(o, WithImmediate(o))
<1> DEFINE t == Top4(o)
           op == Immediate[t]
           f == [D |-> 16 + Bits(o, 4, 4)]
           d == Inst(op, f, o)
           x == Low4(o) + 16 * Bits(o, 8, 4)
           k == Signed(x, 8)
<1>1. <<t, op>> \in {<<3, "CPI">>, <<4, "SBCI">>, <<5, "SUBI">>, <<6, "ORI">>, <<7, "ANDI">>,
                     <<14, "LDI">>}
  BY DEF Immediate
<1>2. WithImmediate(o) = d
  BY DEF WithImmediate
<1> HIDE DEF op
<1>3. d.op = op /\ d.D = 16 + Bits(o, 4, 4) /\ d.K = k
  <2>1. DOMAIN f = {"D"} /\ f["D"] = 16 + Bits(o, 4, 4)
    OBVIOUS
  <2> HIDE DEF f
  <2>2. d["op"] = op /\ d["D"] = f["D"] /\ d["K"] = Common(o)["K"]
    BY <2>1, InstHas
  <2> QED BY <2>1, <2>2, CommonHas
<1> HIDE DEF d, t
<1>4. op \in Immediates /\ Base[op] = 4096 * t
  BY <1>1, OpFamilies, BaseCodes
<1>5. Encode(d) = 4096 * t + encode_4bit_rd(d.D) + encode_k(k)
  BY <1>3, <1>4, EncodeIs
<1>6. Bits(o, 8, 4) \in 0 .. 15 /\ Low4(o) \in 0 .. 15 /\ Bits(o, 4, 4) \in 0 .. 15
  BY OpcodeFields
<1>7. k \in Int /\ k % 16 = Low4(o) /\ (k \div 16) % 16 = Bits(o, 8, 4)
  <2>1. Signed(x, 8) = IF x >= 128 THEN x - 256 ELSE x
    BY Powers DEF Signed
  <2> QED BY <1>6, <2>1
<1> HIDE DEF k
<1>8. encode_k(k) = Low4(o) + 256 * Bits(o, 8, 4)
  <2>1. k \in Int
    BY <1>7
  <2>2. Bits(k, 4, 4) = (k \div 16) % 16
    BY <2>1, Quotients
  <2> QED BY <1>7, <2>2 DEF encode_k
<1>9. encode_4bit_rd(d.D) = 16 * Bits(o, 4, 4)
  BY <1>3, Operands
<1>10. 4096 * t + 16 * Bits(o, 4, 4) + (Low4(o) + 256 * Bits(o, 8, 4)) = o
  BY <1>1, <1>6, Regrouped DEF t
<1>11. op # "ILLOP"
  BY <1>1
<1> QED BY <1>2, <1>3, <1>5, <1>8, <1>9, <1>10, <1>11 DEF Exact

\* LDD and STD: the six bits of the displacement lie in three places.
LEMMA DisplacedBack ==
    ASSUME NEW o \in Words, Top4(o) \in {8, 10}
    PROVE  Exact(o, Displaced(o))
<1> DEFINE s == Bit(o, 9)
           y == Bit(o, 3)
           op == IF s = 1 THEN "STD" ELSE "LDD"
           k == Bits(o, 0, 3) + 8 * Bits(o, 10, 2) + 32 * Bit(o, 13)
           r == IF y = 1 THEN "RY" ELSE "RZ"
           f == [K |-> k, ireg |-> r, cycles |-> 2]
           d == Inst(op, f, o)
<1>1. Displaced(o) = d
  BY DEF Displaced
<1>2. /\ s \in 0 .. 1 /\ y \in 0 .. 1 /\ Bits(o, 0, 3) \in 0 .. 7 /\ Bits(o, 10, 2) \in 0 .. 3
      /\ Bit(o, 13) \in 0 .. 1 /\ Bits(o, 4, 5) \in 0 .. 31
  BY OpcodeFields, MoreFields
<1>3. op \in {"LDD", "STD"} /\ Base[op] = 32768 + 512 * s
  BY <1>2, BaseCodes
<1>4. Pointer(r) = 8 * y
  BY <1>2 DEF Pointer
<1>5. k \in Int /\ k % 8 = Bits(o, 0, 3) /\ (k \div 8) % 4 = Bits(o, 10, 2)
      /\ (k \div 32) % 2 = Bit(o, 13)
  BY <1>2
<1> HIDE DEF op, k, r
<1>6. d.op = op /\ d.K = k /\ d.ireg = r /\ d.D = Bits(o, 4, 5)
  <2>1. DOMAIN f = {"K", "ireg", "cycles"} /\ f["K"] = k /\ f["ireg"] = r
    OBVIOUS
  <2> HIDE DEF f
  <2>2. d["op"] = op /\ d["K"] = f["K"] /\ d["ireg"] = f["ireg"] /\ d["D"] = Common(o)["D"]
    BY <2>1, InstHas
  <2> QED BY <2>1, <2>2, CommonHas
<1> HIDE DEF d
<1>7. Encode(d) = 32768 + 512 * s + encode_rd(d.D) + 8 * y + (k % 8)
                    + 1024 * Bits(k, 3, 2) + 8192 * Bit(k, 5)
  BY <1>3, <1>4, <1>6, EncodeIs
<1>8. Bits(k, 3, 2) = Bits(o, 10, 2) /\ Bit(k, 5) = Bit(o, 13)
  <2>1. k \in Int
    BY <1>5
  <2>2. Bits(k, 3, 2) = (k \div 8) % 4 /\ Bit(k, 5) = (k \div 32) % 2
    BY <2>1, Quotients
  <2> QED BY <1>5, <2>2
<1>9. encode_rd(d.D) = 16 * Bits(o, 4, 5)
  BY <1>6, Operands
<1>10. 32768 + 512 * s + 16 * Bits(o, 4, 5) + 8 * y + Bits(o, 0, 3)
         + 1024 * Bits(o, 10, 2) + 8192 * Bit(o, 13) = o
  <2>1. /\ o = 1024 * Top6(o) + 512 * Bit(o, 9) + 16 * Bits(o, 4, 5) + Low4(o)
        /\ Low4(o) = 8 * Bit(o, 3) + Bits(o, 0, 3)
    BY Regrouped
  <2>2. Top6(o) = 4 * Top4(o) + Bits(o, 10, 2)
    BY Spelled
  <2>3. Top4(o) = 8 + 2 * Bit(o, 13)
    <3>1. o \in Nat /\ o <= 65535 /\ Top4(o) = o \div 4096
      BY WordsAre, UpperFields
    <3>2. Bit(o, 13) = (o \div 8192) % 2
      BY <3>1, Quotients
    <3> QED BY <3>1, <3>2
  <2> QED BY <1>2, <2>1, <2>2, <2>3 DEF s, y
<1>11. d.op # "ILLOP"
  BY <1>3, <1>6
<1> QED BY <1>1, <1>5, <1>7, <1>8, <1>9, <1>10, <1>11 DEF Exact

\* The opcodes without operands.
BareCodes == {0, 37897, 37913, 38153, 38169, 38152, 38168, 38280, 38296, 38312, 38344}

\* Where the opcodes that an assembler can write are.
Placed(o) ==
    \/ Top6(o) \in (1 .. 11) \cup {39}
    \/ Top7(o) \in {72, 73} /\ Low4(o) \in {0, 15}
    \/ Top7(o) = 74 /\ Low4(o) \in {0, 1, 2, 3, 5, 6, 7, 10}
    \/ Top4(o) \in {3, 4, 5, 6, 7, 12, 13, 14}
    \/ Top7(o) \in 124 .. 127 /\ Bit(o, 3) = 0
    \/ Top8(o) \in 152 .. 155
    \/ Bits(o, 11, 5) \in {22, 23, 30}
    \/ o \in BareCodes

\* No assembler writes an opcode anywhere else.
LEMMA AssembledPlaced ==
    ASSUME NEW o \in Words, Assembled(o)
    PROVE  Placed(o)
<1> DEFINE rd == encode_rd(Bits(o, 4, 5))
           rr == encode_rr(Bits(o, 0, 4) + 16 * Bit(o, 9))
<1>1. rd = 16 * Bits(o, 4, 5) /\ rr = Low4(o) + 512 * Bit(o, 9)
  BY Operands
<1>2. \/ \E op \in TwoRegisters : o - (rd + rr) = Base[op]
      \/ \E op \in OneRegister : o - rd = Base[op]
      \/ \E op \in Immediates \cup {"RJMP", "RCALL"} : o - Bits(o, 0, 12) = Base[op]
      \/ \E op \in RegisterBits : o - (rd + Bits(o, 0, 3)) = Base[op]
      \/ \E op \in IoBits : o - Bits(o, 0, 8) = Base[op]
      \/ \E op \in {"IN", "OUT"} : o - (rd + Low4(o) + 512 * Bits(o, 9, 2)) = Base[op]
      \/ \E op \in {"BRx"} : o - Bits(o, 0, 11) = Base[op]
      \/ \E op \in Bare : o - 0 = Base[op]
  BY DEF Assembled
<1> HIDE DEF rd, rr
<1>3. /\ o \in Nat /\ Bits(o, 4, 5) \in 0 .. 31 /\ Low4(o) \in 0 .. 15 /\ Bit(o, 9) \in 0 .. 1
      /\ Bits(o, 0, 12) \in Nat /\ Bits(o, 0, 12) < 4096 /\ Bits(o, 0, 3) \in 0 .. 7
      /\ Bits(o, 9, 2) \in 0 .. 3 /\ Bit(o, 3) \in 0 .. 1 /\ Bit(o, 11) \in 0 .. 1
  BY WordsAre, OpcodeFields, MoreFields
<1>4. /\ Top4(o) \in Nat /\ Bits(o, 11, 5) \in Nat /\ Top6(o) \in Nat /\ Top7(o) \in Nat
      /\ Top8(o) \in Nat
  BY Regrouped
<1>5. CASE \E op \in TwoRegisters : o - (rd + rr) = Base[op]
  <2>1. PICK op \in TwoRegisters : o - (rd + rr) = Base[op]
    BY <1>5
  <2>2. o = 1024 * Top6(o) + 512 * Bit(o, 9) + 16 * Bits(o, 4, 5) + Low4(o)
    BY Regrouped
  <2>3. Base[op] = 1024 * Top6(o)
    BY <1>1, <1>3, <1>4, <2>1, <2>2
  <2>4. Base[op] \in {1024, 2048, 3072, 4096, 5120, 6144, 7168, 8192, 9216, 10240, 11264, 39936}
    BY OpFamilies, BaseCodes
  <2>5. Top6(o) \in (1 .. 11) \cup {39}
    BY <1>4, <2>3, <2>4
  <2> QED BY <2>5 DEF Placed
<1>6. CASE \E op \in OneRegister : o - rd = Base[op]
  <2>1. PICK op \in OneRegister : o - rd = Base[op]
    BY <1>6
  <2>2. o = 512 * Top7(o) + 16 * Bits(o, 4, 5) + Low4(o)
    BY Regrouped
  <2>3. Base[op] = 512 * Top7(o) + Low4(o)
    BY <1>1, <1>3, <1>4, <2>1, <2>2
  <2>4. Base[op] \in {37888, 37889, 37890, 37891, 37893, 37894, 37895, 37898, 37391, 36879,
                      36864, 37376}
    BY BaseCodes DEF OneRegister
  <2>5. \/ Top7(o) \in {72, 73} /\ Low4(o) \in {0, 15}
        \/ Top7(o) = 74 /\ Low4(o) \in {0, 1, 2, 3, 5, 6, 7, 10}
    BY <1>3, <1>4, <2>3, <2>4
  <2> QED BY <2>5 DEF Placed
<1>7. CASE \E op \in Immediates \cup {"RJMP", "RCALL"} : o - Bits(o, 0, 12) = Base[op]
  <2>1. PICK op \in Immediates \cup {"RJMP", "RCALL"} : o - Bits(o, 0, 12) = Base[op]
    BY <1>7
  <2>2. o = 4096 * Top4(o) + Bits(o, 0, 12)
    BY Regrouped
  <2>3. Base[op] = 4096 * Top4(o)
    BY <1>3, <1>4, <2>1, <2>2
  <2>4. Base[op] \in {20480, 16384, 28672, 24576, 12288, 57344, 49152, 53248}
    BY OpFamilies, BaseCodes
  <2>5. Top4(o) \in {3, 4, 5, 6, 7, 12, 13, 14}
    BY <1>4, <2>3, <2>4
  <2> QED BY <2>5 DEF Placed
<1>8. CASE \E op \in RegisterBits : o - (rd + Bits(o, 0, 3)) = Base[op]
  <2>1. PICK op \in RegisterBits : o - (rd + Bits(o, 0, 3)) = Base[op]
    BY <1>8
  <2>2. o = 512 * Top7(o) + 16 * Bits(o, 4, 5) + 8 * Bit(o, 3) + Bits(o, 0, 3)
    BY Regrouped
  <2>3. Base[op] = 512 * Top7(o) + 8 * Bit(o, 3)
    BY <1>1, <1>3, <1>4, <2>1, <2>2
  <2>4. Base[op] \in {64512, 65024, 63488, 64000}
    BY BaseCodes DEF RegisterBits
  <2>5. Top7(o) \in 124 .. 127 /\ Bit(o, 3) = 0
    BY <1>3, <1>4, <2>3, <2>4
  <2> QED BY <2>5 DEF Placed
<1>9. CASE \E op \in IoBits : o - Bits(o, 0, 8) = Base[op]
  <2>1. PICK op \in IoBits : o - Bits(o, 0, 8) = Base[op]
    BY <1>9
  <2>2. o = 256 * Top8(o) + Bits(o, 0, 8) /\ Bits(o, 0, 8) \in Int
    BY Spelled
  <2>3. Base[op] = 256 * Top8(o)
    BY <1>3, <1>4, <2>1, <2>2
  <2>4. Base[op] \in {39168, 39680, 38912, 39424}
    BY BaseCodes DEF IoBits
  <2>5. Top8(o) \in 152 .. 155
    BY <1>4, <2>3, <2>4
  <2> QED BY <2>5 DEF Placed
<1>10. CASE \E op \in {"IN", "OUT"} : o - (rd + Low4(o) + 512 * Bits(o, 9, 2)) = Base[op]
  <2>1. PICK op \in {"IN", "OUT"} : o - (rd + Low4(o) + 512 * Bits(o, 9, 2)) = Base[op]
    BY <1>10
  <2>2. o = 2048 * Bits(o, 11, 5) + 512 * Bits(o, 9, 2) + 16 * Bits(o, 4, 5) + Low4(o)
    BY Regrouped
  <2>3. Base[op] = 2048 * Bits(o, 11, 5)
    BY <1>1, <1>3, <1>4, <2>1, <2>2
  <2>4. Base[op] \in {45056, 47104}
    BY BaseCodes
  <2>5. Bits(o, 11, 5) \in {22, 23, 30}
    BY <1>4, <2>3, <2>4
  <2> QED BY <2>5 DEF Placed
<1>11. CASE \E op \in {"BRx"} : o - Bits(o, 0, 11) = Base[op]
  <2>1. o - Bits(o, 0, 11) = 61440
    BY <1>11, BaseCodes
  <2>2. o = 2048 * Bits(o, 11, 5) + Bits(o, 0, 11) /\ Bits(o, 0, 11) \in Int
    BY Spelled
  <2>3. Bits(o, 11, 5) = 30
    BY <1>4, <2>1, <2>2
  <2> QED BY <2>3 DEF Placed
<1>12. CASE \E op \in Bare : o - 0 = Base[op]
  <2>1. PICK op \in Bare : o - 0 = Base[op]
    BY <1>12
  <2>2. Base[op] \in BareCodes
    BY BaseCodes DEF Bare, BareCodes
  <2>3. o \in BareCodes
    BY <1>3, <2>1, <2>2
  <2> QED BY <2>3 DEF Placed
<1> QED BY <1>2, <1>5, <1>6, <1>7, <1>8, <1>9, <1>10, <1>11, <1>12

\* An instruction is the one its opcode was assembled from; an opcode that is
\* refused is no assembler's.
Refused(o, d) == d.op = "ILLOP" /\ ~Assembled(o)

\* Anything else may be refused.
LEMMA ILLOPBack ==
    ASSUME NEW o \in Words, ~Placed(o)
    PROVE  Refused(o, ILLOP(o))
<1>1. ILLOP(o).op = "ILLOP"
  BY InstHas DEF ILLOP
<1> QED BY <1>1, AssembledPlaced DEF Refused

\* In the lowest 256 opcodes only NOP is one.
LEMMA LowestRefused ==
    ASSUME NEW o \in Words, o # 0, Top8(o) = 0
    PROVE  ~Placed(o)
<1>1. o \in Nat /\ o <= 255
  BY WordsAre, UpperFields
<1>2. /\ Top4(o) = 0 /\ Bits(o, 11, 5) = 0 /\ Top6(o) = 0 /\ Top7(o) = 0
  BY <1>1, UpperFields
<1> QED BY <1>1, <1>2 DEF Placed, BareCodes

\* Loads and stores have no fourth mode, and there is no store to the program
\* beside SPM.
LEMMA LoadStoreRefused ==
    ASSUME NEW o \in Words, Top6(o) = 36, Low4(o) \notin {0, 15}
    PROVE  ~Placed(o)
<1>1. o \in Nat /\ Top6(o) = o \div 1024
  BY WordsAre, UpperFields
<1>2. o < 37888 /\ o > 0
  BY <1>1
<1>3. /\ Bit(o, 9) \in 0 .. 1 /\ Bit(o, 10) \in 0 .. 1 /\ Bit(o, 8) \in 0 .. 1
      /\ Bit(o, 11) \in 0 .. 1 /\ Bits(o, 8, 2) \in 0 .. 3
  BY OpcodeFields, MoreFields
<1>4. /\ Top4(o) \in Nat /\ Bits(o, 11, 5) \in Nat /\ Top7(o) \in Nat /\ Top8(o) \in Nat
      /\ 36 = 2 * Bits(o, 11, 5) + Bit(o, 10) /\ Top7(o) = 72 + Bit(o, 9)
      /\ Top8(o) = 144 + Bits(o, 8, 2) /\ Bits(o, 11, 5) = 2 * Top4(o) + Bit(o, 11)
  BY <1>3, Regrouped
<1>5. /\ Top4(o) = 9 /\ Bits(o, 11, 5) = 18 /\ Top7(o) \in {72, 73} /\ Top8(o) \in 144 .. 147
  BY <1>3, <1>4
<1>6. o \notin BareCodes
  BY <1>2 DEF BareCodes
<1> QED BY <1>5, <1>6 DEF Placed

\* Of the instructions without operands, and those with one register.
LEMMA Group94Refused ==
    ASSUME NEW o \in Words, Top7(o) = 74, Low4(o) \notin {0, 1, 2, 3, 5, 6, 7, 10},
           o \notin BareCodes
    PROVE  ~Placed(o)
<1>1. /\ Bit(o, 10) \in 0 .. 1 /\ Bit(o, 9) \in 0 .. 1 /\ Bit(o, 8) \in 0 .. 1
      /\ Bit(o, 11) \in 0 .. 1
  BY OpcodeFields, MoreFields
<1>2. /\ Top4(o) \in Nat /\ Bits(o, 11, 5) \in Nat /\ Top6(o) \in Nat /\ Top8(o) \in Nat
      /\ Top6(o) = 2 * Bits(o, 11, 5) + Bit(o, 10) /\ 74 = 2 * Top6(o) + Bit(o, 9)
      /\ Top8(o) = 148 + Bit(o, 8) /\ Bits(o, 11, 5) = 2 * Top4(o) + Bit(o, 11)
  BY <1>1, Regrouped
<1>3. Top6(o) = 37 /\ Bits(o, 11, 5) = 18 /\ Top4(o) = 9 /\ Top8(o) \in 148 .. 149
  BY <1>1, <1>2
<1> QED BY <1>3 DEF Placed

\* BLD and BST with bit 3 set.
LEMMA RegisterBitRefused ==
    ASSUME NEW o \in Words, Top6(o) = 62, Bit(o, 3) # 0
    PROVE  ~Placed(o)
<1>1. o \in Nat /\ Top6(o) = o \div 1024
  BY WordsAre, UpperFields
<1>2. o >= 63488
  BY <1>1
<1>3. /\ Bit(o, 9) \in 0 .. 1 /\ Bit(o, 10) \in 0 .. 1 /\ Bit(o, 8) \in 0 .. 1
      /\ Bit(o, 11) \in 0 .. 1 /\ Bits(o, 8, 2) \in 0 .. 3
  BY OpcodeFields, MoreFields
<1>4. /\ Top4(o) \in Nat /\ Bits(o, 11, 5) \in Nat /\ Top7(o) \in Nat /\ Top8(o) \in Nat
      /\ 62 = 2 * Bits(o, 11, 5) + Bit(o, 10) /\ Top7(o) = 124 + Bit(o, 9)
      /\ Top8(o) = 248 + Bits(o, 8, 2) /\ Bits(o, 11, 5) = 2 * Top4(o) + Bit(o, 11)
  BY <1>3, Regrouped
<1>5. /\ Top4(o) = 15 /\ Bits(o, 11, 5) = 31 /\ Top7(o) \in {124, 125} /\ Top8(o) \in 248 .. 251
  BY <1>3, <1>4
<1>6. o \notin BareCodes
  BY <1>2 DEF BareCodes
<1> QED BY <1>5, <1>6 DEF Placed

\* Loads and stores through a pointer, and LPM and ELPM to a register.
LEMMA LoadStoreBack ==
    ASSUME NEW o \in Words, Top6(o) = 36, Low4(o) \notin {0, 15}
    PROVE  Exact(o, LoadStore(o)) \/ Refused(o, LoadStore(o))
<1> DEFINE low   == Bits(o, 0, 2)
           group == Bits(o, 2, 2)
           s     == Bit(o, 9)
           op    == CASE low = 0 -> (IF s = 1 THEN "ST" ELSE "LD")
                      [] low = 1 -> (IF s = 1 THEN "ST2" ELSE "LD2")
                      [] low = 2 -> (IF s = 1 THEN "ST3" ELSE "LD3")
                      [] OTHER -> "ILLOP"
           r     == CASE group = 0 -> "RZ" [] group = 2 -> "RY" [] OTHER -> "RX"
           name  == IF low < 2 THEN "LPMen" ELSE "ELPM"
           pf    == [mode |-> 2 + (low % 2), cycles |-> 3]
           rf    == [mode |-> low + 1, ireg |-> r, cycles |-> 2]
           program == Inst(name, pf, o)
           pointer == Inst(op, rf, o)
<1>1. LoadStore(o) = CASE group = 1 /\ s = 1 -> ILLOP(o)
                       [] group = 1 /\ s # 1 -> program
                       [] group # 1 /\ op = "ILLOP" -> ILLOP(o)
                       [] OTHER -> pointer
  BY DEF LoadStore
<1>2. Refused(o, ILLOP(o))
  BY LoadStoreRefused, ILLOPBack
<1>3. low \in 0 .. 3 /\ group \in 0 .. 3 /\ s \in 0 .. 1 /\ Bits(o, 4, 5) \in 0 .. 31
  BY OpcodeFields, MoreFields
<1>4. o = 36864 + 512 * s + 16 * Bits(o, 4, 5) + 4 * group + low
  BY <1>3, Regrouped
<1>5. ASSUME group = 1, s # 1 PROVE Exact(o, program)
  <2>1. <<low, name>> \in {<<0, "LPMen">>, <<1, "LPMen">>, <<2, "ELPM">>, <<3, "ELPM">>}
    BY <1>3
  <2> HIDE DEF name
  <2>2. program.op = name /\ program.mode = 2 + (low % 2) /\ program.D = Bits(o, 4, 5)
    <3>1. DOMAIN pf = {"mode", "cycles"} /\ pf["mode"] = 2 + (low % 2)
      OBVIOUS
    <3> HIDE DEF pf
    <3>2. program["op"] = name /\ program["mode"] = pf["mode"] /\ program["D"] = Common(o)["D"]
      BY <3>1, InstHas
    <3> QED BY <3>1, <3>2, CommonHas
  <2> HIDE DEF program
  <2>3. encode_rd(program.D) = 16 * Bits(o, 4, 5)
    BY <2>2, Operands
  <2>4. CASE name = "LPMen"
    <3>1. Encode(program) = 36868 + encode_rd(program.D) + program.mode - 2
      BY <2>2, <2>4, EncodeIs, BaseCodes
    <3>2. low % 2 = low
      BY <1>3, <2>1, <2>4
    <3> QED BY <1>3, <1>4, <1>5, <2>2, <2>3, <2>4, <3>1, <3>2 DEF Exact
  <2>5. CASE name = "ELPM"
    <3>1. 2 + (low % 2) = low /\ low # 1
      BY <1>3, <2>1, <2>5
    <3>2. Encode(program) = 36868 + encode_rd(program.D) + program.mode
      BY <2>2, <2>5, <3>1, EncodeIs, BaseCodes
    <3> QED BY <1>3, <1>4, <1>5, <2>2, <2>3, <2>5, <3>1, <3>2 DEF Exact
  <2> QED BY <2>1, <2>4, <2>5
<1>6. ASSUME group # 1, op # "ILLOP" PROVE Exact(o, pointer)
  <2>1. <<low, s, op>> \in {<<0, 0, "LD">>, <<1, 0, "LD2">>, <<2, 0, "LD3">>,
                            <<0, 1, "ST">>, <<1, 1, "ST2">>, <<2, 1, "ST3">>}
    <3> HIDE DEF low, s
    <3> QED BY <1>3, <1>6
  <2>2. Pointer(r) = 4 * group
    BY <1>3, <1>6 DEF Pointer
  <2> HIDE DEF op, r
  <2>3. /\ pointer.op = op /\ pointer.mode = low + 1 /\ pointer.ireg = r
        /\ pointer.D = Bits(o, 4, 5)
    <3>1. DOMAIN rf = {"mode", "ireg", "cycles"} /\ rf["mode"] = low + 1 /\ rf["ireg"] = r
      OBVIOUS
    <3> HIDE DEF rf
    <3>2. /\ pointer["op"] = op /\ pointer["mode"] = rf["mode"] /\ pointer["ireg"] = rf["ireg"]
          /\ pointer["D"] = Common(o)["D"]
      BY <3>1, InstHas
    <3> QED BY <3>1, <3>2, CommonHas
  <2> HIDE DEF pointer
  <2>4. encode_rd(pointer.D) = 16 * Bits(o, 4, 5)
    BY <2>3, Operands
  <2>5. Encode(pointer) = 36864 + 512 * s + encode_rd(pointer.D) + Pointer(pointer.ireg)
                            + pointer.mode - 1
    <3>1. CASE s = 0
      BY <2>1, <2>3, <3>1, <2>4, <1>3, EncodeIs, BaseCodes
    <3>2. CASE s = 1
      BY <2>1, <2>3, <3>2, <2>4, <1>3, EncodeIs, BaseCodes
    <3> QED BY <1>3, <3>1, <3>2
  <2> QED BY <1>3, <1>4, <1>6, <2>2, <2>3, <2>4, <2>5 DEF Exact
<1> HIDE DEF program, pointer, op
<1> QED BY <1>1, <1>2, <1>5, <1>6

\* An instruction that sets no register of its own, of one register.
LEMMA OneRegisterBack ==
    ASSUME NEW o \in Words, NEW d, d.op \in OneRegister, d.D = Bits(o, 4, 5),
           Base[d.op] = 512 * Top7(o) + Low4(o)
    PROVE  Exact(o, d)
<1>1. d.op # "ILLOP"
  BY DEF OneRegister
<1>2. Encode(d) = 512 * Top7(o) + Low4(o) + 16 * Bits(o, 4, 5)
  BY EncodeIs, Operands
<1>3. Low4(o) \in 0 .. 15 /\ Bits(o, 4, 5) \in 0 .. 31
  BY OpcodeFields
<1>4. o = 512 * Top7(o) + 16 * Bits(o, 4, 5) + Low4(o)
  BY Regrouped
<1>5. Top7(o) \in Nat
  BY Regrouped
<1>6. 512 * Top7(o) + Low4(o) + 16 * Bits(o, 4, 5) = o
  BY <1>3, <1>4, <1>5
<1> QED BY <1>1, <1>2, <1>6 DEF Exact

\* LDS, STS, PUSH and POP beside them.
LEMMA MemoryBack ==
    ASSUME NEW o \in Words, NEW next, Top6(o) = 36
    PROVE  Exact(o, Memory(o, next)) \/ Refused(o, Memory(o, next))
<1> DEFINE s == Bit(o, 9)
           direct == IF s = 1 THEN "STS" ELSE "LDS"
           stack  == IF s = 1 THEN "PUSH" ELSE "POP"
           df == [AL |-> next, wsize |-> 2, cycles |-> 2]
           sf == [cycles |-> 2]
           D == Inst(direct, df, o)
           S == Inst(stack, sf, o)
<1>1. Memory(o, next) = CASE Low4(o) = 0 -> D [] Low4(o) = 15 -> S [] OTHER -> LoadStore(o)
  BY DEF Memory
<1>2. s \in 0 .. 1
  BY OpcodeFields
<1>3. Top7(o) = 72 + s
  BY Regrouped
<1>4. /\ direct \in OneRegister /\ Base[direct] = 36864 + 512 * s
      /\ stack \in OneRegister /\ Base[stack] = 36879 + 512 * s
  BY <1>2, BaseCodes DEF OneRegister
<1> HIDE DEF direct, stack
<1>5. D.op = direct /\ D.D = Bits(o, 4, 5)
  <2>1. DOMAIN df = {"AL", "wsize", "cycles"}
    OBVIOUS
  <2> HIDE DEF df
  <2>2. D["op"] = direct /\ D["D"] = Common(o)["D"]
    BY <2>1, InstHas
  <2> QED BY <2>2, CommonHas
<1>6. S.op = stack /\ S.D = Bits(o, 4, 5)
  <2>1. DOMAIN sf = {"cycles"}
    OBVIOUS
  <2> HIDE DEF sf
  <2>2. S["op"] = stack /\ S["D"] = Common(o)["D"]
    BY <2>1, InstHas
  <2> QED BY <2>2, CommonHas
<1> HIDE DEF D, S, s
<1>7. Low4(o) = 0 => Exact(o, D)
  <2> SUFFICES ASSUME Low4(o) = 0 PROVE Exact(o, D)
    OBVIOUS
  <2>1. Base[D.op] = 512 * Top7(o) + Low4(o)
    BY <1>2, <1>3, <1>4, <1>5
  <2>2. D.op \in OneRegister
    BY <1>4, <1>5
  <2> QED BY <1>5, <2>1, <2>2, OneRegisterBack
<1>8. Low4(o) = 15 => Exact(o, S)
  <2> SUFFICES ASSUME Low4(o) = 15 PROVE Exact(o, S)
    OBVIOUS
  <2>1. Base[S.op] = 512 * Top7(o) + Low4(o)
    BY <1>2, <1>3, <1>4, <1>6
  <2>2. S.op \in OneRegister
    BY <1>4, <1>6
  <2> QED BY <1>6, <2>1, <2>2, OneRegisterBack
<1>9. Low4(o) \notin {0, 15} => Exact(o, LoadStore(o)) \/ Refused(o, LoadStore(o))
  BY LoadStoreBack
<1> QED BY <1>1, <1>7, <1>8, <1>9

\* An instruction without operands.
LEMMA BareBack ==
    ASSUME NEW o, NEW d, d.op \in Bare, Base[d.op] = o
    PROVE  Exact(o, d)
<1>1. d.op # "ILLOP"
  BY DEF Bare
<1> QED BY <1>1, EncodeIs DEF Exact

\* RET, RETI, SLEEP, BREAK, WDR, LPM, ELPM and SPM.
LEMMA MiscBack ==
    ASSUME NEW o \in Words, Top8(o) = 149, Low4(o) = 8
    PROVE  Exact(o, Misc(o)) \/ Refused(o, Misc(o))
<1> DEFINE what == Bits(o, 4, 4)
           ret == [cycles |-> 4]
           one == [mode |-> 1]
           spm == [mode |-> what - 13]
<1>1. Misc(o) = CASE what = 0 -> Inst("RET", ret, o)
                  [] what = 1 -> Inst("RETI", ret, o)
                  [] what = 8 -> Plain("SLEEP", o)
                  [] what = 9 -> Plain("BREAK", o)
                  [] what = 10 -> Plain("WDR", o)
                  [] what = 12 -> Inst("LPM", one, o)
                  [] what = 13 -> Inst("ELPM", one, o)
                  [] what \in {14, 15} -> Inst("SPM", spm, o)
                  [] OTHER -> ILLOP(o)
  BY DEF Misc
<1>2. what \in 0 .. 15
  BY OpcodeFields
<1>3. o = 38152 + 16 * what
  BY <1>2, Regrouped
<1>4. DOMAIN ret = {"cycles"} /\ DOMAIN one = {"mode"} /\ one["mode"] = 1
      /\ DOMAIN spm = {"mode"} /\ spm["mode"] = what - 13
  OBVIOUS
<1> HIDE DEF ret, one, spm, what
<1>5. /\ Inst("RET", ret, o).op = "RET" /\ Inst("RETI", ret, o).op = "RETI"
      /\ Inst("LPM", one, o).op = "LPM"
  BY <1>4, InstHas
<1>6. /\ Plain("SLEEP", o).op = "SLEEP" /\ Plain("BREAK", o).op = "BREAK"
      /\ Plain("WDR", o).op = "WDR"
  BY PlainHas
<1>7. what = 0 => Exact(o, Inst("RET", ret, o))
  BY <1>3, <1>5, BareBack, BaseCodes DEF Bare
<1>8. what = 1 => Exact(o, Inst("RETI", ret, o))
  BY <1>3, <1>5, BareBack, BaseCodes DEF Bare
<1>9. what = 8 => Exact(o, Plain("SLEEP", o))
  BY <1>3, <1>6, BareBack, BaseCodes DEF Bare
<1>10. what = 9 => Exact(o, Plain("BREAK", o))
  BY <1>3, <1>6, BareBack, BaseCodes DEF Bare
<1>11. what = 10 => Exact(o, Plain("WDR", o))
  BY <1>3, <1>6, BareBack, BaseCodes DEF Bare
<1>12. what = 12 => Exact(o, Inst("LPM", one, o))
  BY <1>3, <1>5, BareBack, BaseCodes DEF Bare
<1>13. what = 13 => Exact(o, Inst("ELPM", one, o))
  <2> DEFINE d == Inst("ELPM", one, o)
  <2>1. d.op = "ELPM" /\ d.mode = 1
    BY <1>4, InstHas
  <2> HIDE DEF d
  <2>2. Encode(d) = 38360
    BY <2>1, EncodeIs, BaseCodes
  <2> QED BY <1>3, <2>1, <2>2 DEF Exact, d
<1>14. what \in {14, 15} => Exact(o, Inst("SPM", spm, o))
  <2> DEFINE d == Inst("SPM", spm, o)
  <2>1. d.op = "SPM" /\ d.mode = what - 13
    BY <1>4, InstHas
  <2> HIDE DEF d
  <2>2. Encode(d) = 38376 + 16 * (what - 13 - 1)
    BY <2>1, EncodeIs, BaseCodes
  <2> QED BY <1>3, <2>1, <2>2 DEF Exact, d
<1>15. what \notin {0, 1, 8, 9, 10, 12, 13, 14, 15} => Refused(o, ILLOP(o))
  <2> SUFFICES ASSUME what \in {2, 3, 4, 5, 6, 7, 11} PROVE Refused(o, ILLOP(o))
    BY <1>2
  <2>1. o \notin BareCodes
    BY <1>3 DEF BareCodes
  <2>2. Top7(o) = 74
    <3>1. o \div 512 = 74 /\ o \in Nat
      BY <1>3
    <3> QED BY <3>1, UpperFields
  <2>3. ~Placed(o)
    BY <2>1, <2>2, Group94Refused
  <2> QED BY <2>3, ILLOPBack
<1> QED BY <1>1, <1>2, <1>7, <1>8, <1>9, <1>10, <1>11, <1>12, <1>13, <1>14, <1>15

\* JMP and CALL, with the high bits of the address.
LEMMA AbsoluteBack ==
    ASSUME NEW o \in Words, NEW next \in Words, NEW cycles, NEW op, Top7(o) = 74,
           \/ op = "JMP" /\ Low4(o) \in {12, 13}
           \/ op = "CALL" /\ Low4(o) \in {14, 15}
    PROVE  Exact(o, Absolute(op, cycles, o, next))
<1> DEFINE b == Bit(o, 0)
           a == Bits(o, 4, 5)
           al == (b + 2 * a) * 65536 + next
           f == [AL |-> al, wsize |-> 2, cycles |-> cycles]
           d == Inst(op, f, o)
<1>1. Absolute(op, cycles, o, next) = d
  BY DEF Absolute
<1>2. b \in 0 .. 1 /\ a \in 0 .. 31 /\ Low4(o) \in 0 .. 15 /\ next \in Nat /\ next <= 65535
  BY OpcodeFields, WordsAre
<1>3. al \in Int /\ (al \div 65536) % 2 = b /\ (al \div 131072) % 32 = a
  <2> HIDE DEF a, b
  <2>1. al \div 65536 = b + 2 * a /\ al \div 131072 = a /\ al \in Int
    BY <1>2
  <2> QED BY <1>2, <2>1
<1> HIDE DEF al
<1>4. encode_al(al) = b + 16 * a
  <2>1. 2^1 = 2 /\ 2^5 = 32 /\ 2^16 = 65536 /\ 2^17 = 131072
    OBVIOUS
  <2>2. Bit(al, 16) = b /\ Bits(al, 17, 5) = a
    BY <1>3, <2>1 DEF Bit, Bits
  <2> QED BY <2>2 DEF encode_al
<1>5. d.op = op /\ d.AL = al
  BY InstHas
<1> HIDE DEF d
<1>6. Encode(d) = Base[op] + (b + 16 * a)
  BY <1>4, <1>5, EncodeIs
<1>7. Base[op] + b = 37888 + Low4(o)
  <2>1. b = Low4(o) % 2
    <3>1. o \in Nat
      BY WordsAre
    <3>2. Bit(o, 0) = o % 2 /\ Low4(o) = o % 16
      BY <3>1, Quotients
    <3> QED BY <3>1, <3>2
  <2>2. /\ op = "JMP" => Base[op] = 37900
        /\ op = "CALL" => Base[op] = 37902
    BY BaseCodes
  <2> HIDE DEF b
  <2> QED BY <2>1, <2>2
<1>8. o = 37888 + 16 * a + Low4(o)
  BY <1>2, Regrouped
<1>9. Base[op] \in Nat
  BY BaseCodes
<1>10. Encode(d) = o
  BY <1>2, <1>6, <1>7, <1>8, <1>9
<1> QED BY <1>1, <1>5, <1>10 DEF Exact

\* Everything from the one-register instructions to JMP and CALL.
LEMMA Group94Back ==
    ASSUME NEW o \in Words, NEW next \in Words, Top7(o) = 74
    PROVE  Exact(o, Group94(o, next)) \/ Refused(o, Group94(o, next))
<1> DEFINE low == Low4(o)
           s == Bit(o, 7)
           one == OneOperand[Bits(o, 0, 3)]
           flag == IF s = 1 THEN "CLx" ELSE "SEx"
           ff == [R |-> Bits(o, 4, 3)]
           two == [cycles |-> 2]
           three == [cycles |-> 3]
           four == [cycles |-> 4]
           F == Inst(flag, ff, o)
<1>1. Group94(o, next) =
          CASE low < 8 /\ one # "ILLOP" -> Plain(one, o)
            [] low = 8 /\ Top8(o) = 148 -> F
            [] low = 8 /\ Top8(o) = 149 -> Misc(o)
            [] low \in {12, 13} -> Absolute("JMP", 3, o, next)
            [] low \in {14, 15} -> Absolute("CALL", 4, o, next)
            [] o = 37897 -> Inst("IJMP", two, o)
            [] o = 37913 -> Inst("EIJMP", two, o)
            [] o = 38153 -> Inst("ICALL", three, o)
            [] o = 38169 -> Inst("EICALL", four, o)
            [] IsDEC(o) -> Plain("DEC", o)
            [] OTHER -> ILLOP(o)
  BY DEF Group94
<1>2. /\ low \in 0 .. 15 /\ Bits(o, 0, 3) \in 0 .. 7 /\ Bit(o, 3) \in 0 .. 1
      /\ s \in 0 .. 1 /\ Bits(o, 4, 3) \in 0 .. 7 /\ Bit(o, 8) \in 0 .. 1
  BY OpcodeFields, MoreFields
<1>3. low = 8 * Bit(o, 3) + Bits(o, 0, 3) /\ Top8(o) = 148 + Bit(o, 8)
  BY Regrouped
<1>4. low < 8 => \/ low = 4 /\ one = "ILLOP"
                 \/ one \in OneRegister /\ Base[one] = 37888 + low
  <2> SUFFICES ASSUME low < 8 PROVE \/ low = 4 /\ one = "ILLOP"
                                    \/ one \in OneRegister /\ Base[one] = 37888 + low
    OBVIOUS
  <2>1. Bits(o, 0, 3) = low
    BY <1>2, <1>3
  <2>2. <<low, one>> \in {<<0, "COM">>, <<1, "NEG">>, <<2, "SWAP">>, <<3, "INC">>, <<4, "ILLOP">>,
                          <<5, "ASR">>, <<6, "LSR">>, <<7, "ROR">>}
    BY <1>2, <2>1 DEF OneOperand
  <2> HIDE DEF low, one
  <2> QED BY <2>2, BaseCodes DEF OneRegister
<1>5. low < 8 /\ one # "ILLOP" => Exact(o, Plain(one, o))
  <2> SUFFICES ASSUME low < 8, one # "ILLOP" PROVE Exact(o, Plain(one, o))
    OBVIOUS
  <2> DEFINE d == Plain(one, o)
  <2>1. one \in OneRegister /\ Base[one] = 512 * Top7(o) + Low4(o)
    BY <1>4
  <2> HIDE DEF one
  <2>2. d.op = one /\ d.D = Bits(o, 4, 5)
    BY PlainHas, CommonHas
  <2> HIDE DEF d
  <2>3. Exact(o, d)
    BY <2>1, <2>2, OneRegisterBack
  <2> QED BY <2>3 DEF d
<1>6. low = 8 /\ Top8(o) = 148 => Exact(o, F)
  <2> SUFFICES ASSUME low = 8, Top8(o) = 148 PROVE Exact(o, F)
    OBVIOUS
  <2>1. flag \in {"SEx", "CLx"} /\ Base[flag] = 37896 + 128 * s
    BY <1>2, BaseCodes
  <2> HIDE DEF flag
  <2>2. F.op = flag /\ F.R = Bits(o, 4, 3)
    BY InstHas
  <2> HIDE DEF F
  <2>3. Encode(F) = 37896 + 128 * s + 16 * Bits(o, 4, 3)
    BY <2>1, <2>2, EncodeIs
  <2>4. o = 256 * 148 + 128 * s + 16 * Bits(o, 4, 3) + 8
    BY Regrouped
  <2> QED BY <1>2, <2>1, <2>2, <2>3, <2>4 DEF Exact
<1>7. low = 8 /\ Top8(o) = 149 => Exact(o, Misc(o)) \/ Refused(o, Misc(o))
  BY MiscBack
<1>8. /\ low \in {12, 13} => Exact(o, Absolute("JMP", 3, o, next))
      /\ low \in {14, 15} => Exact(o, Absolute("CALL", 4, o, next))
  BY AbsoluteBack
<1>9. /\ o = 37897 => Exact(o, Inst("IJMP", two, o))
      /\ o = 37913 => Exact(o, Inst("EIJMP", two, o))
      /\ o = 38153 => Exact(o, Inst("ICALL", three, o))
      /\ o = 38169 => Exact(o, Inst("EICALL", four, o))
  <2>1. DOMAIN two = {"cycles"} /\ DOMAIN three = {"cycles"} /\ DOMAIN four = {"cycles"}
    OBVIOUS
  <2> HIDE DEF two, three, four
  <2>2. /\ Inst("IJMP", two, o).op = "IJMP" /\ Inst("EIJMP", two, o).op = "EIJMP"
        /\ Inst("ICALL", three, o).op = "ICALL" /\ Inst("EICALL", four, o).op = "EICALL"
    BY <2>1, InstHas
  <2> QED BY <2>2, BareBack, BaseCodes DEF Bare
<1>10. IsDEC(o) => Exact(o, Plain("DEC", o))
  <2> SUFFICES ASSUME Low4(o) = 10 PROVE Exact(o, Plain("DEC", o))
    BY DEF IsDEC
  <2> DEFINE d == Plain("DEC", o)
  <2>1. d.op = "DEC" /\ d.D = Bits(o, 4, 5)
    BY PlainHas, CommonHas
  <2> HIDE DEF d
  <2>2. d.op \in OneRegister /\ Base[d.op] = 512 * Top7(o) + Low4(o)
    BY <2>1, BaseCodes DEF OneRegister
  <2>3. Exact(o, d)
    BY <2>1, <2>2, OneRegisterBack
  <2> QED BY <2>3 DEF d
<1>11. ASSUME ~(low < 8 /\ one # "ILLOP"), low # 8, low \notin 12 .. 15,
              o \notin {37897, 37913, 38153, 38169}, ~IsDEC(o)
       PROVE  Refused(o, ILLOP(o))
  <2>1. low \in {4, 9, 11}
    <3>1. low # 10
      BY <1>11 DEF IsDEC
    <3>2. low < 8 => low = 4
      <4> SUFFICES ASSUME low < 8 PROVE low = 4
        OBVIOUS
      <4>1. one = "ILLOP"
        BY <1>11
      <4> HIDE DEF one
      <4> QED BY <1>4, <4>1 DEF OneRegister
    <3> QED BY <1>2, <1>11, <3>1, <3>2
  <2>2. o \notin BareCodes
    <3>1. Low4(o) = o % 16 /\ o \in Nat
      <4>1. o \in Nat
        BY WordsAre
      <4>2. Bit(o, 0) = o % 2 /\ Low4(o) = o % 16
        BY <4>1, Quotients
      <4> QED BY <4>1, <4>2
    <3> QED BY <1>11, <2>1, <3>1 DEF BareCodes
  <2> QED BY <2>1, <2>2, Group94Refused, ILLOPBack
<1>12. ~(low = 8 /\ Top8(o) = 148) /\ ~(low = 8 /\ Top8(o) = 149) => low # 8
  BY <1>2, <1>3
<1> HIDE DEF low, one, F, two, three, four
<1> QED BY <1>1, <1>5, <1>6, <1>7, <1>8, <1>9, <1>10, <1>11, <1>12

\* ADIW and SBIW.
LEMMA WordImmediateBack ==
    ASSUME NEW o \in Words, Top7(o) = 75
    PROVE  Exact(o, WordImmediate(o))
<1> DEFINE s == Bit(o, 8)
           p == Bits(o, 4, 2)
           op == IF s = 1 THEN "SBIW" ELSE "ADIW"
           k == Low4(o) + 16 * Bits(o, 6, 2)
           r == Pairs[p + 1]
           f == [K |-> k, ireg |-> r, cycles |-> 2]
           d == Inst(op, f, o)
<1>1. WordImmediate(o) = d
  BY DEF WordImmediate
<1>2. /\ s \in 0 .. 1 /\ p \in 0 .. 3 /\ Low4(o) \in 0 .. 15 /\ Bits(o, 6, 2) \in 0 .. 3
  BY OpcodeFields, MoreFields
<1>3. op \in {"ADIW", "SBIW"} /\ Base[op] = 38400 + 256 * s
  BY <1>2, BaseCodes
<1>4. PairNumber(r) = p
  <2>1. <<p, r>> \in {<<0, "RW">>, <<1, "RX">>, <<2, "RY">>, <<3, "RZ">>}
    BY <1>2 DEF Pairs
  <2> HIDE DEF p, r
  <2> QED BY <2>1 DEF PairNumber
<1>5. k \in Int /\ k % 16 = Low4(o) /\ (k \div 16) % 4 = Bits(o, 6, 2)
  BY <1>2
<1> HIDE DEF op, k, r
<1>6. d.op = op /\ d.K = k /\ d.ireg = r
  BY InstHas
<1> HIDE DEF d
<1>7. encode_6bit_k(k) = Low4(o) + 64 * Bits(o, 6, 2)
  <2>1. k \in Int
    BY <1>5
  <2>2. Bits(k, 4, 2) = (k \div 16) % 4
    BY <2>1, Quotients
  <2> QED BY <1>5, <2>2 DEF encode_6bit_k
<1>8. Encode(d) = 38400 + 256 * s + 16 * p + (Low4(o) + 64 * Bits(o, 6, 2))
  BY <1>3, <1>4, <1>6, <1>7, EncodeIs
<1>9. o = 512 * 75 + 256 * s + 64 * Bits(o, 6, 2) + 16 * p + Low4(o)
  BY Regrouped
<1>10. Encode(d) = o
  BY <1>2, <1>8, <1>9
<1>11. d.op # "ILLOP"
  BY <1>3, <1>6
<1> QED BY <1>1, <1>10, <1>11 DEF Exact

\* CBI, SBI, SBIC and SBIS.
LEMMA IoBitBack ==
    ASSUME NEW o \in Words, Top6(o) = 38
    PROVE  Exact(o, IoBit(o))
<1> DEFINE f == [A |-> Bits(o, 3, 5), R |-> Bits(o, 0, 3)]
           cycles == [cycles |-> 2]
           ff == Over(f, cycles)
           w == Bits(o, 8, 2)
<1>1. Bits(o, 3, 5) \in 0 .. 31 /\ Bits(o, 0, 3) \in 0 .. 7 /\ w \in 0 .. 3
  BY OpcodeFields, MoreFields
<1>2. DOMAIN f = {"A", "R"} /\ f["A"] = Bits(o, 3, 5) /\ f["R"] = Bits(o, 0, 3)
  OBVIOUS
<1>3. DOMAIN cycles = {"cycles"}
  OBVIOUS
<1>4. IoBit(o) = CASE w = 0 -> Inst("CBI", ff, o)
                   [] w = 1 -> Inst("SBIC", f, o)
                   [] w = 2 -> Inst("SBI", ff, o)
                   [] OTHER -> Inst("SBIS", f, o)
  BY DEF IoBit
<1> HIDE DEF f, cycles
<1>5. DOMAIN ff = {"A", "R", "cycles"} /\ ff["A"] = Bits(o, 3, 5) /\ ff["R"] = Bits(o, 0, 3)
  BY <1>2, <1>3 DEF Over
<1> HIDE DEF ff
<1>6. o = 38912 + 256 * w + 8 * Bits(o, 3, 5) + Bits(o, 0, 3)
  <2>1. Top8(o) = 152 + w /\ Top8(o) \in Nat
    BY Regrouped
  <2>2. o = 256 * Top8(o) + 8 * Bits(o, 3, 5) + Bits(o, 0, 3)
    BY Regrouped
  <2> QED BY <1>1, <2>1, <2>2
<1>7. ASSUME NEW op \in IoBits, NEW g \in {f, ff}, Base[op] = 38912 + 256 * w
      PROVE  Exact(o, Inst(op, g, o))
  <2> DEFINE d == Inst(op, g, o)
  <2>1. "op" \notin DOMAIN g /\ g["A"] = Bits(o, 3, 5) /\ g["R"] = Bits(o, 0, 3)
        /\ "A" \in DOMAIN g /\ "R" \in DOMAIN g
    BY <1>2, <1>5
  <2>2. d["op"] = op /\ d["A"] = g["A"] /\ d["R"] = g["R"]
    BY <2>1, InstHas
  <2> HIDE DEF d
  <2>3. Encode(d) = Base[op] + 8 * d.A + d.R
    BY <2>2, EncodeIs
  <2>4. op # "ILLOP"
    BY DEF IoBits
  <2>5. Encode(d) = o
    BY <1>1, <1>6, <1>7, <2>1, <2>2, <2>3
  <2> QED BY <2>2, <2>4, <2>5 DEF Exact, d
<1>8. "CBI" \in IoBits /\ "SBIC" \in IoBits /\ "SBI" \in IoBits /\ "SBIS" \in IoBits
  BY DEF IoBits
<1> HIDE DEF w
<1>9. w = 0 => Exact(o, Inst("CBI", ff, o))
  BY <1>7, <1>8, BaseCodes
<1>10. w = 1 => Exact(o, Inst("SBIC", f, o))
  BY <1>7, <1>8, BaseCodes
<1>11. w = 2 => Exact(o, Inst("SBI", ff, o))
  BY <1>7, <1>8, BaseCodes
<1>12. w = 3 => Exact(o, Inst("SBIS", f, o))
  BY <1>7, <1>8, BaseCodes
<1> QED BY <1>1, <1>4, <1>9, <1>10, <1>11, <1>12

\* IN and OUT.
LEMMA InOutBack ==
    ASSUME NEW o \in Words, Top4(o) = 11
    PROVE  Exact(o, InOut(o))
<1> DEFINE s == Bit(o, 11)
           op == IF s = 1 THEN "OUT" ELSE "IN"
           a == Low4(o) + 16 * Bits(o, 9, 2)
           f == [A |-> a]
           d == Inst(op, f, o)
<1>1. InOut(o) = d
  BY DEF InOut
<1>2. s \in 0 .. 1 /\ Low4(o) \in 0 .. 15 /\ Bits(o, 9, 2) \in 0 .. 3 /\ Bits(o, 4, 5) \in 0 .. 31
  BY OpcodeFields, MoreFields
<1>3. op \in {"IN", "OUT"} /\ Base[op] = 45056 + 2048 * s
  BY <1>2, BaseCodes
<1>4. a \in Int /\ a % 16 = Low4(o) /\ (a \div 16) % 4 = Bits(o, 9, 2)
  BY <1>2
<1> HIDE DEF op, a
<1>5. d.op = op /\ d.A = a /\ d.D = Bits(o, 4, 5)
  <2>1. DOMAIN f = {"A"} /\ f["A"] = a
    OBVIOUS
  <2> HIDE DEF f
  <2>2. d["op"] = op /\ d["A"] = f["A"] /\ d["D"] = Common(o)["D"]
    BY <2>1, InstHas
  <2> QED BY <2>1, <2>2, CommonHas
<1> HIDE DEF d
<1>6. Bits(a, 4, 2) = Bits(o, 9, 2)
  <2>1. a \in Int
    BY <1>4
  <2>2. Bits(a, 4, 2) = (a \div 16) % 4
    BY <2>1, Quotients
  <2> QED BY <1>4, <2>2
<1>7. encode_rd(d.D) = 16 * Bits(o, 4, 5)
  BY <1>5, Operands
<1>8. Encode(d) = 45056 + 2048 * s + 16 * Bits(o, 4, 5) + Low4(o) + 512 * Bits(o, 9, 2)
  BY <1>3, <1>4, <1>5, <1>6, <1>7, EncodeIs
<1>9. /\ o = 2048 * Bits(o, 11, 5) + 512 * Bits(o, 9, 2) + 16 * Bits(o, 4, 5) + Low4(o)
      /\ Bits(o, 11, 5) = 22 + s
  BY Regrouped
<1>10. Encode(d) = o
  BY <1>2, <1>8, <1>9
<1>11. d.op # "ILLOP"
  BY <1>3, <1>5
<1> QED BY <1>1, <1>10, <1>11 DEF Exact

\* A signed field is put back as it was.
LEMMA Unsigned ==
    /\ \A x \in Nat : x < 128 => Signed(x, 7) \in Int /\ Signed(x, 7) % 128 = x
    /\ \A x \in Nat : x < 4096 => Signed(x, 12) \in Int /\ Signed(x, 12) % 4096 = x
<1>1. /\ \A x \in Nat : Signed(x, 7) = IF x >= 64 THEN x - 128 ELSE x
      /\ \A x \in Nat : Signed(x, 12) = IF x >= 2048 THEN x - 4096 ELSE x
  BY Powers DEF Signed
<1> QED BY <1>1

\* RJMP and RCALL.
LEMMA RelativeBack ==
    ASSUME NEW o \in Words, NEW cycles, NEW op,
           \/ op = "RJMP" /\ Top4(o) = 12
           \/ op = "RCALL" /\ Top4(o) = 13
    PROVE  Exact(o, Relative(op, cycles, o))
<1> DEFINE x == Bits(o, 0, 12)
           a == Signed(x, 12)
           f == [A |-> a, cycles |-> cycles]
           d == Inst(op, f, o)
<1>1. Relative(op, cycles, o) = d
  BY DEF Relative
<1>2. x \in Nat /\ x < 4096
  BY OpcodeFields
<1>3. a % 4096 = x
  BY <1>2, Unsigned
<1> HIDE DEF a
<1>4. d.op = op /\ d.A = a
  BY InstHas
<1> HIDE DEF d
<1>5. Encode(d) = Base[op] + x
  BY <1>3, <1>4, EncodeIs
<1>6. Base[op] = 4096 * Top4(o)
  BY BaseCodes
<1>7. o = 4096 * Top4(o) + x
  BY Regrouped
<1> QED BY <1>1, <1>4, <1>5, <1>6, <1>7 DEF Exact

\* The branches on a flag.
LEMMA BranchBack ==
    ASSUME NEW o \in Words, Bits(o, 11, 5) = 30
    PROVE  Exact(o, Branch(o))
<1> DEFINE x == Bits(o, 3, 7)
           k == Signed(x, 7)
           f == [R |-> Bits(o, 0, 3), D |-> 1 - Bit(o, 10), K |-> k]
           d == Inst("BRx", f, o)
<1>1. Branch(o) = d
  BY DEF Branch
<1>2. x \in Nat /\ x < 128 /\ Bits(o, 0, 3) \in 0 .. 7 /\ Bit(o, 10) \in 0 .. 1
  BY OpcodeFields
<1>3. k % 128 = x
  BY <1>2, Unsigned
<1> HIDE DEF k
<1>4. d.op = "BRx" /\ d.R = Bits(o, 0, 3) /\ d.D = 1 - Bit(o, 10) /\ d.K = k
  BY InstHas
<1> HIDE DEF d
<1>5. Encode(d) = 61440 + 1024 * (1 - (1 - Bit(o, 10))) + 8 * x + Bits(o, 0, 3)
  BY <1>3, <1>4, EncodeIs, BaseCodes
<1>6. o = 2048 * 30 + 1024 * Bit(o, 10) + 8 * x + Bits(o, 0, 3)
  BY Regrouped
<1> HIDE DEF x
<1>7. Encode(d) = o
  BY <1>2, <1>5, <1>6
<1> QED BY <1>1, <1>4, <1>7 DEF Exact

\* SBRC and SBRS with bit 3 set are decoded as without it.
LEMMA RegisterBitBack ==
    ASSUME NEW o \in Words, Bits(o, 11, 5) = 31
    PROVE  \/ Exact(o, RegisterBit(o)) \/ Refused(o, RegisterBit(o))
           \/ Tolerated(o) /\ RegisterBit(o).op # "ILLOP"
<1> DEFINE s == Bit(o, 9)
           f == [R |-> Bits(o, 0, 3)]
           transfer == IF s = 1 THEN "BST" ELSE "BLD"
           skip == IF s = 1 THEN "SBRS" ELSE "SBRC"
<1>1. RegisterBit(o) =
          CASE Top6(o) = 62 /\ Bit(o, 3) = 0 -> Inst(transfer, f, o)
            [] Top6(o) = 63 -> Inst(skip, f, o)
            [] OTHER -> ILLOP(o)
  BY DEF RegisterBit
<1>2. /\ s \in 0 .. 1 /\ Bit(o, 10) \in 0 .. 1 /\ Bit(o, 3) \in 0 .. 1
      /\ Bits(o, 0, 3) \in 0 .. 7 /\ Bits(o, 4, 5) \in 0 .. 31
  BY OpcodeFields, MoreFields
<1>3. Top6(o) = 62 \/ Top6(o) = 63
  <2>1. Top6(o) = 62 + Bit(o, 10)
    BY Regrouped
  <2> QED BY <1>2, <2>1
<1>4. /\ transfer \in RegisterBits /\ Base[transfer] = 63488 + 512 * s
      /\ skip \in RegisterBits /\ Base[skip] = 64512 + 512 * s
  BY <1>2, BaseCodes DEF RegisterBits
<1> HIDE DEF transfer, skip
<1>5. ASSUME NEW op \in RegisterBits, Base[op] = 1024 * Top6(o) + 512 * s
      PROVE  /\ Inst(op, f, o).op # "ILLOP"
             /\ Bit(o, 3) = 0 => Exact(o, Inst(op, f, o))
  <2> DEFINE d == Inst(op, f, o)
  <2>1. d.op = op /\ d.R = Bits(o, 0, 3) /\ d.D = Bits(o, 4, 5)
    <3>1. DOMAIN f = {"R"} /\ f["R"] = Bits(o, 0, 3)
      OBVIOUS
    <3> HIDE DEF f
    <3>2. d["op"] = op /\ d["R"] = f["R"] /\ d["D"] = Common(o)["D"]
      BY <3>1, InstHas
    <3> QED BY <3>1, <3>2, CommonHas
  <2> HIDE DEF d
  <2>2. op # "ILLOP"
    BY DEF RegisterBits
  <2>3. Encode(d) = 1024 * Top6(o) + 512 * s + 16 * Bits(o, 4, 5) + Bits(o, 0, 3)
    <3>1. Encode(d) = Base[d.op] + encode_rd(d.D) + d.R
      BY <2>1, EncodeIs
    <3> QED BY <1>5, <2>1, <3>1, Operands
  <2>4. /\ o = 1024 * Top6(o) + 512 * s + 16 * Bits(o, 4, 5) + Low4(o)
        /\ Low4(o) = 8 * Bit(o, 3) + Bits(o, 0, 3) /\ Top6(o) \in Nat
    BY Regrouped
  <2>5. Bit(o, 3) = 0 => Encode(d) = o
    BY <1>2, <2>3, <2>4
  <2> QED BY <2>1, <2>2, <2>5 DEF Exact, d
<1>6. Top6(o) = 62 => Exact(o, Inst(transfer, f, o)) \/ Bit(o, 3) # 0
  <2> SUFFICES ASSUME Top6(o) = 62 PROVE Exact(o, Inst(transfer, f, o)) \/ Bit(o, 3) # 0
    OBVIOUS
  <2>1. Base[transfer] = 1024 * Top6(o) + 512 * s
    BY <1>4
  <2> QED BY <1>4, <1>5, <2>1
<1>7. Top6(o) = 63 => /\ Inst(skip, f, o).op # "ILLOP"
                      /\ Bit(o, 3) = 0 => Exact(o, Inst(skip, f, o))
  <2> SUFFICES ASSUME Top6(o) = 63
               PROVE  /\ Inst(skip, f, o).op # "ILLOP"
                      /\ Bit(o, 3) = 0 => Exact(o, Inst(skip, f, o))
    OBVIOUS
  <2>1. Base[skip] = 1024 * Top6(o) + 512 * s
    BY <1>4
  <2> QED BY <1>4, <1>5, <2>1
<1>8. Top6(o) = 62 /\ Bit(o, 3) # 0 => Refused(o, ILLOP(o))
  BY RegisterBitRefused, ILLOPBack
<1>9. Top6(o) = 63 /\ Bit(o, 3) # 0 => Tolerated(o)
  BY <1>2 DEF Tolerated
<1> HIDE DEF f
<1>10. CASE Top6(o) = 62
  BY <1>1, <1>6, <1>8, <1>10
<1>11. CASE Top6(o) = 63
  BY <1>1, <1>7, <1>9, <1>11
<1> QED BY <1>3, <1>10, <1>11

\* Whatever the opcode and the word after it.
LEMMA DecodeBack ==
    ASSUME NEW o \in Words, NEW next \in Words
    PROVE  \/ Exact(o, Decode(o, next)) \/ Refused(o, Decode(o, next))
           \/ Tolerated(o) /\ Decode(o, next).op # "ILLOP"
<1> DEFINE two == [cycles |-> 2]
           Kept(d) == \/ Exact(o, d)
                      \/ Refused(o, d)
                      \/ Tolerated(o) /\ d.op # "ILLOP"
<1>1. Decode(o, next) =
          CASE o = 0 -> Plain("NOP", o)
            [] o # 0 /\ Top8(o) = 0 -> ILLOP(o)
            [] Top8(o) = 1 -> MOVW(o)
            [] Top7(o) = 1 -> Multiply(o)
            [] Top6(o) \in DOMAIN TwoOperand -> Plain(TwoOperand[Top6(o)], o)
            [] Top4(o) \in DOMAIN Immediate -> WithImmediate(o)
            [] Top4(o) \in {8, 10} -> Displaced(o)
            [] Top6(o) = 36 -> Memory(o, next)
            [] Top7(o) = 74 -> Group94(o, next)
            [] Top7(o) = 75 -> WordImmediate(o)
            [] Top6(o) = 38 -> IoBit(o)
            [] Top6(o) = 39 -> Inst("MUL", two, o)
            [] Top4(o) = 11 -> InOut(o)
            [] Top4(o) = 12 -> Relative("RJMP", 2, o)
            [] Top4(o) = 13 -> Relative("RCALL", 3, o)
            [] Bits(o, 11, 5) = 30 -> Branch(o)
            [] Bits(o, 11, 5) = 31 -> RegisterBit(o)
  BY DEF Decode
<1>2. o = 0 => Kept(Plain("NOP", o))
  <2>1. Plain("NOP", o).op = "NOP"
    BY PlainHas
  <2> QED BY <2>1, BareBack, BaseCodes DEF Bare
<1>3. o # 0 /\ Top8(o) = 0 => Kept(ILLOP(o))
  BY LowestRefused, ILLOPBack
<1>4. (Top8(o) = 1 => Kept(MOVW(o))) /\ (Top7(o) = 1 => Kept(Multiply(o)))
  BY MOVWBack, MultiplyBack
<1>5. /\ Top6(o) \in DOMAIN TwoOperand => Kept(Plain(TwoOperand[Top6(o)], o))
      /\ Top6(o) = 39 => Kept(Inst("MUL", two, o))
  BY TwoOperandBack, MULBack
<1>6. /\ Top4(o) \in DOMAIN Immediate => Kept(WithImmediate(o))
      /\ Top4(o) \in {8, 10} => Kept(Displaced(o))
  BY WithImmediateBack, DisplacedBack
<1>7. /\ Top6(o) = 36 => Kept(Memory(o, next))
      /\ Top7(o) = 74 => Kept(Group94(o, next))
  BY MemoryBack, Group94Back
<1>8. /\ Top7(o) = 75 => Kept(WordImmediate(o))
      /\ Top6(o) = 38 => Kept(IoBit(o))
      /\ Top4(o) = 11 => Kept(InOut(o))
  BY WordImmediateBack, IoBitBack, InOutBack
<1>9. /\ Top4(o) = 12 => Kept(Relative("RJMP", 2, o))
      /\ Top4(o) = 13 => Kept(Relative("RCALL", 3, o))
  BY RelativeBack DEF Kept
<1>10. /\ Bits(o, 11, 5) = 30 => Kept(Branch(o))
       /\ Bits(o, 11, 5) = 31 => Kept(RegisterBit(o))
  BY BranchBack, RegisterBitBack
<1>11. DOMAIN TwoOperand = 1 .. 11 /\ DOMAIN Immediate = (3 .. 7) \cup {14}
  BY DEF TwoOperand, Immediate
<1>12. \/ Top8(o) = 0 \/ Top8(o) = 1 \/ Top7(o) = 1
       \/ Top6(o) \in DOMAIN TwoOperand \/ Top4(o) \in DOMAIN Immediate \/ Top4(o) \in {8, 10}
       \/ Top6(o) = 36 \/ Top7(o) = 74 \/ Top7(o) = 75 \/ Top6(o) = 38 \/ Top6(o) = 39
       \/ Top4(o) = 11 \/ Top4(o) = 12 \/ Top4(o) = 13
       \/ Bits(o, 11, 5) = 30 \/ Bits(o, 11, 5) = 31
  BY <1>11, SomeGroup
<1> HIDE DEF two, Kept
<1>13. Kept(Decode(o, next))
  BY <1>1, <1>2, <1>3, <1>4, <1>5, <1>6, <1>7, <1>8, <1>9, <1>10, <1>12
<1> QED BY <1>13 DEF Kept

\* What has been decoded last is the word before the next one to decode.
DecodedFrom ==
    Decoded => /\ i \in 1 .. MemSize
               /\ \E next \in Words : inst = Decode(data[i - 1], next)

LEMMA KeepsDecodedFrom ==
    ASSUME LoaderInv, DecodedFrom, [Next]_vars
    PROVE  DecodedFrom'
<1>1. CASE phase \in {"load", "hex"}
  <2>1. inst = None
    BY <1>1 DEF LoaderInv, Before
  <2>2. inst' = inst
    BY <1>1 DEF Next, vars, loadBinFile, openHexFile, oddLine, overrunLine, badRecord,
           endRecord, wildRecord, dataRecord, ReadLine, endOfHexFile, decodeNext, runAVR, Stopped
  <2> QED BY <2>1, <2>2 DEF DecodedFrom, Decoded
<1>2. CASE decodeNext
  <2>1. CASE i >= MemSize
    BY <1>2, <2>1 DEF decodeNext, DecodedFrom, Decoded
  <2>2. CASE ~(i >= MemSize)
    <3>1. PICK next \in IF i + 1 < MemSize THEN {data[i + 1]} ELSE NextWords :
             inst' = Decode(data[i], next)
      BY <1>2, <2>2 DEF decodeNext
    <3>2. phase = "decode" /\ TypeOK /\ i < MemSize /\ i \in Nat /\ MemSize \in Nat
      BY <1>2, <2>2, MemoryTyped DEF decodeNext, LoaderInv, TypeOK
    <3>3. next \in Words
      BY <3>1, <3>2, NextWord
    <3>4. i' = i + 1 /\ data' = data
      BY <1>2, <2>2 DEF decodeNext
    <3>5. i' \in 1 .. MemSize /\ i' - 1 = i
      BY <3>2, <3>4
    <3> QED BY <3>1, <3>3, <3>4, <3>5 DEF DecodedFrom
  <2> QED BY <2>1, <2>2
<1>3. CASE phase \notin {"load", "hex"} /\ ~decodeNext
  <2>1. UNCHANGED <<inst, i, data>>
    BY <1>3 DEF Next, vars, loadBinFile, openHexFile, oddLine, overrunLine, badRecord,
           endRecord, wildRecord, dataRecord, ReadLine, endOfHexFile, runAVR, Stopped, Reading
  <2> QED BY <2>1 DEF DecodedFrom, Decoded
<1> QED BY <1>1, <1>2, <1>3

\* Every opcode, whatever word follows it, is decoded as the instruction it was
\* assembled from, and none that an assembler writes is refused.
THEOREM OpcodesEncodeBack == Spec => []EncodesBack
<1>1. Init => DecodedFrom
  BY DEF Init, DecodedFrom, Decoded
<1>2. LoaderInv /\ DecodedFrom /\ [Next]_vars => DecodedFrom'
  BY KeepsDecodedFrom
<1>3. LoaderInv /\ DecodedFrom => EncodesBack
  <2> SUFFICES ASSUME LoaderInv, DecodedFrom, Decoded
               PROVE  IF inst.op = "ILLOP" THEN ~Assembled(Opcode)
                      ELSE Tolerated(Opcode) \/ Encode(inst) = Opcode
    BY DEF EncodesBack
  <2>1. PICK next \in Words : inst = Decode(Opcode, next)
    BY DEF DecodedFrom, Opcode
  <2>2. Opcode \in Words
    <3>1. i \in 1 .. MemSize /\ MemSize \in Nat /\ data \in [Index -> Words]
      BY MemoryTyped DEF DecodedFrom, LoaderInv, TypeOK
    <3>2. i - 1 \in Index
      BY <3>1 DEF Index
    <3> QED BY <3>1, <3>2 DEF Opcode
  <2> QED BY <2>1, <2>2, DecodeBack DEF Exact, Refused
<1> QED BY LoaderCorrect, <1>1, <1>2, <1>3, PTL DEF Spec
=============================================================================
