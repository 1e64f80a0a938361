------------------------------ MODULE Alu_proofs ------------------------------
(***************************************************************************)
(* Proofs about Alu for every width of a register and every set of inputs: *)
(* the programs compute what they should on words. There is an inductive   *)
(* invariant for each kind of program, which says nothing of the others;   *)
(* and the registers hold bytes whatever the program.                      *)
(*                                                                         *)
(* First comes the arithmetic under the instructions: what the flag        *)
(* formulas of Alu say of exact sums, differences, halves and products of  *)
(* one byte and of two, and what the bits of a byte are.                   *)
(***************************************************************************)
EXTENDS Alu, FiniteSetTheorems, TLAPS

-----------------------------------------------------------------------------
(***************************************************************************)
(* Integers: remainders, distributivity, and the order of numbers written  *)
(* with a high and a low digit. The provers take these facts one product   *)
(* at a time.                                                              *)
(***************************************************************************)
LEMMA Remainder ==
    ASSUME NEW m \in Int, m > 0, NEW r \in 0 .. m - 1, NEW k \in Int
    PROVE  (r + m * k) % m = r
  BY Z3

LEMMA Quotient ==
    ASSUME NEW m \in Int, m > 0, NEW n \in Int
    PROVE  /\ n \div m \in Int
           /\ n % m \in 0 .. m - 1
           /\ n = (n % m) + m * (n \div m)
  BY Z3

LEMMA IsRemainder ==
    ASSUME NEW m \in Int, m > 0, NEW n \in Int, NEW r \in 0 .. m - 1,
           NEW k \in Int, n = r + m * k
    PROVE  n % m = r
  BY Remainder

LEMMA Split ==
    ASSUME NEW m \in Int, m > 0, NEW n \in Int
    PROVE  \E r \in 0 .. m - 1, k \in Int : n % m = r /\ n = r + m * k
  BY Quotient

LEMMA SumRemainder ==
    ASSUME NEW m \in Int, m > 0, NEW n \in 0 .. 2 * m - 1
    PROVE  n % m = IF n >= m THEN n - m ELSE n
<1>1. CASE n >= m
  <2>1. ((n - m) + m * 1) % m = n - m
    BY <1>1, Remainder
  <2> QED BY <1>1, <2>1
<1>2. CASE n < m
  <2>1. (n + m * 0) % m = n
    BY <1>2, Remainder
  <2> QED BY <1>2, <2>1
<1> QED BY <1>1, <1>2

LEMMA DifferenceRemainder ==
    ASSUME NEW m \in Int, m > 0, NEW n \in -m .. m - 1
    PROVE  n % m = IF n < 0 THEN n + m ELSE n
<1>1. CASE n < 0
  <2>1. ((n + m) + m * (-1)) % m = n + m
    BY <1>1, Remainder
  <2> QED BY <1>1, <2>1
<1>2. CASE n >= 0
  <2>1. (n + m * 0) % m = n
    BY <1>2, Remainder
  <2> QED BY <1>2, <2>1
<1> QED BY <1>1, <1>2

LEMMA Distributes ==
    ASSUME NEW a \in Int, NEW b \in Int, NEW c \in Int, NEW d \in Int
    PROVE  /\ (a * b) * c = a * (b * c)
           /\ a * (b + c) = a * b + a * c
           /\ a * (b - c) = a * b - a * c
           /\ a * (b + c + d) = a * b + a * c + a * d
  BY Z3

LEMMA DistributesTwice ==
    ASSUME NEW a \in Int, NEW b \in Int, NEW c \in Int, NEW d \in Int
    PROVE  a * (b - c - d) = a * b - a * c - a * d
  BY Z3

LEMMA Lexical ==
    ASSUME NEW m \in Int, m > 0, NEW low \in 0 .. m - 1, NEW s \in Int, NEW t \in Int
    PROVE  low + m * s < m * t <=> s < t
<1>1. CASE s < t
  <2>1. m * (t - s) >= m
    BY <1>1, Z3
  <2>2. m * (t - s) = m * t - m * s
    BY Distributes
  <2> QED BY <1>1, <2>1, <2>2
<1>2. CASE s >= t
  <2>1. m * (s - t) >= 0
    BY <1>2, Z3
  <2>2. m * (s - t) = m * s - m * t
    BY Distributes
  <2> QED BY <1>2, <2>1, <2>2
<1> QED BY <1>1, <1>2

LEMMA Cancel ==
    ASSUME NEW m \in Int, m > 0, NEW a \in Int, NEW b \in Int, m * a = m * b
    PROVE  a = b
<1>1. 0 + m * a < m * b <=> a < b
  BY Lexical
<1>2. 0 + m * b < m * a <=> b < a
  BY Lexical
<1> QED BY <1>1, <1>2

LEMMA Regroup ==
    ASSUME NEW a \in Int, NEW b \in Int, NEW low \in Int, NEW x \in Int, NEW y \in Int,
           NEW z \in Int, low = a + b - z
    PROVE  (a + x) + (b + y) = low + (x + y + z)
  OBVIOUS

LEMMA RegroupDifference ==
    ASSUME NEW a \in Int, NEW b \in Int, NEW low \in Int, NEW x \in Int, NEW y \in Int,
           NEW z \in Int, low = a - b + z
    PROVE  (a + x) - (b + y) = low + (x - y - z)
  OBVIOUS

LEMMA Square == ASSUME NEW m \in Int, m > 0 PROVE m <= m * m
  BY Z3

LEMMA Monotone ==
    ASSUME NEW a \in Int, NEW b \in Int, NEW c \in Int, a <= b, c >= 0
    PROVE  a * c <= b * c
  BY Z3

LEMMA Commutes == ASSUME NEW a \in Int, NEW b \in Int PROVE a * b = b * a
  BY Z3

LEMMA Halves ==
    ASSUME NEW n \in Int
    PROVE  /\ n \div 2 \in Int
           /\ n = 2 * (n \div 2) + (IF Odd(n) THEN 1 ELSE 0)
  BY Z3 DEF Odd

LEMMA HalvedSum ==
    ASSUME NEW h \in Int, NEW r \in {0, 1}, NEW n \in Int, n = 2 * h + r
    PROVE  n \div 2 = h /\ (Odd(n) <=> r = 1)
  BY Z3 DEF Odd

-----------------------------------------------------------------------------
(***************************************************************************)
(* The sizes of nibbles, bytes and words, the range of a word made of two  *)
(* bytes, and its two halves.                                              *)
(***************************************************************************)
LEMMA Sizes ==
    /\ Half \in Int /\ Half > 0
    /\ Size \in Int /\ Size = 2 * Half
    /\ WordSize \in Int /\ WordSize = Size * Size
    /\ Nibble \in Int /\ Nibble > 1 /\ Size = Nibble * Nibble
    /\ Byte = 0 .. Size - 1
  BY WidthAssumption, Z3 DEF Size, WordSize, Byte

LEMMA WholeBytes ==
    /\ Size \in Int /\ Size > 0 /\ Half \in Int /\ Half > 0 /\ Size = 2 * Half
    /\ Byte = 0 .. Size - 1
  BY Sizes

LEMMA Nibbles == Nibble \in Int /\ Nibble > 0
  BY Sizes

LEMMA NibbleEven == \E h \in Int : Nibble = 2 * h
<1>1. Nibble % 2 = 0
  BY WidthAssumption
<1>2. Nibble \in Int
  BY Sizes
<1> QED BY <1>1, <1>2, Sizes, Split

LEMMA ShortNibble == Nibble <= Size * Half
<1>1. Nibble <= Size
  <2>1. Size = Nibble * Nibble
    BY Sizes
  <2>2. Nibble <= Nibble * Nibble
    BY Nibbles, Square
  <2> QED BY <2>1, <2>2
<1>2. Size <= Size * Half
  BY WholeBytes, Z3
<1> QED BY <1>1, <1>2, WholeBytes, Nibbles

LEMMA HalfWord == WordSize \div 2 = Size * Half /\ Size * Half \in Int
                     /\ WordSize = 2 * (Size * Half) /\ WordSize \in Int /\ WordSize > 0
<1>1. Size * Size = 2 * (Size * Half) /\ Size * Half \in Int /\ Size * Half > 0
  BY WholeBytes, Z3
<1> QED BY <1>1 DEF WordSize

LEMMA WordRange ==
    ASSUME NEW low \in Byte, NEW high \in Byte
    PROVE  low + Size * high \in 0 .. WordSize - 1
<1>1. Size * high \in Int /\ Size * high >= 0
  BY WholeBytes, Z3
<1>2. low + Size * high < Size * Size
  BY WholeBytes, Lexical
<1> QED BY <1>1, <1>2, WholeBytes, HalfWord DEF WordSize

LEMMA WordMsb ==
    ASSUME NEW low \in Byte, NEW high \in Byte
    PROVE  /\ MsbW(low + Size * high) <=> Msb(high)
           /\ SignedWord(low + Size * high) = low + Size * Signed(high)
           /\ Signed(high) \in Int
<1>1. low + Size * high \in Int /\ Size * high \in Int
  BY WholeBytes
<1>2. MsbW(low + Size * high) <=> Msb(high)
  BY <1>1, WholeBytes, HalfWord, Lexical DEF MsbW, Msb
<1>3. Size * (high - Size) = Size * high - WordSize
  BY WholeBytes, Distributes DEF WordSize
<1> QED BY <1>1, <1>2, <1>3, WholeBytes, HalfWord DEF SignedWord, Signed, Msb

LEMMA ByteRemainder ==
    ASSUME NEW r \in 0 .. Size - 1, NEW k \in Int, NEW n \in Int, n = r + Size * k
    PROVE  n % Size = r
<1>1. Size \in Int /\ Size > 0
  BY WholeBytes
<1> QED BY <1>1, IsRemainder

LEMMA WordRemainder ==
    ASSUME NEW r \in 0 .. WordSize - 1, NEW k \in Int, NEW n \in Int, n = r + WordSize * k
    PROVE  n % WordSize = r
<1>1. WordSize \in Int /\ WordSize > 0
  BY HalfWord
<1> QED BY <1>1, IsRemainder

LEMMA SplitByte ==
    ASSUME NEW n \in Int
    PROVE  \E r \in 0 .. Size - 1, k \in Int : r = n % Size /\ n = r + Size * k
<1>1. Size \in Int /\ Size > 0
  BY WholeBytes
<1> QED BY <1>1, Split

LEMMA TwoBytes ==
    ASSUME NEW w \in 0 .. WordSize - 1
    PROVE  /\ w % Size \in Byte /\ w \div Size \in Byte
           /\ (w % Size) + Size * (w \div Size) = w
<1>1. w \in Int
  BY HalfWord
<1>2. PICK low \in Int, high \in Int : low = w % Size /\ high = w \div Size
  BY <1>1, WholeBytes, Quotient
<1>3. low \in 0 .. Size - 1 /\ w = low + Size * high
  BY <1>1, <1>2, WholeBytes, Quotient
<1>4. low + Size * high < Size * Size
  BY <1>1, <1>3, HalfWord DEF WordSize
<1>5. high < Size
  BY <1>3, <1>4, WholeBytes, Lexical
<1>6. ~(low + Size * high < Size * 0)
  <2>1. Size * 0 = 0
    BY WholeBytes
  <2>2. w >= 0
    BY HalfWord
  <2> QED BY <1>1, <1>3, <2>1, <2>2
<1>7. ~(high < 0)
  BY <1>3, <1>6, WholeBytes, Lexical
<1> QED BY <1>2, <1>3, <1>5, <1>7, WholeBytes

LEMMA SplitWord ==
    ASSUME NEW low \in Byte, NEW high \in Byte
    PROVE  (low + Size * high) % Size = low /\ (low + Size * high) \div Size = high
<1>1. PICK n \in Int : n = low + Size * high
  BY WholeBytes
<1>2. n % Size = low
  <2>1. high \in Int /\ low \in 0 .. Size - 1
    BY WholeBytes
  <2> QED BY <1>1, <2>1, ByteRemainder
<1>3. PICK q \in Int : q = n \div Size /\ n = low + Size * q
  BY <1>2, WholeBytes, Quotient
<1>4. q = high
  <2>1. Size \in Int /\ Size > 0 /\ high \in Int /\ low \in Int
    BY WholeBytes
  <2>2. Size * q = Size * high
    BY <1>1, <1>3, <2>1
  <2> QED BY <2>1, <2>2, Cancel
<1> QED BY <1>1, <1>2, <1>3, <1>4

-----------------------------------------------------------------------------
(***************************************************************************)
(* One byte: the formulas the handlers compute from the top bits of the    *)
(* operands and of the result say what the exact sum or difference does.   *)
(* CarryOut: the carry of ADD and ADC is the carry out of bit 7.           *)
(* OverflowOut: V is the signed overflow, and N # V, which the handlers    *)
(* store in S, the sign of the exact sum. BorrowOut, SubOverflowOut: the   *)
(* same of SUB, SBC, CP and CPC. HalfCarryOut: H is the carry out of bit   *)
(* 3.                                                                      *)
(***************************************************************************)
LEMMA CarryOut ==
    ASSUME NEW x \in Byte, NEW y \in Byte, NEW c \in {0, 1},
           NEW res, res = (x + y + c) % Size
    PROVE  /\ res \in Byte
           /\ res = IF x + y + c >= Size THEN x + y + c - Size ELSE x + y + c
           /\ Carried(Msb(x), Msb(y), Msb(res)) <=> x + y + c >= Size
<1>1. x + y + c \in 0 .. 2 * Size - 1
  BY Sizes
<1>2. res = IF x + y + c >= Size THEN x + y + c - Size ELSE x + y + c
  BY <1>1, SumRemainder, Sizes
<1> QED BY <1>1, <1>2, Sizes DEF Carried, Msb

LEMMA OverflowOut ==
    ASSUME NEW x \in Byte, NEW y \in Byte, NEW c \in {0, 1},
           NEW res, res = (x + y + c) % Size
    PROVE  /\ AddOverflow(Msb(x), Msb(y), Msb(res))
                <=> Signed(x) + Signed(y) + c \notin -Half .. Half - 1
           /\ (Msb(res) # AddOverflow(Msb(x), Msb(y), Msb(res)))
                <=> Signed(x) + Signed(y) + c < 0
<1>1. res = IF x + y + c >= Size THEN x + y + c - Size ELSE x + y + c
  BY CarryOut
<1> QED BY <1>1, Sizes DEF AddOverflow, Msb, Signed

LEMMA BorrowOut ==
    ASSUME NEW x \in Byte, NEW y \in Byte, NEW c \in {0, 1},
           NEW res, res = (x - y - c) % Size
    PROVE  /\ res \in Byte
           /\ res = IF x - y - c < 0 THEN x - y - c + Size ELSE x - y - c
           /\ Borrowed(Msb(x), Msb(y), Msb(res)) <=> x - y - c < 0
<1>1. x - y - c \in -Size .. Size - 1
  BY WholeBytes
<1>2. res = IF x - y - c < 0 THEN x - y - c + Size ELSE x - y - c
  BY <1>1, DifferenceRemainder, WholeBytes
<1> QED BY <1>1, <1>2, WholeBytes DEF Borrowed, Msb

LEMMA SubOverflowOut ==
    ASSUME NEW x \in Byte, NEW y \in Byte, NEW c \in {0, 1},
           NEW res, res = (x - y - c) % Size
    PROVE  /\ SubOverflow(Msb(x), Msb(y), Msb(res))
                <=> Signed(x) - Signed(y) - c \notin -Half .. Half - 1
           /\ (Msb(res) # SubOverflow(Msb(x), Msb(y), Msb(res)))
                <=> Signed(x) - Signed(y) - c < 0
<1>1. res = IF x - y - c < 0 THEN x - y - c + Size ELSE x - y - c
  BY BorrowOut
<1> QED BY <1>1, WholeBytes DEF SubOverflow, Msb, Signed

LEMMA LowNibble ==
    ASSUME NEW n \in Int, NEW res \in Int, NEW q \in Int, n = res + Size * q
    PROVE  res % Nibble = n % Nibble
<1>1. PICK b \in 0 .. Nibble - 1, p \in Int : res % Nibble = b /\ res = b + Nibble * p
  BY Split, Nibbles
<1>2. PICK pp \in Int : pp = p + Nibble * q
  BY Nibbles
<1>3. n = b + Nibble * pp
  <2>1. Size * q = Nibble * (Nibble * q)
    <3>1. Size = Nibble * Nibble
      BY Sizes
    <3> QED BY <3>1, Nibbles, Distributes
  <2>2. Nibble * pp = Nibble * p + Nibble * (Nibble * q)
    BY <1>2, Nibbles, Z3
  <2>3. Nibble * p \in Int /\ Nibble * (Nibble * q) \in Int
    BY Nibbles
  <2>4. Size * q \in Int /\ Size \in Int /\ Nibble * pp \in Int
    BY <1>2, <2>1, <2>3, Nibbles, Sizes
  <2> QED BY <1>1, <2>1, <2>2, <2>3, <2>4
<1>4. n % Nibble = b
  <2>1. b \in Int /\ 0 <= b /\ b < Nibble
    BY Nibbles
  <2> QED BY <2>1, <1>3, Nibbles, IsRemainder
<1> QED BY <1>1, <1>4

LEMMA HalfCarryOut ==
    ASSUME NEW x \in Byte, NEW y \in Byte, NEW c \in {0, 1},
           NEW res, res = (x + y + c) % Size
    PROVE  Carried(Mid(x), Mid(y), Mid(res)) <=> (x % Nibble) + (y % Nibble) + c >= Nibble
<1>0. x \in Int /\ y \in Int /\ c \in Int /\ Size \in Int /\ Size > 0
  BY Sizes
<1>1. PICK xx \in 0 .. Nibble - 1, p \in Int : x % Nibble = xx /\ x = xx + Nibble * p
  BY <1>0, Split, Nibbles
<1>2. PICK yy \in 0 .. Nibble - 1, q \in Int : y % Nibble = yy /\ y = yy + Nibble * q
  BY <1>0, Split, Nibbles
<1>3. PICK k \in Int : res \in Int /\ x + y + c = res + Size * k
  <2>1. x + y + c \in Int
    BY <1>0
  <2> QED BY <2>1, <1>0, Split
<1>4. res % Nibble = (x + y + c) % Nibble
  <2>1. x + y + c \in Int
    BY <1>0
  <2> QED BY <2>1, <1>3, LowNibble
<1>5. PICK t \in 0 .. Nibble - 1, s \in Int : /\ (xx + yy + c) % Nibble = t
                                             /\ xx + yy + c = t + Nibble * s
  <2>1. xx + yy + c \in Int
    BY <1>0
  <2> QED BY <2>1, Split, Nibbles
<1>6. PICK z \in Int : z = p + q + s
  BY <1>1
<1>7. x + y + c = t + Nibble * z
  <2>1. Nibble * z = Nibble * p + Nibble * q + Nibble * s
    BY <1>6, Nibbles, Distributes
  <2> QED BY <1>0, <1>1, <1>2, <1>5, <2>1, Nibbles
<1>8. (x + y + c) % Nibble = t
  <2>1. x + y + c \in Int
    BY <1>0
  <2> QED BY <2>1, <1>7, Nibbles, IsRemainder
<1>9. t = IF xx + yy + c >= Nibble THEN xx + yy + c - Nibble ELSE xx + yy + c
  <2>1. xx + yy + c \in 0 .. 2 * Nibble - 1
    BY Nibbles
  <2> QED BY <2>1, <1>5, SumRemainder, Nibbles
<1> QED BY <1>1, <1>2, <1>4, <1>8, <1>9, Nibbles, NibbleEven DEF Carried, Mid

-----------------------------------------------------------------------------
(***************************************************************************)
(* Two bytes: an operation on the low bytes, and one on the high bytes     *)
(* that takes its carry or borrow in, are the operation on the words; the  *)
(* flags of the second are those of the whole. ADIW and SBIW take a short  *)
(* second operand.                                                         *)
(***************************************************************************)
LEMMA MiddleWord ==
    ASSUME NEW low \in Byte, NEW high \in Byte
    PROVE  /\ (low + Size * high) % (Size * Nibble) = low + Size * (high % Nibble)
           /\ high % Nibble \in Int
<1>1. PICK n \in 0 .. Nibble - 1, k \in Int : high % Nibble = n /\ high = n + Nibble * k
  <2>1. high \in Int
    BY WholeBytes
  <2> QED BY <2>1, Split, Nibbles
<1>2. low + Size * high = (low + Size * n) + (Size * Nibble) * k
  <2>1. Size * high = Size * n + Size * (Nibble * k) /\ Nibble * k \in Int
    BY <1>1, Nibbles, WholeBytes, Distributes
  <2>2. Size * (Nibble * k) = (Size * Nibble) * k
    BY <1>1, Nibbles, WholeBytes, Distributes
  <2>3. Size * n \in Int /\ Size * high \in Int /\ (Size * Nibble) * k \in Int
    BY <1>1, Nibbles, WholeBytes
  <2> QED BY <2>1, <2>2, <2>3, WholeBytes
<1>3. low + Size * n < Size * Nibble
  BY <1>1, Lexical, WholeBytes, Nibbles
<1>4. Size * n \in Int /\ Size * n >= 0 /\ Size * Nibble \in Int /\ Size * Nibble > 0
  <2>1. Size * n >= 0
    BY <1>1, WholeBytes, Nibbles, Z3
  <2>2. Size * Nibble > 0
    BY WholeBytes, Nibbles, Z3
  <2> QED BY <2>1, <2>2, <1>1, WholeBytes, Nibbles
<1>5. low + Size * n \in 0 .. (Size * Nibble) - 1
  BY <1>3, <1>4, WholeBytes
<1>6. (low + Size * high) % (Size * Nibble) = low + Size * n
  <2> DEFINE M == Size * Nibble
             r == low + Size * n
             w == low + Size * high
  <2>1. M \in Int /\ M > 0 /\ r \in 0 .. M - 1 /\ w = r + M * k /\ w \in Int
    BY <1>2, <1>4, <1>5, WholeBytes
  <2> HIDE DEF M, r, w
  <2>2. w % M = r
    BY <2>1, IsRemainder
  <2> QED BY <2>2 DEF M, r, w
<1> QED BY <1>1, <1>6

LEMMA SumOfWords ==
    ASSUME NEW a \in Byte, NEW aa \in Byte, NEW b \in Byte, NEW bb \in Byte,
           NEW c \in {0, 1}, c = 1 <=> a + b >= Size,
           NEW low, low = (a + b) % Size,
           NEW high, high = (aa + bb + c) % Size,
           NEW wa, wa = a + Size * aa, NEW wb, wb = b + Size * bb
    PROVE  /\ low \in Byte /\ high \in Byte
           /\ wa + wb = low + Size * (aa + bb + c)
           /\ low + Size * high = (wa + wb) % WordSize
           /\ Carried(Msb(aa), Msb(bb), Msb(high)) <=> wa + wb >= WordSize
<1>1. 0 \in {0, 1} /\ a + b + 0 = a + b /\ low = (a + b + 0) % Size
  BY WholeBytes
<1>2. low \in Byte /\ low = IF a + b >= Size THEN a + b - Size ELSE a + b
  <2>1. low = IF a + b + 0 >= Size THEN a + b + 0 - Size ELSE a + b + 0
    BY <1>1, CarryOut
  <2> QED BY <1>1, <2>1, WholeBytes
<1>3. /\ high \in Byte
      /\ high = IF aa + bb + c >= Size THEN aa + bb + c - Size ELSE aa + bb + c
      /\ Carried(Msb(aa), Msb(bb), Msb(high)) <=> aa + bb + c >= Size
  BY CarryOut
<1>4. low = a + b - Size * c
  BY <1>2, WholeBytes
<1>5. PICK d \in {0, 1} : /\ d = 1 <=> aa + bb + c >= Size
                          /\ high = aa + bb + c - Size * d
  BY <1>3, WholeBytes
<1>6. PICK s \in Int : s = aa + bb + c
  BY WholeBytes
<1>7. wa + wb = low + Size * s
  <2>1. Size * s = Size * aa + Size * bb + Size * c
    BY <1>6, WholeBytes, Distributes
  <2>2. Size * aa \in Int /\ Size * bb \in Int /\ Size * c \in Int
    BY WholeBytes
  <2> QED BY <1>4, <2>1, <2>2, WholeBytes
<1>8. wa + wb = (low + Size * high) + WordSize * d
  <2>1. high = s - Size * d /\ Size * d \in Int
    BY <1>5, <1>6, WholeBytes
  <2>2. Size * high = Size * s - Size * (Size * d)
    BY <2>1, WholeBytes, Distributes
  <2>3. Size * (Size * d) = WordSize * d
    BY WholeBytes, Distributes DEF WordSize
  <2>4. Size * s \in Int /\ WordSize * d \in Int /\ low \in Int
    BY <1>2, WholeBytes, HalfWord
  <2> QED BY <1>7, <2>2, <2>3, <2>4
<1>9. low + Size * high = (wa + wb) % WordSize
  <2> DEFINE w == low + Size * high
             n == wa + wb
  <2>1. w \in 0 .. WordSize - 1
    BY <1>2, <1>3, WordRange
  <2>2. n = w + WordSize * d
    BY <1>8
  <2>3. n \in Int /\ d \in Int /\ WordSize \in Int /\ WordSize > 0
    BY WholeBytes, HalfWord
  <2> HIDE DEF w, n
  <2>4. n % WordSize = w
    BY <2>1, <2>2, <2>3, IsRemainder
  <2> QED BY <2>4 DEF w, n
<1>10. s >= Size <=> wa + wb >= WordSize
  <2>1. low + Size * s < Size * Size <=> s < Size
    BY <1>2, WholeBytes, Lexical
  <2>2. Size * s \in Int /\ WordSize \in Int /\ low \in Int
    BY <1>2, WholeBytes, HalfWord
  <2> QED BY <1>7, <2>1, <2>2, WholeBytes DEF WordSize
<1> QED BY <1>2, <1>3, <1>6, <1>7, <1>9, <1>10

LEMMA SignedSumOfWords ==
    ASSUME NEW a \in Byte, NEW aa \in Byte, NEW b \in Byte, NEW bb \in Byte,
           NEW c \in {0, 1}, c = 1 <=> a + b >= Size,
           NEW high, high = (aa + bb + c) % Size,
           NEW wa, wa = a + Size * aa, NEW wb, wb = b + Size * bb
    PROVE  /\ AddOverflow(Msb(aa), Msb(bb), Msb(high))
                <=> ~FitsWord(SignedWord(wa) + SignedWord(wb))
           /\ (Msb(high) # AddOverflow(Msb(aa), Msb(bb), Msb(high)))
                <=> SignedWord(wa) + SignedWord(wb) < 0
<1>1. PICK low \in Byte : low = a + b - Size * c
  BY WholeBytes
<1>2. PICK s \in Int : s = Signed(aa) + Signed(bb) + c
  BY WordMsb
<1>3. SignedWord(wa) + SignedWord(wb) = low + Size * s
  <2>1. /\ SignedWord(wa) = a + Size * Signed(aa) /\ SignedWord(wb) = b + Size * Signed(bb)
        /\ Signed(aa) \in Int /\ Signed(bb) \in Int
    BY WordMsb
  <2>2. Size * s = Size * Signed(aa) + Size * Signed(bb) + Size * c
    BY <1>2, <2>1, WholeBytes, Distributes
  <2>3. Size * Signed(aa) \in Int /\ Size * Signed(bb) \in Int /\ Size * c \in Int
    BY <2>1, WholeBytes
  <2>4. a \in Int /\ b \in Int /\ low \in Int
    BY WholeBytes
  <2> QED BY <1>1, <2>1, <2>2, <2>3, <2>4, Regroup
<1>4. /\ AddOverflow(Msb(aa), Msb(bb), Msb(high)) <=> s \notin -Half .. Half - 1
      /\ (Msb(high) # AddOverflow(Msb(aa), Msb(bb), Msb(high))) <=> s < 0
  BY <1>2, OverflowOut
<1>5. /\ low + Size * s < Size * Half <=> s < Half
      /\ low + Size * s < Size * (-Half) <=> s < -Half
      /\ low + Size * s < Size * 0 <=> s < 0
  BY WholeBytes, Lexical
<1>6. Size * (-Half) = -(Size * Half) /\ Size * 0 = 0
  BY WholeBytes, Z3
<1>7. low + Size * s \in Int
  BY WholeBytes
<1>8. s \notin -Half .. Half - 1
      <=> low + Size * s \notin -(Size * Half) .. Size * Half - 1
  BY <1>5, <1>6, <1>7, WholeBytes, HalfWord
<1> QED BY <1>3, <1>4, <1>5, <1>6, <1>8, HalfWord DEF FitsWord

LEMMA MiddleSumOfWords ==
    ASSUME NEW a \in Byte, NEW aa \in Byte, NEW b \in Byte, NEW bb \in Byte,
           NEW c \in {0, 1}, c = 1 <=> a + b >= Size,
           NEW high, high = (aa + bb + c) % Size,
           NEW wa, wa = a + Size * aa, NEW wb, wb = b + Size * bb
    PROVE  Carried(Mid(aa), Mid(bb), Mid(high))
             <=> (wa % (Size * Nibble)) + (wb % (Size * Nibble)) >= Size * Nibble
<1>1. PICK low \in Byte : low = a + b - Size * c
  BY WholeBytes
<1>2. /\ wa % (Size * Nibble) = a + Size * (aa % Nibble) /\ aa % Nibble \in Int
      /\ wb % (Size * Nibble) = b + Size * (bb % Nibble) /\ bb % Nibble \in Int
  BY MiddleWord
<1>3. PICK s \in Int : s = (aa % Nibble) + (bb % Nibble) + c
  BY <1>2
<1>4. (wa % (Size * Nibble)) + (wb % (Size * Nibble)) = low + Size * s
  <2>1. Size * s = Size * (aa % Nibble) + Size * (bb % Nibble) + Size * c
    BY <1>2, <1>3, WholeBytes, Distributes
  <2>2. Size * (aa % Nibble) \in Int /\ Size * (bb % Nibble) \in Int /\ Size * c \in Int
    BY <1>2, WholeBytes
  <2>3. a \in Int /\ b \in Int /\ low \in Int
    BY WholeBytes
  <2> QED BY <1>1, <1>2, <2>1, <2>2, <2>3, Regroup
<1>5. Carried(Mid(aa), Mid(bb), Mid(high)) <=> s >= Nibble
  BY <1>3, HalfCarryOut
<1>6. low + Size * s < Size * Nibble <=> s < Nibble
  BY WholeBytes, Nibbles, Lexical
<1>7. low + Size * s \in Int /\ Size * Nibble \in Int
  BY WholeBytes, Nibbles
<1> QED BY <1>4, <1>5, <1>6, <1>7, Nibbles

LEMMA SumWithShort ==
    ASSUME NEW word \in 0 .. WordSize - 1, NEW k \in 0 .. Nibble - 1,
           NEW res, res = (word + k) % WordSize
    PROVE  /\ res \in 0 .. WordSize - 1
           /\ (~MsbW(res) /\ MsbW(word)) <=> word + k >= WordSize
           /\ (MsbW(res) /\ ~MsbW(word)) <=> ~FitsWord(SignedWord(word) + SignedWord(k))
           /\ (MsbW(res) # (MsbW(res) /\ ~MsbW(word)))
                <=> SignedWord(word) + SignedWord(k) < 0
<1> DEFINE top == Size * Half
<1>1. Nibble <= top
  BY ShortNibble
<1>2. top \in Int /\ WordSize = 2 * top /\ WordSize \div 2 = top /\ WordSize \in Int
  BY HalfWord
<1>3. \A w : MsbW(w) <=> w >= top
  BY DEF MsbW
<1> HIDE DEF top
<1>4. res = IF word + k >= WordSize THEN word + k - WordSize ELSE word + k
  <2>1. word + k \in 0 .. 2 * WordSize - 1
    BY <1>1, <1>2, Nibbles
  <2> QED BY <2>1, SumRemainder, HalfWord
<1>5. /\ word \in Int /\ 0 <= word /\ word < 2 * top
      /\ k \in Int /\ 0 <= k /\ k < top
  BY <1>1, <1>2, Nibbles
<1>6. /\ SignedWord(word) = IF word >= top THEN word - 2 * top ELSE word
      /\ SignedWord(k) = k
  BY <1>2, <1>3, <1>5 DEF SignedWord
<1>7. res \in 0 .. WordSize - 1 /\ res \in Int
  BY <1>2, <1>4, <1>5
<1>8. (~MsbW(res) /\ MsbW(word)) <=> word + k >= WordSize
  BY <1>2, <1>3, <1>4, <1>5
<1>9. (MsbW(res) /\ ~MsbW(word)) <=> ~FitsWord(SignedWord(word) + SignedWord(k))
  BY <1>2, <1>3, <1>4, <1>5, <1>6 DEF FitsWord
<1>10. (MsbW(res) # (MsbW(res) /\ ~MsbW(word))) <=> SignedWord(word) + SignedWord(k) < 0
  <2>1. (MsbW(res) # (MsbW(res) /\ ~MsbW(word))) <=> MsbW(res) /\ MsbW(word)
    BY DEF MsbW
  <2>2. MsbW(res) /\ MsbW(word) <=> SignedWord(word) + SignedWord(k) < 0
    BY <1>2, <1>3, <1>4, <1>5, <1>6
  <2> QED BY <2>1, <2>2
<1> QED BY <1>7, <1>8, <1>9, <1>10

LEMMA DifferenceOfWords ==
    ASSUME NEW a \in Byte, NEW aa \in Byte, NEW b \in Byte, NEW bb \in Byte,
           NEW c \in {0, 1}, c = 1 <=> a - b < 0,
           NEW low, low = (a - b) % Size,
           NEW high, high = (aa - bb - c) % Size,
           NEW wa, wa = a + Size * aa, NEW wb, wb = b + Size * bb
    PROVE  /\ low \in Byte /\ high \in Byte
           /\ low + Size * high = (wa - wb) % WordSize
           /\ Borrowed(Msb(aa), Msb(bb), Msb(high)) <=> wa < wb
<1>1. 0 \in {0, 1} /\ a - b - 0 = a - b /\ low = (a - b - 0) % Size
  BY WholeBytes
<1>2. low \in Byte /\ low = IF a - b < 0 THEN a - b + Size ELSE a - b
  <2>1. low \in Byte /\ low = IF a - b - 0 < 0 THEN a - b - 0 + Size ELSE a - b - 0
    BY <1>1, BorrowOut
  <2> QED BY <1>1, <2>1, WholeBytes
<1>3. /\ high \in Byte
      /\ high = IF aa - bb - c < 0 THEN aa - bb - c + Size ELSE aa - bb - c
      /\ Borrowed(Msb(aa), Msb(bb), Msb(high)) <=> aa - bb - c < 0
  BY BorrowOut
<1>4. low = a - b + Size * c
  BY <1>2, WholeBytes
<1>5. PICK d \in {0, 1} : high = aa - bb - c + Size * d
  BY <1>3, WholeBytes
<1>6. PICK s \in Int : s = aa - bb - c
  BY WholeBytes
<1>7. wa - wb = low + Size * s
  <2>1. Size * s = Size * aa - Size * bb - Size * c
    BY <1>6, WholeBytes, DistributesTwice
  <2>2. Size * aa \in Int /\ Size * bb \in Int /\ Size * c \in Int
    BY WholeBytes
  <2>3. a \in Int /\ b \in Int /\ low \in Int
    BY <1>2, WholeBytes
  <2> QED BY <1>4, <2>1, <2>2, <2>3, RegroupDifference
<1>8. wa - wb = (low + Size * high) + WordSize * (-d)
  <2>1. s = high - Size * d /\ Size * d \in Int
    BY <1>5, <1>6, WholeBytes
  <2>2. Size * s = Size * high - Size * (Size * d)
    BY <1>3, <2>1, WholeBytes, Distributes
  <2>3. Size * (Size * d) = WordSize * d
    BY WholeBytes, Distributes DEF WordSize
  <2>4. WordSize * (-d) = -(WordSize * d)
    BY HalfWord, Z3
  <2>5. Size * high \in Int /\ WordSize * d \in Int /\ low \in Int
    BY <1>2, <1>3, WholeBytes, HalfWord
  <2> QED BY <1>7, <2>2, <2>3, <2>4, <2>5
<1>9. low + Size * high = (wa - wb) % WordSize
  <2> DEFINE w == low + Size * high
             n == wa - wb
  <2>1. w \in 0 .. WordSize - 1
    BY <1>2, <1>3, WordRange
  <2>2. n = w + WordSize * (-d)
    BY <1>8
  <2>3. n \in Int /\ -d \in Int /\ WordSize \in Int /\ WordSize > 0
    BY WholeBytes, HalfWord
  <2> HIDE DEF w, n
  <2>4. n % WordSize = w
    BY <2>1, <2>2, <2>3, IsRemainder
  <2> QED BY <2>4 DEF w, n
<1>10. s < 0 <=> wa < wb
  <2>1. low + Size * s < Size * 0 <=> s < 0
    BY <1>2, WholeBytes, Lexical
  <2>2. Size * s \in Int /\ Size * 0 = 0 /\ low \in Int /\ wa \in Int /\ wb \in Int
    BY <1>2, WholeBytes
  <2> QED BY <1>7, <2>1, <2>2
<1> QED BY <1>2, <1>3, <1>6, <1>9, <1>10

LEMMA SignedDifferenceOfWords ==
    ASSUME NEW a \in Byte, NEW aa \in Byte, NEW b \in Byte, NEW bb \in Byte,
           NEW c \in {0, 1}, c = 1 <=> a - b < 0,
           NEW high, high = (aa - bb - c) % Size,
           NEW wa, wa = a + Size * aa, NEW wb, wb = b + Size * bb
    PROVE  /\ SubOverflow(Msb(aa), Msb(bb), Msb(high))
                <=> ~FitsWord(SignedWord(wa) - SignedWord(wb))
           /\ (Msb(high) # SubOverflow(Msb(aa), Msb(bb), Msb(high)))
                <=> SignedWord(wa) - SignedWord(wb) < 0
<1>1. PICK low \in Byte : low = a - b + Size * c
  BY WholeBytes
<1>2. PICK s \in Int : s = Signed(aa) - Signed(bb) - c
  BY WordMsb
<1>3. SignedWord(wa) - SignedWord(wb) = low + Size * s
  <2>1. /\ SignedWord(wa) = a + Size * Signed(aa) /\ SignedWord(wb) = b + Size * Signed(bb)
        /\ Signed(aa) \in Int /\ Signed(bb) \in Int
    BY WordMsb
  <2>2. Size * s = Size * Signed(aa) - Size * Signed(bb) - Size * c
    BY <1>2, <2>1, WholeBytes, DistributesTwice
  <2>3. Size * Signed(aa) \in Int /\ Size * Signed(bb) \in Int /\ Size * c \in Int
    BY <2>1, WholeBytes
  <2>4. a \in Int /\ b \in Int /\ low \in Int
    BY WholeBytes
  <2> QED BY <1>1, <2>1, <2>2, <2>3, <2>4, RegroupDifference
<1>4. /\ SubOverflow(Msb(aa), Msb(bb), Msb(high)) <=> s \notin -Half .. Half - 1
      /\ (Msb(high) # SubOverflow(Msb(aa), Msb(bb), Msb(high))) <=> s < 0
  BY <1>2, SubOverflowOut
<1>5. /\ low + Size * s < Size * Half <=> s < Half
      /\ low + Size * s < Size * (-Half) <=> s < -Half
      /\ low + Size * s < Size * 0 <=> s < 0
  BY WholeBytes, Lexical
<1>6. Size * (-Half) = -(Size * Half) /\ Size * 0 = 0
  BY WholeBytes, Z3
<1>7. low + Size * s \in Int
  BY WholeBytes
<1>8. s \notin -Half .. Half - 1
      <=> low + Size * s \notin -(Size * Half) .. Size * Half - 1
  BY <1>5, <1>6, <1>7, WholeBytes, HalfWord
<1> QED BY <1>3, <1>4, <1>5, <1>6, <1>8, HalfWord DEF FitsWord

LEMMA DifferenceWithShort ==
    ASSUME NEW word \in 0 .. WordSize - 1, NEW k \in 0 .. Nibble - 1,
           NEW res, res = (word - k) % WordSize
    PROVE  /\ res \in 0 .. WordSize - 1
           /\ (MsbW(res) /\ ~MsbW(word)) <=> word < k
           /\ (MsbW(word) /\ ~MsbW(res)) <=> ~FitsWord(SignedWord(word) - SignedWord(k))
           /\ (MsbW(res) # (MsbW(word) /\ ~MsbW(res)))
                <=> SignedWord(word) - SignedWord(k) < 0
<1> DEFINE top == Size * Half
<1>1. Nibble <= top
  BY ShortNibble
<1>2. top \in Int /\ WordSize = 2 * top /\ WordSize \div 2 = top /\ WordSize \in Int
  BY HalfWord
<1>3. \A w : MsbW(w) <=> w >= top
  BY DEF MsbW
<1> HIDE DEF top
<1>4. res = IF word - k < 0 THEN word - k + WordSize ELSE word - k
  <2>1. word - k \in -WordSize .. WordSize - 1
    BY <1>1, <1>2, Nibbles
  <2> QED BY <2>1, DifferenceRemainder, HalfWord
<1>5. /\ word \in Int /\ 0 <= word /\ word < 2 * top
      /\ k \in Int /\ 0 <= k /\ k < top
  BY <1>1, <1>2, Nibbles
<1>6. /\ SignedWord(word) = IF word >= top THEN word - 2 * top ELSE word
      /\ SignedWord(k) = k
  BY <1>2, <1>3, <1>5 DEF SignedWord
<1>7. res \in 0 .. WordSize - 1 /\ res \in Int
  BY <1>2, <1>4, <1>5
<1>8. (MsbW(res) /\ ~MsbW(word)) <=> word < k
  BY <1>2, <1>3, <1>4, <1>5
<1>9. (MsbW(word) /\ ~MsbW(res)) <=> ~FitsWord(SignedWord(word) - SignedWord(k))
  BY <1>2, <1>3, <1>4, <1>5, <1>6 DEF FitsWord
<1>10. (MsbW(res) # (MsbW(word) /\ ~MsbW(res))) <=> SignedWord(word) - SignedWord(k) < 0
  <2>1. (MsbW(res) # (MsbW(word) /\ ~MsbW(res))) <=> MsbW(res) \/ MsbW(word)
    BY DEF MsbW
  <2>2. MsbW(res) \/ MsbW(word) <=> SignedWord(word) - SignedWord(k) < 0
    BY <1>2, <1>3, <1>4, <1>5, <1>6
  <2> QED BY <2>1, <2>2
<1> QED BY <1>7, <1>8, <1>9, <1>10

-----------------------------------------------------------------------------
(***************************************************************************)
(* Shifts: two bytes shifted right, the second with the bit the first      *)
(* lost.                                                                   *)
(***************************************************************************)
LEMMA HalvedWord ==
    ASSUME NEW a \in Byte, NEW aa \in Byte, NEW u \in Int,
           NEW low, low = (a \div 2) + (IF Odd(aa) THEN Half ELSE 0),
           NEW high, high = (aa \div 2) + u
    PROVE  /\ low + Size * high = ((a + Size * aa) \div 2) + Size * u
           /\ Odd(a) <=> Odd(a + Size * aa)
<1>1. PICK p \in Int, o \in {0, 1} :
          p = a \div 2 /\ a = 2 * p + o /\ (o = 1 <=> Odd(a))
  BY Halves, WholeBytes
<1>2. PICK q \in Int, r \in {0, 1} :
          q = aa \div 2 /\ aa = 2 * q + r /\ (r = 1 <=> Odd(aa))
  BY Halves, WholeBytes
<1>3. low = p + Half * r
  BY <1>1, <1>2, WholeBytes
<1>4. Size * aa = 2 * (Size * q) + 2 * (Half * r) /\ Size * q \in Int /\ Half * r \in Int
  <2>1. Size * aa = Size * (2 * q) + Size * r
    BY <1>2, WholeBytes, Distributes
  <2>2. Size * (2 * q) = 2 * (Size * q)
    BY WholeBytes, Z3
  <2>3. Size * r = 2 * (Half * r)
    BY WholeBytes, Z3
  <2> QED BY <2>1, <2>2, <2>3, WholeBytes
<1>5. PICK h \in Int : h = low + Size * q
  BY <1>3, <1>4, WholeBytes
<1>6. a + Size * aa = 2 * h + o /\ a + Size * aa \in Int
  BY <1>1, <1>3, <1>4, <1>5, WholeBytes
<1>7. (a + Size * aa) \div 2 = h /\ (Odd(a + Size * aa) <=> o = 1)
  BY <1>6, HalvedSum
<1>8. Size * high = Size * q + Size * u /\ Size * u \in Int
  BY <1>2, WholeBytes, Distributes
<1> QED BY <1>1, <1>3, <1>4, <1>5, <1>7, <1>8, WholeBytes

LEMMA HalvedWords ==
    ASSUME NEW a \in Byte, NEW aa \in Byte, NEW w, w = a + Size * aa
    PROVE  /\ (w \div 2) + Size * 0 = w \div 2
           /\ (w \div 2) + Size * Half = (w + WordSize) \div 2
           /\ (w \div 2) + Size * (IF Msb(aa) THEN Half ELSE 0) = (SignedWord(w) \div 2) % WordSize
<1>1. w \in 0 .. WordSize - 1 /\ (MsbW(w) <=> Msb(aa))
  BY WordRange, WordMsb
<1>2. PICK h \in Int, o \in {0, 1} : h = w \div 2 /\ w = 2 * h + o
  <2>1. w \in Int
    BY <1>1, HalfWord
  <2>2. w \div 2 \in Int /\ w = 2 * (w \div 2) + (IF Odd(w) THEN 1 ELSE 0)
    BY <2>1, Halves
  <2> QED BY <2>2
<1>3. PICK top \in Int : top = Size * Half /\ WordSize = 2 * top /\ top > 0
  BY HalfWord
<1>4. Size * 0 = 0
  BY WholeBytes
<1>5. (w + WordSize) \div 2 = h + top
  <2>1. w + WordSize = 2 * (h + top) + o /\ w + WordSize \in Int /\ h + top \in Int
    BY <1>1, <1>2, <1>3
  <2> QED BY <2>1, HalvedSum
<1>6. 0 <= h /\ h < top
  BY <1>1, <1>2, <1>3
<1>7. CASE Msb(aa)
  <2>1. SignedWord(w) = 2 * (h - top) + o /\ SignedWord(w) \in Int /\ h - top \in Int
    BY <1>1, <1>2, <1>3, <1>7 DEF SignedWord
  <2>2. SignedWord(w) \div 2 = h - top
    BY <2>1, HalvedSum
  <2>3. (h - top) % WordSize = h - top + WordSize
    <3>1. PICK d : d = h - top
      OBVIOUS
    <3>2. d \in -WordSize .. WordSize - 1 /\ d < 0 /\ WordSize \in Int /\ WordSize > 0
      BY <1>3, <1>6, <3>1
    <3>3. d % WordSize = d + WordSize
      BY <3>2, DifferenceRemainder
    <3> QED BY <3>1, <3>3
  <2> QED BY <1>2, <1>3, <1>4, <1>5, <1>7, <2>2, <2>3
<1>8. CASE ~Msb(aa)
  <2>1. SignedWord(w) = w
    BY <1>1, <1>8 DEF SignedWord
  <2>2. h % WordSize = h
    <3>1. h \in -WordSize .. WordSize - 1 /\ ~(h < 0) /\ WordSize \in Int /\ WordSize > 0
      BY <1>3, <1>6
    <3> QED BY <3>1, DifferenceRemainder
  <2>3. (IF Msb(aa) THEN Half ELSE 0) = 0
    BY <1>8
  <2>4. (SignedWord(w) \div 2) % WordSize = h
    BY <1>2, <2>1, <2>2
  <2> QED BY <1>2, <1>3, <1>4, <1>5, <2>3, <2>4
<1> QED BY <1>7, <1>8

-----------------------------------------------------------------------------
(***************************************************************************)
(* Products of two bytes, and the low word of a product of two words from  *)
(* three of them.                                                          *)
(***************************************************************************)
LEMMA ProductOfBytes ==
    ASSUME NEW x \in Byte, NEW y \in Byte
    PROVE  x * y \in 0 .. WordSize - 1
<1>1. x \in Int /\ y \in Int /\ x * y \in Int
  BY WholeBytes
<1>2. 0 * y <= x * y /\ x * y <= Size * y
  BY WholeBytes, Monotone
<1>3. 0 * y = 0
  BY <1>1
<1>4. y * Size <= (Size - 1) * Size
  BY WholeBytes, Monotone
<1>5. Size * y = y * Size
  BY WholeBytes, Commutes
<1>6. (Size - 1) * Size = WordSize - Size
  BY WholeBytes, Z3 DEF WordSize
<1>7. Size * y \in Int /\ y * Size \in Int
  BY WholeBytes
<1>8. x * y <= WordSize - Size
  BY <1>1, <1>2, <1>4, <1>5, <1>6, <1>7, WholeBytes, HalfWord
<1> QED BY <1>1, <1>2, <1>3, <1>8, WholeBytes, HalfWord

LEMMA SignedProduct ==
    ASSUME NEW x \in Byte, NEW y \in Byte
    PROVE  /\ Signed(x) * y \in Int
           /\ (Signed(x) * y) % WordSize \in 0 .. WordSize - 1
           /\ MsbW((Signed(x) * y) % WordSize) <=> Signed(x) * y < 0
<1>0. Signed(x) \in -Half .. Half - 1
  BY WholeBytes DEF Signed, Msb
<1>1. PICK s \in -Half .. Half - 1 : s = Signed(x)
  BY <1>0
<1>2. s \in Int /\ y \in Int /\ y >= 0 /\ y < Size /\ s * y \in Int
  BY WholeBytes
<1>3. (-Half) * y <= s * y /\ s * y <= (Half - 1) * y
  BY <1>2, WholeBytes, Monotone
<1>4. (-Half) * y = -(Half * y) /\ (Half - 1) * y = Half * y - y /\ Half * y \in Int
  BY WholeBytes, Z3
<1>5. y * Half <= Size * Half /\ y * Half = Half * y
  BY <1>2, WholeBytes, Monotone, Commutes
<1>6. PICK top \in Int : top = Size * Half /\ WordSize = 2 * top /\ top > 0
  BY HalfWord
<1>7. PICK p \in Int : p = s * y
  BY <1>2
<1>8. -top <= p /\ p <= top /\ (p = top => y = 0)
  BY <1>2, <1>3, <1>4, <1>5, <1>6, <1>7
<1>9. p < top
  <2>1. y = 0 => p = 0
    BY <1>2, <1>7
  <2> QED BY <1>6, <1>8, <2>1
<1>10. p % WordSize = IF p < 0 THEN p + WordSize ELSE p
  <2>1. p \in -WordSize .. WordSize - 1 /\ WordSize \in Int /\ WordSize > 0
    BY <1>6, <1>8
  <2> QED BY <2>1, DifferenceRemainder
<1>11. \A w : MsbW(w) <=> w >= top
  BY <1>6 DEF MsbW
<1>12. /\ p % WordSize \in 0 .. WordSize - 1
       /\ MsbW(p % WordSize) <=> p < 0
  <2>1. PICK r : r = p % WordSize
    OBVIOUS
  <2>2. r \in 0 .. WordSize - 1 /\ (r >= top <=> p < 0)
    BY <1>6, <1>8, <1>9, <1>10, <2>1
  <2> QED BY <1>11, <2>1, <2>2
<1> QED BY <1>1, <1>7, <1>12

LEMMA LongProduct ==
    ASSUME NEW a \in Byte, NEW aa \in Byte, NEW b \in Byte, NEW bb \in Byte,
           NEW low, low = (a * b) % Size,
           NEW mid, mid = (((a * b) \div Size) + ((a * bb) % Size)) % Size,
           NEW high, high = (mid + ((aa * b) % Size)) % Size
    PROVE  low + Size * high
             = ((a + Size * aa) * b + Size * (((a + Size * aa) * bb) % Size)) % WordSize
<1>1. /\ a \in Int /\ aa \in Int /\ b \in Int /\ bb \in Int
      /\ a * b \in Int /\ a * bb \in Int /\ aa * b \in Int /\ aa * bb \in Int
  BY WholeBytes
<1>2. PICK q \in Int : low \in 0 .. Size - 1 /\ q = (a * b) \div Size /\ a * b = low + Size * q
  BY <1>1, WholeBytes, Quotient
<1>3. PICK r \in 0 .. Size - 1, i \in Int : r = (a * bb) % Size /\ a * bb = r + Size * i
  BY <1>1, SplitByte
<1>4. PICK t \in 0 .. Size - 1, j \in Int : t = (aa * b) % Size /\ aa * b = t + Size * j
  BY <1>1, SplitByte
<1>5. PICK k \in Int : mid \in 0 .. Size - 1 /\ q + r = mid + Size * k
  <2>1. q + r \in Int
    BY <1>2, <1>3, WholeBytes
  <2>2. mid = (q + r) % Size
    BY <1>2, <1>3
  <2>3. \E x \in 0 .. Size - 1, u \in Int : x = (q + r) % Size /\ q + r = x + Size * u
    BY <2>1, SplitByte
  <2> QED BY <2>2, <2>3
<1>6. PICK l \in Int : high \in 0 .. Size - 1 /\ mid + t = high + Size * l
  <2>1. mid + t \in Int
    BY <1>4, <1>5, WholeBytes
  <2>2. high = (mid + t) % Size
    BY <1>4
  <2>3. \E x \in 0 .. Size - 1, u \in Int : x = (mid + t) % Size /\ mid + t = x + Size * u
    BY <2>1, SplitByte
  <2> QED BY <2>2, <2>3
<1>7. ((a + Size * aa) * bb) % Size = r
  <2>1. (a + Size * aa) * bb = r + Size * (i + aa * bb)
    <3>1. (a + Size * aa) * bb = a * bb + Size * (aa * bb)
      BY <1>1, WholeBytes, Z3
    <3>2. Size * (i + aa * bb) = Size * i + Size * (aa * bb)
      BY <1>1, <1>3, WholeBytes, Distributes
    <3>3. Size * i \in Int /\ Size * (aa * bb) \in Int
      BY <1>1, <1>3, WholeBytes
    <3> QED BY <1>1, <1>3, <3>1, <3>2, <3>3, WholeBytes
  <2>2. (a + Size * aa) * bb \in Int /\ i + aa * bb \in Int
    BY <1>1, <1>3, WholeBytes
  <2>3. PICK n \in Int, m \in Int : n = (a + Size * aa) * bb /\ m = i + aa * bb
    BY <2>2
  <2>4. n % Size = r
    <3>1. n = r + Size * m
      BY <2>1, <2>3
    <3> QED BY <1>3, <2>3, <3>1, ByteRemainder
  <2> QED BY <2>3, <2>4
<1>8. PICK z \in Int : z = k + l + j
  BY <1>4, <1>5, <1>6
<1>9. PICK n \in Int : n = (a + Size * aa) * b + Size * r
  BY <1>1, <1>3, WholeBytes
<1>10. q + r + aa * b = high + Size * z
  <2>1. Size * z = Size * k + Size * l + Size * j
    BY <1>4, <1>5, <1>6, <1>8, WholeBytes, Distributes
  <2>2. Size * k \in Int /\ Size * l \in Int /\ Size * j \in Int
    BY <1>4, <1>5, <1>6, WholeBytes
  <2> QED BY <1>1, <1>2, <1>3, <1>4, <1>5, <1>6, <2>1, <2>2, WholeBytes
<1>11. n = (low + Size * high) + WordSize * z
  <2>1. (a + Size * aa) * b = a * b + Size * (aa * b)
    BY <1>1, WholeBytes, Z3
  <2>2. Size * (q + r + aa * b) = Size * q + Size * r + Size * (aa * b)
    BY <1>1, <1>2, <1>3, WholeBytes, Distributes
  <2>3. Size * (high + Size * z) = Size * high + Size * (Size * z)
    BY <1>6, <1>8, WholeBytes, Distributes
  <2>4. Size * (Size * z) = WordSize * z
    BY <1>8, WholeBytes, Distributes DEF WordSize
  <2>5. /\ Size * q \in Int /\ Size * r \in Int /\ Size * (aa * b) \in Int
        /\ Size * high \in Int /\ WordSize * z \in Int
    BY <1>1, <1>2, <1>3, <1>6, <1>8, WholeBytes, HalfWord
  <2> QED BY <1>1, <1>2, <1>9, <1>10, <2>1, <2>2, <2>3, <2>4, <2>5, WholeBytes
<1>12. PICK w \in 0 .. WordSize - 1 : w = low + Size * high
  <2>1. low \in Byte /\ high \in Byte
    BY <1>2, <1>6, WholeBytes
  <2> QED BY <2>1, WordRange
<1>13. n % WordSize = w
  <2>1. n = w + WordSize * z
    BY <1>11, <1>12
  <2> QED BY <1>8, <1>9, <1>12, <2>1, WordRemainder
<1> QED BY <1>7, <1>9, <1>12, <1>13

-----------------------------------------------------------------------------
(***************************************************************************)
(* Bits. The bits of a byte are a set of places, and every set of places   *)
(* is those of one byte (BitsOfByte); so the bitwise operators are those   *)
(* of sets. That there are as many bytes as sets is FS_SUBSET, from which  *)
(* the laws of powers of two come too (Weight).                            *)
(***************************************************************************)
LEMMA Weight ==
    ASSUME NEW n \in Nat
    PROVE  2 ^ n \in Nat /\ 2 ^ n > 0 /\ 2 ^ (n + 1) = 2 * (2 ^ n)
<1> DEFINE S == 1 .. n
           T == 1 .. (n + 1)
           New == {s \cup {n + 1} : s \in SUBSET S}
<1>1. /\ IsFiniteSet(S) /\ Cardinality(S) = n
      /\ IsFiniteSet(T) /\ Cardinality(T) = n + 1
  BY FS_Interval
<1>2. /\ IsFiniteSet(SUBSET S) /\ Cardinality(SUBSET S) = 2 ^ n
      /\ IsFiniteSet(SUBSET T) /\ Cardinality(SUBSET T) = 2 ^ (n + 1)
  BY <1>1, FS_SUBSET
<1>3. n + 1 \notin S
  OBVIOUS
<1>4. T = S \cup {n + 1}
  OBVIOUS
<1>5. SUBSET T = (SUBSET S) \cup New
  <2> HIDE DEF S, T
  <2>1. ASSUME NEW t \in SUBSET T
        PROVE  t \in SUBSET S \/ t \in New
    <3>1. CASE n + 1 \in t
      <4>1. t \ {n + 1} \in SUBSET S /\ t = (t \ {n + 1}) \cup {n + 1}
        BY <3>1, <1>4
      <4> QED BY <4>1
    <3>2. CASE n + 1 \notin t
      BY <3>2, <1>4
    <3> QED BY <3>1, <3>2
  <2>2. ASSUME NEW t, t \in SUBSET S \/ t \in New
        PROVE  t \in SUBSET T
    BY <1>4, <2>2
  <2> HIDE DEF New
  <2> QED BY <2>1, <2>2
<1>6. (SUBSET S) \cap New = {}
  <2>1. \A t \in New : n + 1 \in t
    OBVIOUS
  <2>2. \A t \in SUBSET S : n + 1 \notin t
    BY <1>3
  <2> HIDE DEF S, New
  <2> QED BY <2>1, <2>2
<1>7. ExistsBijection(SUBSET S, New)
  <2> DEFINE f == [s \in SUBSET S |-> s \cup {n + 1}]
  <2> HIDE DEF S
  <2>1. f \in [SUBSET S -> New]
    <3>1. \A s \in SUBSET S : s \cup {n + 1} \in New
      OBVIOUS
    <3> HIDE DEF New
    <3> QED BY <3>1
  <2>2. ASSUME NEW s \in SUBSET S, NEW t \in SUBSET S, f[s] = f[t]
        PROVE  s = t
    BY <2>2, <1>3
  <2>3. \A t \in New : \E s \in SUBSET S : f[s] = t
    OBVIOUS
  <2>4. f \in Bijection(SUBSET S, New)
    BY <2>1, <2>2, <2>3 DEF Bijection, Injection, Surjection, IsInjective
  <2> QED BY <2>4 DEF ExistsBijection
<1>8. IsFiniteSet(New) /\ Cardinality(New) = 2 ^ n
  BY <1>2, <1>7, FS_Bijection
<1>9. 2 ^ n \in Nat
  BY <1>2, FS_CardinalityType
<1>10. Cardinality((SUBSET S) \cap New) = 0
  BY <1>6, FS_EmptySet
<1> HIDE DEF S, T, New
<1>11. 2 ^ (n + 1) = 2 ^ n + 2 ^ n - 0
  BY <1>2, <1>5, <1>8, <1>10, FS_Union
<1>12. 2 ^ n # 0
  BY <1>2, FS_EmptySet
<1> QED BY <1>9, <1>11, <1>12

LEMMA FirstWeight == 2 ^ 0 = 1
<1>1. IsFiniteSet({}) /\ Cardinality({}) = 0
  BY FS_EmptySet
<1>2. Cardinality(SUBSET {}) = 2 ^ 0
  BY <1>1, FS_SUBSET
<1>3. SUBSET {} = {{}}
  OBVIOUS
<1> QED BY <1>2, <1>3, FS_Singleton

Less == {ss \in Nat \X Nat : ss[1] < ss[2]}

\* The order of the naturals is well founded.
LEMMA LessWF == IsWellFoundedOn(Less, Nat)
<1>1. Less = OpToRel(<, Nat)
  BY DEF OpToRel, Less
<1> QED BY <1>1, NatLessThanWellFounded

\* A set of naturals has a least member.
LEMMA LeastMember ==
    ASSUME NEW T \in SUBSET Nat, T # {}
    PROVE  \E n \in T : \A m \in T : n <= m
<1>1. PICK n \in T : \A m \in T : ~(<<m, n>> \in Less)
  BY LessWF, WFMin
<1>2. \A m \in T : ~(m < n)
  <2> SUFFICES ASSUME NEW m \in T, m < n PROVE <<m, n>> \in Less
    BY <1>1
  <2> QED BY DEF Less
<1>3. n \in Nat /\ T \subseteq Nat
  OBVIOUS
<1> QED BY <1>2, <1>3

\* A quotient is fixed by what is left.
LEMMA IsQuotient ==
    ASSUME NEW m \in Int, m > 0, NEW n \in Int, NEW r \in 0 .. m - 1,
           NEW k \in Int, n = r + m * k
    PROVE  n \div m = k
<1>1. (r + m * k) \div m = k
  BY Z3
<1> QED BY <1>1

\* Halving a quotient divides by twice as much.
LEMMA HalvedQuotient ==
    ASSUME NEW m \in Int, m > 0, NEW n \in Int
    PROVE  n \div (2 * m) = (n \div m) \div 2
<1> DEFINE q == n \div m
           h == q \div 2
           o == IF Odd(q) THEN 1 ELSE 0
           r == n % m
<1>1. q \in Int /\ r \in 0 .. m - 1 /\ n = r + m * q
  BY Quotient
<1>2. h \in Int /\ q = 2 * h + o /\ o \in {0, 1}
  <2> HIDE DEF q
  <2> QED BY <1>1, Halves
<1> HIDE DEF q, h, o, r
<1>3. m * (2 * h + o) = m * (2 * h) + m * o
  BY <1>2, Distributes
<1>4. m * (2 * h) = (2 * m) * h
  BY <1>2, Z3
<1>5. m * o = IF o = 1 THEN m ELSE 0
  BY <1>2, Z3
<1>6. n = (r + m * o) + (2 * m) * h
  <2> DEFINE x == m * (2 * h)
             y == m * o
             z == (2 * m) * h
  <2>1. x \in Int /\ y \in Int /\ n = r + (x + y) /\ x = z
    BY <1>1, <1>2, <1>3, <1>4
  <2> HIDE DEF x, y, z
  <2>2. n = (r + y) + z
    BY <1>1, <2>1
  <2> QED BY <2>2 DEF y, z
<1>7. r + m * o \in 0 .. 2 * m - 1
  BY <1>1, <1>2, <1>5
<1>8. n \div (2 * m) = h
  BY <1>2, <1>6, <1>7, IsQuotient
<1> QED BY <1>8 DEF h, q

LEMMA BitsRange == Width \in Nat /\ Size = 2 ^ Width
  BY WidthAssumption

\* Two bytes with the same bits are equal: from the top bit down, what is
\* left of them after dividing by the weight of a bit is.
LEMMA SameBits ==
    ASSUME NEW x \in Byte, NEW y \in Byte, BitsOf(x) = BitsOf(y)
    PROVE  x = y
<1> DEFINE T == {k \in 0 .. Width : x \div (2 ^ k) = y \div (2 ^ k)}
<1>0. x \in Nat /\ y \in Nat /\ x < Size /\ y < Size /\ Size \in Nat /\ Size > 0
  BY WidthAssumption DEF Byte, Size
<1>1. Width \in T
  <2>1. x \div Size = 0 /\ y \div Size = 0
    BY <1>0, IsQuotient
  <2> QED BY <2>1, BitsRange
<1>2. ASSUME NEW k \in T, k # 0
      PROVE  k - 1 \in T
  <2>1. k - 1 \in Nat /\ k - 1 \in 0 .. Width - 1 /\ (k - 1) + 1 = k
    BY <1>2, BitsRange
  <2> DEFINE w == 2 ^ (k - 1)
             a == x \div w
             b == y \div w
  <2>2. w \in Nat /\ w > 0 /\ 2 ^ k = 2 * w
    BY <2>1, Weight
  <2>3. Odd(a) <=> Odd(b)
    BY <2>1 DEF BitsOf
  <2>4. x \div (2 ^ k) = y \div (2 ^ k)
    OBVIOUS
  <2> HIDE DEF w
  <2>5. a \in Int /\ b \in Int
    BY <1>0, <2>2, Quotient
  <2>6. a \div 2 = b \div 2
    <3>1. x \div (2 * w) = a \div 2
      BY <1>0, <2>2, HalvedQuotient
    <3>2. y \div (2 * w) = b \div 2
      BY <1>0, <2>2, HalvedQuotient
    <3>3. x \div (2 * w) = y \div (2 * w)
      BY <2>2, <2>4
    <3> QED BY <3>1, <3>2, <3>3
  <2> HIDE DEF a, b
  <2>7. a = b
    BY <2>3, <2>5, <2>6, Halves
  <2>8. x \div (2 ^ (k - 1)) = y \div (2 ^ (k - 1)) /\ k - 1 \in 0 .. Width
    BY <2>1, <2>7, BitsRange DEF a, b, w
  <2> QED BY <2>8
<1>3. T \in SUBSET Nat /\ T # {}
  BY <1>1
<1>4. PICK n \in T : \A m \in T : n <= m
  <2> HIDE DEF T
  <2> QED BY <1>3, LeastMember
<1>5. n \in Nat
  BY <1>3
<1>6. 0 \in T
  <2> HIDE DEF T
  <2>1. CASE n = 0
    BY <2>1
  <2>2. CASE n # 0
    BY <1>2, <1>4, <1>5, <2>2
  <2> QED BY <2>1, <2>2
<1>7. x \div 1 = y \div 1
  BY <1>6, FirstWeight
<1> QED BY <1>0, <1>7

Places == 0 .. Width - 1

\* Every set of places is the bits of one byte: there are as many bytes as
\* sets of places, and no two bytes have the same bits.
LEMMA BitsOfByte ==
    ASSUME NEW S \in SUBSET Places
    PROVE  ValueOf(S) \in Byte /\ BitsOf(ValueOf(S)) = S
<1> DEFINE bits == [x \in Byte |-> BitsOf(x)]
<1>1. IsFiniteSet(Places) /\ Cardinality(Places) = Width
  BY BitsRange, FS_Interval DEF Places
<1>2. IsFiniteSet(SUBSET Places) /\ Cardinality(SUBSET Places) = Size
  BY <1>1, BitsRange, FS_SUBSET
<1>3. IsFiniteSet(Byte) /\ Cardinality(Byte) = Size
  <2>1. Size \in Nat /\ Size > 0
    BY WidthAssumption DEF Size
  <2> HIDE DEF Size
  <2> QED BY <2>1, FS_Interval DEF Byte
<1>4. bits \in Injection(Byte, SUBSET Places)
  <2>1. bits \in [Byte -> SUBSET Places]
    <3>1. \A x \in Byte : BitsOf(x) \in SUBSET Places
      BY DEF BitsOf, Places
    <3> QED BY <3>1
  <2>2. IsInjective(bits)
    BY SameBits DEF IsInjective
  <2> QED BY <2>1, <2>2 DEF Injection
<1>5. bits \in Surjection(Byte, SUBSET Places)
  <2> HIDE DEF bits
  <2> QED BY <1>2, <1>3, <1>4, FS_Injection
<1>6. \E x \in Byte : BitsOf(x) = S
  BY <1>5 DEF Surjection
<1> QED BY <1>6 DEF ValueOf

LEMMA ValueOfBits ==
    ASSUME NEW x \in Byte
    PROVE  BitsOf(x) \subseteq Places /\ ValueOf(BitsOf(x)) = x
<1>1. BitsOf(x) \subseteq Places
  BY DEF BitsOf, Places
<1> QED BY <1>1, BitsOfByte, SameBits

\* The bitwise operators of two bytes.
LEMMA Bitwise2 ==
    ASSUME NEW x \in Byte, NEW y \in Byte
    PROVE  /\ And(x, y) \in Byte /\ BitsOf(And(x, y)) = BitsOf(x) \cap BitsOf(y)
           /\ Or(x, y) \in Byte /\ BitsOf(Or(x, y)) = BitsOf(x) \cup BitsOf(y)
           /\ Xor(x, y) \in Byte
           /\ BitsOf(Xor(x, y)) = (BitsOf(x) \cup BitsOf(y)) \ (BitsOf(x) \cap BitsOf(y))
<1>1. BitsOf(x) \subseteq Places /\ BitsOf(y) \subseteq Places
  BY ValueOfBits
<1> QED BY <1>1, BitsOfByte DEF And, Or, Xor

\* A weight divides every higher one, an even number of times.
LEMMA EvenMultiple ==
    ASSUME NEW i \in Nat, NEW n \in Nat, i < n
    PROVE  \E c \in Nat : 2 ^ n = 2 ^ i * (2 * c)
<1> DEFINE Multiple(k) == \E c \in Nat : 2 ^ k = 2 ^ i * (2 * c)
           T == {k \in Nat : i < k /\ ~Multiple(k)}
<1> SUFFICES ASSUME T # {} PROVE FALSE
  OBVIOUS
<1>1. PICK k \in T : \A m \in T : k <= m
  <2>1. T \in SUBSET Nat
    OBVIOUS
  <2> HIDE DEF T
  <2> QED BY <2>1, LeastMember
<1>2. k \in Nat /\ i < k /\ ~Multiple(k) /\ k - 1 \in Nat /\ (k - 1) + 1 = k
  BY <1>1
<1>3. 2 ^ k = 2 * 2 ^ (k - 1) /\ 2 ^ (k - 1) \in Nat /\ 2 ^ i \in Nat
  BY <1>2, Weight
<1>4. CASE k - 1 = i
  <2>1. 2 * 2 ^ i = 2 ^ i * (2 * 1)
    BY <1>3
  <2> QED BY <1>2, <1>3, <1>4, <2>1
<1>5. CASE k - 1 # i
  <2>1. k - 1 \notin T
    BY <1>1, <1>2
  <2>2. PICK c \in Nat : 2 ^ (k - 1) = 2 ^ i * (2 * c)
    BY <1>2, <1>5, <2>1
  <2> DEFINE w == 2 ^ i
  <2>3. w \in Nat /\ 2 ^ (k - 1) = w * (2 * c)
    BY <1>3, <2>2
  <2>4. 2 * (w * (2 * c)) = w * (2 * (2 * c))
    <3> HIDE DEF w
    <3> QED BY <2>3, Z3
  <2>5. 2 ^ k = 2 ^ i * (2 * (2 * c)) /\ 2 * c \in Nat
    BY <1>3, <2>3, <2>4
  <2> QED BY <1>2, <2>5
<1> QED BY <1>4, <1>5

\* COM turns every bit over.
LEMMA Complement ==
    ASSUME NEW x \in Byte
    PROVE  Size - 1 - x \in Byte /\ BitsOf(Size - 1 - x) = Places \ BitsOf(x)
<1>0. Size \in Int /\ x \in Int /\ 0 <= x /\ x < Size
  BY WidthAssumption DEF Size, Byte
<1>1. ASSUME NEW i \in Places
      PROVE  Odd((Size - 1 - x) \div 2 ^ i) <=> ~Odd(x \div 2 ^ i)
  <2> DEFINE w == 2 ^ i
             q == x \div w
             r == x % w
  <2>1. i \in Nat /\ i < Width
    BY BitsRange DEF Places
  <2>2. w \in Nat /\ w > 0
    BY <2>1, Weight
  <2>3. PICK c \in Nat : Size = w * (2 * c)
    BY <2>1, BitsRange, EvenMultiple
  <2> HIDE DEF w
  <2>4. q \in Int /\ r \in 0 .. w - 1 /\ x = r + w * q
    BY <1>0, <2>2, Quotient
  <2> HIDE DEF q, r
  <2> DEFINE k == 2 * c - 1 - q
             y == Size - 1 - x
  <2>5. w * (2 * c) = w * (k + (1 + q)) /\ w * (k + (1 + q)) = w * k + w * (1 + q)
        /\ w * (1 + q) = w * 1 + w * q
    <3>1. k \in Int /\ k + (1 + q) = 2 * c
      BY <2>4
    <3> HIDE DEF k
    <3> QED BY <2>2, <2>4, <3>1, Distributes
  <2>6. y = (w - 1 - r) + w * k /\ k \in Int
    <3> DEFINE a == w * (2 * c)
               b == w * q
               d == w * k
               e == w * (1 + q)
    <3>1. k \in Int
      BY <2>4
    <3> HIDE DEF k
    <3>2. a \in Int /\ b \in Int /\ d \in Int /\ a = d + e /\ e = w + b /\ e \in Int
          /\ Size = a /\ x = r + b
      BY <2>2, <2>3, <2>4, <2>5, <3>1
    <3> HIDE DEF a, b, d, e
    <3>3. y = (w - 1 - r) + d
      BY <2>2, <2>4, <3>2
    <3> QED BY <3>1, <3>3 DEF d
  <2>7. w - 1 - r \in 0 .. w - 1
    BY <2>2, <2>4
  <2>8. y \div w = k
    <3>1. y \in Int
      BY <1>0
    <3> HIDE DEF y, k
    <3> QED BY <2>2, <2>6, <2>7, <3>1, IsQuotient
  <2>9. Odd(k) <=> ~Odd(q)
    BY <2>4, Z3 DEF Odd
  <2> QED BY <2>8, <2>9 DEF y, q, w
<1>2. Size - 1 - x \in Byte
  BY <1>0 DEF Byte
<1> QED BY <1>1, <1>2 DEF BitsOf, Places

\* SWAP exchanges the nibbles of a byte.
LEMMA Swapped ==
    ASSUME NEW x \in Byte
    PROVE  LET y == (x % Nibble) * (Size \div Nibble) + x \div Nibble
           IN  /\ y \in Byte
               /\ (y % Nibble) * (Size \div Nibble) + y \div Nibble = x
<1> DEFINE low == x % Nibble
           high == x \div Nibble
           y == low * Nibble + high
<1>1. Nibble \in Int /\ Nibble > 0 /\ Size = Nibble * Nibble
  BY WidthAssumption
<1>2. Size \div Nibble = Nibble
  BY <1>1, IsQuotient, Z3
<1>3. low \in 0 .. Nibble - 1 /\ high \in Int /\ x = low + Nibble * high
  BY <1>1, Quotient, WholeBytes
<1> HIDE DEF low, high
<1>4. high \in 0 .. Nibble - 1
  <2>1. low + Nibble * high < Nibble * Nibble <=> high < Nibble
    BY <1>1, <1>3, Lexical
  <2>2. low + Nibble * high < Nibble * 0 <=> high < 0
    BY <1>1, <1>3, Lexical
  <2> QED BY <1>1, <1>3, <2>1, <2>2, WholeBytes
<1>5. Nibble * low \in Int /\ Nibble * low >= 0 /\ low * Nibble = Nibble * low
  BY <1>1, <1>3, Z3
<1>6. high + Nibble * low < Nibble * Nibble
  BY <1>1, <1>3, <1>4, Lexical
<1>7. y = high + Nibble * low /\ y \in Byte
  BY <1>1, <1>3, <1>4, <1>5, <1>6, WholeBytes
<1>8. y % Nibble = high /\ y \div Nibble = low
  BY <1>1, <1>3, <1>4, <1>5, <1>7, IsRemainder, IsQuotient
<1>9. high * Nibble = Nibble * high
  BY <1>1, <1>4, Commutes
<1>10. (y % Nibble) * Nibble + y \div Nibble = x
  BY <1>1, <1>3, <1>4, <1>8, <1>9
<1> HIDE DEF y
<1> QED BY <1>2, <1>7, <1>10 DEF low, high, y

-----------------------------------------------------------------------------
(***************************************************************************)
(* One step. Held: registers hold bytes and flags are Booleans, which the  *)
(* proofs need of the programs they follow only. OneInstruction: a step    *)
(* executes the instruction the program is at.                             *)
(***************************************************************************)
Held == /\ regs \in [Registers -> Byte] /\ before \in [Registers -> Byte]
        /\ sreg \in [Flags -> BOOLEAN]

LEMMA OneInstruction ==
    ASSUME Next, Running
    PROVE  /\ next' = next + 1 /\ UNCHANGED <<prog, before>>
           /\ Inst.op = "ADD"  => Adding(0)
           /\ Inst.op = "ADC"  => Adding(Num(sreg["C"]))
           /\ Inst.op = "SUB"  => Subtracting(0)
           /\ Inst.op = "SBC"  => Subtracting(Num(sreg["C"]))
           /\ Inst.op = "CP"   => Comparing(0)
           /\ Inst.op = "CPC"  => Comparing(Num(sreg["C"]))
           /\ Inst.op = "SBCI" => SBCI
           /\ Inst.op = "SBIW" => SBIW
           /\ Inst.op = "NEG"  => NEG
           /\ Inst.op = "COM"  => COM
           /\ Inst.op = "LSR"  => LSR
           /\ Inst.op = "ASR"  => ASR
           /\ Inst.op = "ROR"  => ROR
           /\ Inst.op = "SEx"  => SEx
           /\ Inst.op = "MUL"  => MUL
           /\ Inst.op = "MULS" => MULS
           /\ Inst.op = "MULSU" => MULSU
           /\ Inst.op = "FMUL" => FMUL
           /\ Inst.op = "MOVW" => MOVW
           /\ Inst.op = "INC"  => INC
           /\ Inst.op = "DEC"  => DEC
           /\ Inst.op = "CLx"  => CLx
           /\ Inst.op = "ADIW" => ADIW
           /\ Inst.op = "AND"  => AND
           /\ Inst.op = "ANDI" => ANDI
           /\ Inst.op = "OR"   => OR
           /\ Inst.op = "ORI"  => ORI
           /\ Inst.op = "EOR"  => EOR
           /\ Inst.op = "SWAP" => SWAP
           /\ Inst.op = "MOV"  => MOV
           /\ Inst.op = "LDI"  => LDI
<1>1. CASE Arithmetic
  BY <1>1 DEF Arithmetic, Inst, Execute, ADD, ADC, SUB, SBC, CP, CPC, SUBI, SBCI, CPI,
              ADIW, SBIW, NEG, INC, DEC
<1>2. CASE Products
  BY <1>2 DEF Products, Inst, Execute, Multiplied, MUL, MULS, MULSU, FMUL, FMULS, FMULSU
<1>3. CASE Bits
  BY <1>3 DEF Bits, Inst, Execute, Logical, Shifted, Moved, Flagged, AND, ANDI, OR, ORI,
              EOR, COM, LSR, ROR, ASR, SWAP, MOV, LDI, MOVW, SEx, CLx, BST, BLD
<1>4. CASE Finished
  BY <1>4 DEF Finished
<1> QED BY <1>1, <1>2, <1>3, <1>4 DEF Next

LEMMA Stopped == Next /\ ~Running => UNCHANGED vars
  BY DEF Next, Arithmetic, ADD, ADC, SUB, SBC, CP, CPC, SUBI, SBCI, CPI, ADIW, SBIW,
         NEG, INC, DEC, Products, MUL, MULS, MULSU, FMUL, FMULS, FMULSU, Bits, AND, ANDI,
         OR, ORI, EOR, COM, LSR, ROR, ASR, SWAP, MOV, LDI, MOVW, SEx, CLx, BST, BLD,
         Multiplied, Logical, Shifted, Moved, Flagged, Execute, Finished

LEMMA InitHeld == Init => Held /\ next = 1 /\ before = regs
<1> SUFFICES ASSUME Init
             PROVE  Held /\ next = 1 /\ before = regs
  OBVIOUS
<1>1. Inputs \subseteq Byte /\ 0 \in Byte
  BY WidthAssumption, WholeBytes
<1>2. regs \in [Registers -> Byte]
  BY <1>1 DEF Init
<1> QED BY <1>2 DEF Init, Held

LEMMA ByteAdded ==
    ASSUME Held, NEW d \in Registers, NEW r \in Registers, Inst.d = d, Inst.r = r,
           NEW c \in {0, 1}, Adding(c), UNCHANGED before,
           NEW x, x = regs[d], NEW y, y = regs[r], NEW res, res = (x + y + c) % Size
    PROVE  /\ Held'
           /\ regs'[d] = res /\ \A q \in Registers \ {d} : regs'[q] = regs[q]
           /\ sreg'["C"] <=> Carried(Msb(x), Msb(y), Msb(res))
           /\ sreg'["V"] <=> AddOverflow(Msb(x), Msb(y), Msb(res))
           /\ sreg'["S"] <=> (Msb(res) # AddOverflow(Msb(x), Msb(y), Msb(res)))
           /\ sreg'["H"] <=> Carried(Mid(x), Mid(y), Mid(res))
<1>1. x \in Byte /\ y \in Byte
  BY DEF Held
<1>2. res \in Byte
  BY <1>1, CarryOut
<1>3. regs' = [regs EXCEPT ![d] = res]
  BY DEF Adding, Rd, Rr
<1>4. regs' \in [Registers -> Byte] /\ before' \in [Registers -> Byte]
  BY <1>2, <1>3 DEF Held
<1> DEFINE v == AddOverflow(Msb(x), Msb(y), Msb(res))
           h == Carried(Mid(x), Mid(y), Mid(res))
           k == Carried(Msb(x), Msb(y), Msb(res))
           n == Msb(res)
           z == res = 0
           t == n # v
<1>5. sreg' = [[sreg EXCEPT !["N"] = n, !["Z"] = z, !["V"] = v, !["S"] = t]
                 EXCEPT !["H"] = h, !["C"] = k]
  BY DEF Adding, Rd, Rr, ByteFlags, NZVS
<1>6. /\ v \in BOOLEAN /\ h \in BOOLEAN /\ k \in BOOLEAN
      /\ n \in BOOLEAN /\ z \in BOOLEAN /\ t \in BOOLEAN
  BY DEF AddOverflow, Carried, Msb, Mid
<1>7. sreg \in [Flags -> BOOLEAN]
  BY DEF Held
<1> HIDE DEF v, h, k, n, z, t
<1>8. /\ sreg' \in [Flags -> BOOLEAN]
      /\ sreg'["C"] = k /\ sreg'["V"] = v /\ sreg'["S"] = t /\ sreg'["H"] = h
  <2>1. /\ "C" \in Flags /\ "V" \in Flags /\ "S" \in Flags /\ "H" \in Flags
    BY DEF Flags
  <2>2. sreg' \in [Flags -> BOOLEAN]
    BY <1>5, <1>6, <1>7, SMT DEF Flags
  <2>3. sreg'["C"] = k
    BY <1>5, <1>7, <2>1, SMT
  <2>4. sreg'["V"] = v
    BY <1>5, <1>7, <2>1, SMT
  <2>5. sreg'["S"] = t
    BY <1>5, <1>7, <2>1, SMT
  <2>6. sreg'["H"] = h
    BY <1>5, <1>7, <2>1, SMT
  <2> QED BY <2>2, <2>3, <2>4, <2>5, <2>6
<1> QED BY <1>3, <1>4, <1>6, <1>8 DEF Held, v, h, k, n, t

LEMMA ByteSubtracted ==
    ASSUME Held, NEW d \in Registers, NEW r \in Registers, Inst.d = d, Inst.r = r,
           NEW c \in {0, 1}, Subtracting(c) \/ Comparing(c), UNCHANGED before,
           NEW x, x = regs[d], NEW y, y = regs[r], NEW res, res = (x - y - c) % Size
    PROVE  /\ Held'
           /\ Subtracting(c) => regs' = [regs EXCEPT ![d] = res]
           /\ Comparing(c) => regs' = regs
           /\ sreg'["C"] <=> Borrowed(Msb(x), Msb(y), Msb(res))
           /\ sreg'["V"] <=> SubOverflow(Msb(x), Msb(y), Msb(res))
           /\ sreg'["S"] <=> (Msb(res) # SubOverflow(Msb(x), Msb(y), Msb(res)))
<1>1. x \in Byte /\ y \in Byte
  BY DEF Held
<1>2. res \in Byte
  BY <1>1, BorrowOut
<1>3. /\ Subtracting(c) => regs' = [regs EXCEPT ![d] = res]
      /\ Comparing(c) => regs' = regs
  BY DEF Subtracting, Comparing, Difference, Rd, Rr
<1>4. regs' \in [Registers -> Byte] /\ before' \in [Registers -> Byte]
  BY <1>2, <1>3 DEF Held
<1> DEFINE v == SubOverflow(Msb(x), Msb(y), Msb(res))
           h == Borrowed(Mid(x), Mid(y), Mid(res))
           k == Borrowed(Msb(x), Msb(y), Msb(res))
           n == Msb(res)
           z == res = 0
           t == n # v
<1>5. sreg' = [[sreg EXCEPT !["N"] = n, !["Z"] = z, !["V"] = v, !["S"] = t]
                 EXCEPT !["H"] = h, !["C"] = k]
  BY DEF Subtracting, Comparing, SubFlags, Difference, Rd, Rr, ByteFlags, NZVS
<1>6. /\ v \in BOOLEAN /\ h \in BOOLEAN /\ k \in BOOLEAN
      /\ n \in BOOLEAN /\ z \in BOOLEAN /\ t \in BOOLEAN
  BY DEF SubOverflow, Borrowed, Msb, Mid
<1>7. sreg \in [Flags -> BOOLEAN]
  BY DEF Held
<1> HIDE DEF v, h, k, n, z, t
<1>8. /\ sreg' \in [Flags -> BOOLEAN]
      /\ sreg'["C"] = k /\ sreg'["V"] = v /\ sreg'["S"] = t
  <2>1. "C" \in Flags /\ "V" \in Flags /\ "S" \in Flags
    BY DEF Flags
  <2>2. sreg' \in [Flags -> BOOLEAN]
    BY <1>5, <1>6, <1>7, SMT DEF Flags
  <2>3. sreg'["C"] = k
    BY <1>5, <1>7, <2>1, SMT
  <2>4. sreg'["V"] = v
    BY <1>5, <1>7, <2>1, SMT
  <2>5. sreg'["S"] = t
    BY <1>5, <1>7, <2>1, SMT
  <2> QED BY <2>2, <2>3, <2>4, <2>5
<1> QED BY <1>3, <1>4, <1>6, <1>8 DEF Held, v, k, n, t

LEMMA ShiftedByte ==
    ASSUME Held, NEW op, NEW top \in BOOLEAN, Shifted(op, top), NEW d \in Registers, Inst.d = d,
           NEW x, x = regs[d], NEW res, res = (x \div 2) + (IF top THEN Half ELSE 0)
    PROVE  Held' /\ regs' = [regs EXCEPT ![d] = res] /\ (sreg'["C"] <=> Odd(x))
<1>1. x \in Byte
  BY DEF Held
<1>2. res \in Byte
  <2>1. x \in Int /\ 0 <= x /\ x < 2 * Half /\ Half \in Int
    BY <1>1, WholeBytes
  <2>2. x \div 2 \in Int /\ 0 <= x \div 2 /\ x \div 2 < Half
    BY <2>1, Halves
  <2> QED BY <2>1, <2>2, WholeBytes
<1>3. Rd = x
  BY DEF Rd
<1> DEFINE n == Msb(res)
           z == res = 0
           v == top # Odd(x)
           t == n # v
           k == Odd(x)
<1>4. /\ regs' = [regs EXCEPT ![d] = res]
      /\ sreg' = [[sreg EXCEPT !["N"] = n, !["Z"] = z, !["V"] = v, !["S"] = t]
                    EXCEPT !["C"] = k]
      /\ before' = before
  BY <1>3 DEF Shifted, ByteFlags, NZVS, Execute
<1>5. n \in BOOLEAN /\ z \in BOOLEAN /\ v \in BOOLEAN /\ t \in BOOLEAN /\ k \in BOOLEAN
  BY DEF Msb, Odd
<1> HIDE DEF n, z, v, t, k
<1>6. sreg' \in [Flags -> BOOLEAN]
  BY <1>4, <1>5, SMT DEF Held, Flags
<1>7. sreg'["C"] = k
  BY <1>4, SMT DEF Held, Flags
<1>8. regs' \in [Registers -> Byte]
  BY <1>2, <1>4 DEF Held
<1> QED BY <1>4, <1>6, <1>7, <1>8 DEF Held, k

LEMMA StoredProduct ==
    ASSUME regs \in [Registers -> Byte], NEW w \in 0 .. WordSize - 1, regs' = Stored(P, w)
    PROVE  /\ regs' \in [Registers -> Byte]
           /\ Word(regs', P) = w
           /\ regs'[P] = w % Size /\ regs'[P + 1] = w \div Size
           /\ \A r \in Registers \ {P, P + 1} : regs'[r] = regs[r]
<1>1. w % Size \in Byte /\ w \div Size \in Byte /\ (w % Size) + Size * (w \div Size) = w
  BY TwoBytes
<1>2. regs' = [regs EXCEPT ![P] = w % Size, ![P + 1] = w \div Size]
  BY DEF Stored
<1>3. P \in Registers /\ P + 1 \in Registers /\ P # P + 1
  BY DEF P, Registers
<1>4. /\ regs' \in [Registers -> Byte]
      /\ regs'[P] = w % Size /\ regs'[P + 1] = w \div Size
      /\ \A r \in Registers \ {P, P + 1} : regs'[r] = regs[r]
  BY <1>1, <1>2, <1>3
<1> QED BY <1>1, <1>4 DEF Word

-----------------------------------------------------------------------------
(***************************************************************************)
(* Sums. The invariant follows the program: until its low bytes are added  *)
(* (Fresh) the operands are those it started with and a cleared carry is   *)
(* still clear; from then on, through the counter between the two          *)
(* additions, the low byte of the sum and its carry wait for the second.   *)
(***************************************************************************)
Other == IF prog = "double" THEN A ELSE B

Fresh == next = 1 \/ (prog = "clear-add" /\ next = 2)

LowCarry == sreg["C"] <=> before[A] + before[Other] >= Size

BytesAdded ==
    \E c \in {0, 1} :
      LET x == before[A + 1]
          y == before[Other + 1]
          high == (x + y + c) % Size
      IN  /\ c = 1 <=> before[A] + before[Other] >= Size
          /\ regs[A] = (before[A] + before[Other]) % Size
          /\ regs[A + 1] = high
          /\ sreg["C"] <=> Carried(Msb(x), Msb(y), Msb(high))
          /\ sreg["V"] <=> AddOverflow(Msb(x), Msb(y), Msb(high))
          /\ sreg["S"] <=> (Msb(high) # AddOverflow(Msb(x), Msb(y), Msb(high)))
          /\ sreg["H"] <=> Carried(Mid(x), Mid(y), Mid(high))

SumInv ==
    prog \in Additions =>
      /\ Held /\ next \in Nat \ {0}
      /\ Running => /\ regs[A + 1] = before[A + 1]
                    /\ regs[B] = before[B] /\ regs[B + 1] = before[B + 1]
      /\ Running /\ Fresh => /\ regs[A] = before[A]
                             /\ next = 2 => ~sreg["C"]
      /\ Running /\ ~Fresh => /\ regs[A] = (before[A] + before[Other]) % Size
                              /\ LowCarry
      /\ WideSum

LEMMA Scripts ==
    /\ prog = "add" => Code = <<I("ADD", A, B), I("ADC", A+1, B+1)>>
    /\ prog = "add-loop" =>
          Code = <<I("ADD", A, B), I("INC", X, X), I("DEC", X, X), I("ADC", A+1, B+1)>>
    /\ prog = "clear-add" => Code = <<I("CLx", "C", "C"), I("ADC", A, B), I("ADC", A+1, B+1)>>
    /\ prog = "add-word" => Code = <<I("ADIW", A, ShortK)>>
    /\ prog = "double" => Code = <<I("ADD", A, A), I("ADC", A+1, A+1)>>
  BY DEF Code

LEMMA BytesToWords ==
    Held /\ prog \in Additions \ {"add-word"} /\ BytesAdded => WideSum
<1> SUFFICES ASSUME Held, prog \in Additions, prog # "add-word", BytesAdded
             PROVE  WideSum
  OBVIOUS
<1> DEFINE a == before[A]
           aa == before[A + 1]
           b == before[Other]
           bb == before[Other + 1]
           low == regs[A]
           high == regs[A + 1]
<1>1. /\ a \in Byte /\ aa \in Byte /\ b \in Byte /\ bb \in Byte
      /\ A \in Registers /\ A + 1 \in Registers
  BY DEF Held, Other, Registers, A, B
<1>2. PICK c \in {0, 1} :
          /\ c = 1 <=> a + b >= Size
          /\ low = (a + b) % Size
          /\ high = (aa + bb + c) % Size
          /\ sreg["C"] <=> Carried(Msb(aa), Msb(bb), Msb(high))
          /\ sreg["V"] <=> AddOverflow(Msb(aa), Msb(bb), Msb(high))
          /\ sreg["S"] <=> (Msb(high) # AddOverflow(Msb(aa), Msb(bb), Msb(high)))
          /\ sreg["H"] <=> Carried(Mid(aa), Mid(bb), Mid(high))
  BY DEF BytesAdded
<1>3. WordA = a + Size * aa /\ Addend = b + Size * bb
  BY DEF WordA, WordB, Addend, Word, Other, A, B
<1> HIDE DEF a, aa, b, bb, low, high
<1>4. PICK wa, wb : wa = WordA /\ wb = Addend
  OBVIOUS
<1>5. /\ low + Size * high = (wa + wb) % WordSize
      /\ Carried(Msb(aa), Msb(bb), Msb(high)) <=> wa + wb >= WordSize
  BY <1>1, <1>2, <1>3, <1>4, SumOfWords
<1>6. /\ AddOverflow(Msb(aa), Msb(bb), Msb(high))
           <=> ~FitsWord(SignedWord(wa) + SignedWord(wb))
      /\ (Msb(high) # AddOverflow(Msb(aa), Msb(bb), Msb(high)))
           <=> SignedWord(wa) + SignedWord(wb) < 0
  BY <1>1, <1>2, <1>3, <1>4, SignedSumOfWords
<1>7. Carried(Mid(aa), Mid(bb), Mid(high))
        <=> (wa % (Size * Nibble)) + (wb % (Size * Nibble)) >= Size * Nibble
  BY <1>1, <1>2, <1>3, <1>4, MiddleSumOfWords
<1>8. /\ sreg["C"] \in BOOLEAN /\ sreg["V"] \in BOOLEAN
      /\ sreg["S"] \in BOOLEAN /\ sreg["H"] \in BOOLEAN
  BY DEF Held, Flags
<1>9. Word(regs, A) = (WordA + Addend) % WordSize
  BY <1>4, <1>5 DEF Word, low, high
<1>10. sreg["C"] = (WordA + Addend >= WordSize)
  BY <1>2, <1>4, <1>5, <1>8
<1>11. sreg["V"] = ~FitsWord(SignedWord(WordA) + SignedWord(Addend))
  BY <1>2, <1>4, <1>6, <1>8
<1>12. sreg["S"] = (SignedWord(WordA) + SignedWord(Addend) < 0)
  BY <1>2, <1>4, <1>6, <1>8
<1>13. sreg["H"] = ((WordA % (Size * Nibble)) + (Addend % (Size * Nibble)) >= Size * Nibble)
  BY <1>2, <1>4, <1>7, <1>8
<1> QED BY <1>9, <1>10, <1>11, <1>12, <1>13, Zenon DEF WideSum

LEMMA WordAdded ==
    ASSUME Held, prog = "add-word", regs[A] = before[A], regs[A + 1] = before[A + 1],
           Inst.d = A, Inst.r = ShortK, ADIW
    PROVE  Held' /\ WideSum'
<1> DEFINE word == Word(regs, A)
           res == (word + ShortK) % WordSize
<1>1. word \in 0 .. WordSize - 1 /\ word = WordA
  <2>1. regs[A] \in Byte /\ regs[A + 1] \in Byte
    BY DEF Held, Registers, A
  <2>2. regs[A] + Size * regs[A + 1] \in 0 .. WordSize - 1
    BY <2>1, WordRange
  <2> QED BY <2>2 DEF Word, WordA
<1>2. ShortK \in 0 .. Nibble - 1
  <2>1. before[B] \in Byte
    BY DEF Held, Registers, B
  <2> QED BY <2>1, WholeBytes, Nibbles, Quotient DEF ShortK, LowK
<1>3. /\ regs' = Stored(A, res)
      /\ sreg' = [NZVS(MsbW(res), res = 0, MsbW(res) /\ ~MsbW(word))
                    EXCEPT !["C"] = ~MsbW(res) /\ MsbW(word)]
      /\ UNCHANGED <<prog, before>>
  BY DEF ADIW, K, Execute
<1>4. PICK w, r : w = word /\ r = res
  OBVIOUS
<1>5. Addend = ShortK /\ Addend' = ShortK /\ WordA' = WordA
  BY <1>3 DEF Addend, WordA, Word, ShortK, LowK
<1> HIDE DEF word, res
<1>6. r = (w + ShortK) % WordSize
  BY <1>4 DEF res
<1>7. /\ r \in 0 .. WordSize - 1
      /\ (~MsbW(r) /\ MsbW(w)) <=> w + ShortK >= WordSize
      /\ (MsbW(r) /\ ~MsbW(w)) <=> ~FitsWord(SignedWord(w) + SignedWord(ShortK))
      /\ (MsbW(r) # (MsbW(r) /\ ~MsbW(w)))
           <=> SignedWord(w) + SignedWord(ShortK) < 0
  BY <1>1, <1>2, <1>4, <1>6, SumWithShort
<1>8. r % Size \in Byte /\ r \div Size \in Byte /\ (r % Size) + Size * (r \div Size) = r
  BY <1>7, TwoBytes
<1>9. /\ regs' \in [Registers -> Byte]
      /\ regs'[A] = r % Size /\ regs'[A + 1] = r \div Size
  <2>1. regs' = [regs EXCEPT ![A] = r % Size, ![A + 1] = r \div Size]
    BY <1>3, <1>4 DEF Stored
  <2>2. A \in Registers /\ A + 1 \in Registers /\ A # A + 1
    BY DEF A, Registers
  <2> QED BY <1>8, <2>1, <2>2 DEF Held
<1> DEFINE n == MsbW(r)
           z == r = 0
           v == MsbW(r) /\ ~MsbW(w)
           t == n # v
           k == ~MsbW(r) /\ MsbW(w)
<1>10. sreg' = [[sreg EXCEPT !["N"] = n, !["Z"] = z, !["V"] = v, !["S"] = t] EXCEPT !["C"] = k]
  BY <1>3, <1>4 DEF NZVS
<1>11. n \in BOOLEAN /\ z \in BOOLEAN /\ v \in BOOLEAN /\ t \in BOOLEAN /\ k \in BOOLEAN
  BY DEF MsbW
<1> HIDE DEF n, z, v, t, k
<1>12. sreg' \in [Flags -> BOOLEAN]
  BY <1>10, <1>11, SMT DEF Held, Flags
<1>13. "C" \in Flags /\ "V" \in Flags /\ "S" \in Flags
  BY DEF Flags
<1>14. sreg'["C"] = k
  BY <1>10, <1>13, SMT DEF Held
<1>15. sreg'["V"] = v
  BY <1>10, <1>13, SMT DEF Held
<1>16. sreg'["S"] = t
  BY <1>10, <1>13, SMT DEF Held
<1>17. Word(regs', A) = (WordA + Addend) % WordSize
  BY <1>1, <1>4, <1>5, <1>6, <1>8, <1>9 DEF Word
<1>18. sreg'["C"] = (WordA + Addend >= WordSize)
  BY <1>1, <1>4, <1>5, <1>7, <1>11, <1>14 DEF k
<1>19. sreg'["V"] = ~FitsWord(SignedWord(WordA) + SignedWord(Addend))
  BY <1>1, <1>4, <1>5, <1>7, <1>11, <1>15 DEF v
<1>20. sreg'["S"] = (SignedWord(WordA) + SignedWord(Addend) < 0)
  BY <1>1, <1>4, <1>5, <1>7, <1>11, <1>16 DEF t, n, v
<1>21. WideSum'
  BY <1>3, <1>5, <1>17, <1>18, <1>19, <1>20 DEF WideSum
<1> QED BY <1>3, <1>9, <1>12, <1>21 DEF Held

LEMMA LowByteAdded ==
    ASSUME Held, prog \in Additions, prog # "add-word", UNCHANGED <<prog, before>>,
           Running, Inst.d = A, Inst.r = Other,
           regs[A] = before[A], regs[A + 1] = before[A + 1],
           regs[B] = before[B], regs[B + 1] = before[B + 1], Adding(0)
    PROVE  /\ Held'
           /\ regs'[A] = (before[A] + before[Other]) % Size
           /\ regs'[A + 1] = before[A + 1]
           /\ regs'[B] = before[B] /\ regs'[B + 1] = before[B + 1]
           /\ LowCarry'
<1>1. /\ A \in Registers /\ Other \in Registers
      /\ A + 1 \in Registers \ {A} /\ B \in Registers \ {A} /\ B + 1 \in Registers \ {A}
  BY DEF A, B, Other, Registers
<1>0. PICK c \in {0, 1} : c = 0
  OBVIOUS
<1>2. PICK x, y, res : x = regs[A] /\ y = regs[Other] /\ res = (x + y + c) % Size
  OBVIOUS
<1>3. x = before[A] /\ y = before[Other] /\ x \in Byte /\ y \in Byte
  BY <1>1, <1>2 DEF Held, Other
<1>4. /\ Held'
      /\ regs'[A] = res /\ \A q \in Registers \ {A} : regs'[q] = regs[q]
      /\ sreg'["C"] <=> Carried(Msb(x), Msb(y), Msb(res))
  <2>1. Adding(c)
    BY <1>0
  <2> QED BY <1>1, <1>2, <2>1, ByteAdded
<1>5. Carried(Msb(x), Msb(y), Msb(res)) <=> x + y + c >= Size
  BY <1>2, <1>3, CarryOut
<1>6. x + y + c = x + y
  BY <1>0, <1>3, WholeBytes
<1>7. regs'[A] = (before[A] + before[Other]) % Size
  BY <1>2, <1>3, <1>4, <1>6
<1>8. LowCarry'
  <2>1. before' = before /\ Other' = Other
    BY DEF Other
  <2>2. sreg'["C"] <=> before[A] + before[Other] >= Size
    BY <1>3, <1>4, <1>5, <1>6
  <2> QED BY <2>1, <2>2 DEF LowCarry
<1> QED BY <1>1, <1>4, <1>7, <1>8

LEMMA HighByteAdded ==
    ASSUME Held, prog \in Additions, prog # "add-word", UNCHANGED <<prog, before>>,
           Inst.d = A + 1, Inst.r = Other + 1, Adding(Num(sreg["C"])),
           regs[A] = (before[A] + before[Other]) % Size, regs[A + 1] = before[A + 1],
           regs[B + 1] = before[B + 1],
           LowCarry
    PROVE  Held' /\ BytesAdded'
<1>1. /\ A + 1 \in Registers /\ Other + 1 \in Registers /\ A \in Registers \ {A + 1}
  BY DEF A, B, Other, Registers
<1>2. PICK c \in {0, 1} : c = Num(sreg["C"])
  BY DEF Num
<1>3. c = 1 <=> before[A] + before[Other] >= Size
  BY <1>2 DEF Num, LowCarry
<1>4. PICK x, y, high : /\ x = regs[A + 1] /\ y = regs[Other + 1]
                        /\ high = (x + y + c) % Size
  OBVIOUS
<1>5. x = before[A + 1] /\ y = before[Other + 1]
  BY <1>4 DEF Other
<1>6. Adding(c)
  BY <1>2
<1>7. /\ Held'
      /\ regs'[A + 1] = high /\ \A q \in Registers \ {A + 1} : regs'[q] = regs[q]
      /\ sreg'["C"] <=> Carried(Msb(x), Msb(y), Msb(high))
      /\ sreg'["V"] <=> AddOverflow(Msb(x), Msb(y), Msb(high))
      /\ sreg'["S"] <=> (Msb(high) # AddOverflow(Msb(x), Msb(y), Msb(high)))
      /\ sreg'["H"] <=> Carried(Mid(x), Mid(y), Mid(high))
  BY <1>1, <1>4, <1>6, ByteAdded
<1>8. regs'[A] = (before[A] + before[Other]) % Size
  BY <1>1, <1>7
<1> QED BY <1>3, <1>4, <1>5, <1>7, <1>8 DEF BytesAdded, Other

LEMMA InitSum == Init => SumInv
<1> SUFFICES ASSUME Init, prog \in Additions
             PROVE  SumInv
  BY DEF SumInv
<1>1. Held /\ next = 1 /\ before = regs
  BY InitHeld
<1>2. Running /\ Fresh
  BY <1>1 DEF Running, Fresh, Code, Additions
<1> QED BY <1>1, <1>2 DEF SumInv, WideSum

LEMMA SameState == UNCHANGED vars /\ SumInv => SumInv'
<1> SUFFICES ASSUME UNCHANGED vars, SumInv
             PROVE  SumInv'
  OBVIOUS
<1>1. /\ regs' = regs /\ sreg' = sreg /\ prog' = prog
      /\ next' = next /\ before' = before
  BY DEF vars
<1>2. Code' = Code /\ (Running' <=> Running)
  BY <1>1 DEF Code, LowK, HighK, ShortK, I, Running
<1>3. WordA' = WordA /\ Addend' = Addend /\ Word(regs, A)' = Word(regs, A)
  BY <1>1 DEF WordA, WordB, Addend, Word, ShortK, LowK
<1>4. WideSum' <=> WideSum
  BY <1>1, <1>2, <1>3, Zenon DEF WideSum
<1>5. /\ Held' <=> Held
      /\ Fresh' <=> Fresh
      /\ Other' = Other
      /\ LowCarry' <=> LowCarry
  BY <1>1 DEF Held, Fresh, LowCarry, Other
<1>6. SUFFICES ASSUME prog \in Additions
               PROVE  SumInv'
  BY <1>1 DEF SumInv
<1>7. Held' /\ next' \in Nat \ {0}
  BY <1>1, <1>2, <1>5, <1>6 DEF SumInv
<1>8. (Running => /\ regs[A + 1] = before[A + 1]
                  /\ regs[B] = before[B] /\ regs[B + 1] = before[B + 1])'
  BY <1>1, <1>2, <1>6 DEF SumInv
<1>9. (Running /\ Fresh => regs[A] = before[A] /\ (next = 2 => ~sreg["C"]))'
  BY <1>1, <1>2, <1>5, <1>6 DEF SumInv
<1>10. (Running /\ ~Fresh => regs[A] = (before[A] + before[Other]) % Size /\ LowCarry)'
  BY <1>1, <1>2, <1>5, <1>6 DEF SumInv
<1>11. WideSum'
  BY <1>4, <1>6 DEF SumInv
<1> QED BY <1>7, <1>8, <1>9, <1>10, <1>11 DEF SumInv

LEMMA LastInstruction ==
    ASSUME Held', (prog \in Additions)', next' \in Nat \ {0}, ~Running', WideSum'
    PROVE  SumInv'
  BY DEF SumInv

LEMMA NextSum == SumInv /\ [Next]_vars => SumInv'
<1> SUFFICES ASSUME SumInv, Next, Running, prog \in Additions
             PROVE  SumInv'
  <2>1. CASE ~Running /\ Next
    <3>1. UNCHANGED vars
      BY <2>1, Stopped
    <3> QED BY <2>1, <3>1, SameState
  <2>2. CASE prog \notin Additions /\ Next /\ Running
    BY <2>2, OneInstruction DEF SumInv
  <2> QED BY <2>1, <2>2, SameState
<1>1. /\ next' = next + 1 /\ UNCHANGED <<prog, before>> /\ Code' = Code
      /\ Inst.op = "ADD"  => Adding(0)
      /\ Inst.op = "ADC"  => Adding(Num(sreg["C"]))
      /\ Inst.op = "INC"  => INC
      /\ Inst.op = "DEC"  => DEC
      /\ Inst.op = "CLx"  => CLx
      /\ Inst.op = "ADIW" => ADIW
  BY OneInstruction DEF Code, I, LowK, HighK, ShortK
<1>2. /\ Held /\ next \in Nat \ {0} /\ next' \in Nat \ {0}
      /\ regs[A + 1] = before[A + 1]
      /\ regs[B] = before[B] /\ regs[B + 1] = before[B + 1]
      /\ Fresh => regs[A] = before[A] /\ (next = 2 => ~sreg["C"])
      /\ ~Fresh => regs[A] = (before[A] + before[Other]) % Size /\ LowCarry
  BY <1>1 DEF SumInv
<1>3. CASE prog = "add-word"
  <2>1. Code = <<I("ADIW", A, ShortK)>>
    BY <1>3, Scripts
  <2>2. next = 1 /\ Fresh /\ ~Running'
    BY <1>1, <1>2, <2>1 DEF Running, Fresh
  <2>3. Inst.op = "ADIW" /\ Inst.d = A /\ Inst.r = ShortK
    BY <2>1, <2>2 DEF Inst, I
  <2>4. Held' /\ WideSum'
    BY <1>1, <1>2, <1>3, <2>2, <2>3, WordAdded
  <2> QED BY <1>1, <1>2, <2>2, <2>4, LastInstruction
<1>4. ASSUME prog # "add-word", Adding(0), Inst.d = A, Inst.r = Other,
             Fresh, ~Fresh', Running'
      PROVE  SumInv'
  <2>1. /\ Held'
        /\ regs'[A] = (before[A] + before[Other]) % Size
        /\ regs'[A + 1] = before[A + 1]
        /\ regs'[B] = before[B] /\ regs'[B + 1] = before[B + 1]
        /\ LowCarry'
    BY <1>1, <1>2, <1>4, LowByteAdded
  <2>2. before' = before /\ Other' = Other
    BY <1>1 DEF Other
  <2> QED BY <1>2, <1>4, <2>1, <2>2 DEF SumInv, WideSum
<1>5. ASSUME prog # "add-word", Adding(Num(sreg["C"])), Inst.d = A + 1, Inst.r = Other + 1,
             ~Fresh, ~Running'
      PROVE  SumInv'
  <2>1. Held' /\ BytesAdded'
    BY <1>1, <1>2, <1>5, HighByteAdded
  <2>2. (Held /\ prog \in Additions \ {"add-word"} /\ BytesAdded => WideSum)'
    BY BytesToWords, PTL
  <2>3. (prog \in Additions \ {"add-word"})'
    BY <1>1, <1>5
  <2> QED BY <1>2, <1>5, <2>1, <2>2, <2>3, LastInstruction
<1>6. ASSUME INC \/ DEC, Inst.d = X, ~Fresh, ~Fresh', Running'
      PROVE  SumInv'
  <2>1. PICK n \in Byte : regs' = [regs EXCEPT ![X] = n]
    <3>1. regs[X] \in Int
      BY <1>2, WholeBytes DEF Held, Registers, X
    <3>2. (regs[X] + 1) % Size \in Byte /\ (regs[X] - 1) % Size \in Byte
      BY <3>1, WholeBytes, Quotient
    <3> QED BY <1>6, <3>2 DEF INC, DEC, Rd
  <2>2. /\ regs' \in [Registers -> Byte]
        /\ regs'[A] = regs[A] /\ regs'[A + 1] = regs[A + 1]
        /\ regs'[B] = regs[B] /\ regs'[B + 1] = regs[B + 1]
    BY <1>2, <2>1 DEF Held, Registers, A, B, X
  <2>3. sreg' \in [Flags -> BOOLEAN] /\ sreg'["C"] = sreg["C"]
    <3>1. CASE INC
      <4> DEFINE res == (Rd + 1) % Size
                 m == Msb(res)
                 z == res = 0
                 v == res = Half - 1
                 t == m # v
      <4>1. sreg' = [sreg EXCEPT !["N"] = m, !["Z"] = z, !["V"] = v, !["S"] = t]
        BY <3>1 DEF INC, ByteFlags, NZVS
      <4>2. m \in BOOLEAN /\ z \in BOOLEAN /\ v \in BOOLEAN /\ t \in BOOLEAN
        BY DEF Msb
      <4> HIDE DEF m, z, v, t
      <4> QED BY <1>2, <4>1, <4>2, SMT DEF Held, Flags
    <3>2. CASE DEC
      <4> DEFINE res == (Rd - 1) % Size
                 m == Msb(res)
                 z == res = 0
                 v == res = Half - 1
                 t == m # v
      <4>1. sreg' = [[sreg EXCEPT !["N"] = m, !["Z"] = z, !["V"] = v, !["S"] = t]
                       EXCEPT !["S"] = sreg["S"]]
        BY <3>2 DEF DEC, ByteFlags, NZVS
      <4>2. m \in BOOLEAN /\ z \in BOOLEAN /\ v \in BOOLEAN /\ t \in BOOLEAN
        BY DEF Msb
      <4> HIDE DEF m, z, v, t
      <4> QED BY <1>2, <4>1, <4>2, SMT DEF Held, Flags
    <3> QED BY <1>6, <3>1, <3>2
  <2>4. before' = before /\ Other' = Other
    BY <1>1 DEF Other
  <2> QED BY <1>1, <1>2, <1>6, <2>2, <2>3, <2>4 DEF SumInv, WideSum, Held, LowCarry
<1>7. ASSUME CLx, Inst.d = "C", Fresh, next' = 2, prog = "clear-add", Running'
      PROVE  SumInv'
  <2>1. regs' = regs /\ sreg' = [sreg EXCEPT !["C"] = FALSE]
    BY <1>7 DEF CLx, Flagged
  <2>2. sreg' \in [Flags -> BOOLEAN] /\ ~sreg'["C"]
    BY <1>2, <2>1, SMT DEF Held, Flags
  <2>3. before' = before /\ Other' = Other /\ Fresh'
    BY <1>1, <1>7 DEF Other, Fresh
  <2> QED BY <1>1, <1>2, <1>7, <2>1, <2>2, <2>3 DEF SumInv, WideSum, Held
<1>8. CASE prog \in {"add", "double"}
  <2>1. /\ Len(Code) = 2
        /\ Code[1] = I("ADD", A, Other) /\ Code[2] = I("ADC", A + 1, Other + 1)
    BY <1>8, Scripts DEF Other
  <2>2. Other = A \/ Other = B
    BY DEF Other
  <2>3. CASE next = 1
    <3>1. Inst.op = "ADD" /\ Inst.d = A /\ Inst.r = Other
      BY <2>1, <2>3 DEF Inst, I
    <3>2. Fresh /\ ~Fresh' /\ Running'
      BY <1>1, <1>8, <2>1, <2>3 DEF Fresh, Running
    <3> QED BY <1>1, <1>4, <1>8, <3>1, <3>2
  <2>4. CASE next = 2
    <3>1. Inst.op = "ADC" /\ Inst.d = A + 1 /\ Inst.r = Other + 1
      BY <2>1, <2>4 DEF Inst, I
    <3>2. ~Fresh /\ ~Running'
      BY <1>1, <1>8, <2>1, <2>4 DEF Fresh, Running
    <3> QED BY <1>1, <1>5, <1>8, <3>1, <3>2
  <2> QED BY <1>2, <2>1, <2>3, <2>4 DEF Running
<1>9. CASE prog = "add-loop"
  <2>1. /\ Len(Code) = 4
        /\ Code[1] = I("ADD", A, Other) /\ Code[2] = I("INC", X, X)
        /\ Code[3] = I("DEC", X, X) /\ Code[4] = I("ADC", A + 1, Other + 1)
    BY <1>9, Scripts DEF Other
  <2>2. CASE next = 1
    <3>1. Inst.op = "ADD" /\ Inst.d = A /\ Inst.r = Other
      BY <2>1, <2>2 DEF Inst, I
    <3>2. Fresh /\ ~Fresh' /\ Running'
      BY <1>1, <1>9, <2>1, <2>2 DEF Fresh, Running
    <3> QED BY <1>1, <1>4, <1>9, <3>1, <3>2
  <2>3. CASE next \in {2, 3}
    <3>1. Inst.op \in {"INC", "DEC"} /\ Inst.d = X
      BY <2>1, <2>3 DEF Inst, I
    <3>2. ~Fresh /\ ~Fresh' /\ Running'
      BY <1>1, <1>9, <2>1, <2>3 DEF Fresh, Running
    <3> QED BY <1>1, <1>6, <3>1, <3>2
  <2>4. CASE next = 4
    <3>1. Inst.op = "ADC" /\ Inst.d = A + 1 /\ Inst.r = Other + 1
      BY <2>1, <2>4 DEF Inst, I
    <3>2. ~Fresh /\ ~Running'
      BY <1>1, <1>9, <2>1, <2>4 DEF Fresh, Running
    <3> QED BY <1>1, <1>5, <1>9, <3>1, <3>2
  <2> QED BY <1>2, <2>1, <2>2, <2>3, <2>4 DEF Running
<1>10. CASE prog = "clear-add"
  <2>1. /\ Len(Code) = 3
        /\ Code[1] = I("CLx", "C", "C") /\ Code[2] = I("ADC", A, Other)
        /\ Code[3] = I("ADC", A + 1, Other + 1)
    BY <1>10, Scripts DEF Other
  <2>2. CASE next = 1
    <3>1. Inst.op = "CLx" /\ Inst.d = "C"
      BY <2>1, <2>2 DEF Inst, I
    <3>2. Fresh /\ next' = 2 /\ Running'
      BY <1>1, <1>10, <2>1, <2>2 DEF Fresh, Running
    <3> QED BY <1>1, <1>7, <1>10, <3>1, <3>2
  <2>3. CASE next = 2
    <3>1. Inst.op = "ADC" /\ Inst.d = A /\ Inst.r = Other
      BY <2>1, <2>3 DEF Inst, I
    <3>2. Fresh /\ ~Fresh' /\ Running'
      BY <1>1, <1>10, <2>1, <2>3 DEF Fresh, Running
    <3>3. Num(sreg["C"]) = 0
      BY <1>2, <2>3, <3>2 DEF Num
    <3> QED BY <1>1, <1>4, <1>10, <3>1, <3>2, <3>3
  <2>4. CASE next = 3
    <3>1. Inst.op = "ADC" /\ Inst.d = A + 1 /\ Inst.r = Other + 1
      BY <2>1, <2>4 DEF Inst, I
    <3>2. ~Fresh /\ ~Running'
      BY <1>1, <1>10, <2>1, <2>4 DEF Fresh, Running
    <3> QED BY <1>1, <1>5, <1>10, <3>1, <3>2
  <2> QED BY <1>2, <2>1, <2>2, <2>3, <2>4 DEF Running
<1> QED BY <1>3, <1>8, <1>9, <1>10 DEF Additions

(***************************************************************************)
(* Adding two words byte by byte, or a short number by ADIW, leaves their  *)
(* sum and the flags of the whole addition, whatever the carry was before  *)
(* and whatever a loop counter does in between (ADD_run, ADC_run,          *)
(* ADIW_run; INC_run, DEC_run).                                            *)
(***************************************************************************)
THEOREM WideSums == Spec => []WideSum
<1>1. SumInv => WideSum
  BY DEF SumInv, WideSum
<1> QED BY <1>1, InitSum, NextSum, PTL DEF Spec

-----------------------------------------------------------------------------
(***************************************************************************)
(* Differences and comparisons. Between the two instructions C is the      *)
(* borrow of the low bytes; a comparison leaves the registers alone.       *)
(* NegateInv follows COM, NEG and SBCI through the two's complement of a   *)
(* word.                                                                   *)
(***************************************************************************)
Differences == {"subtract", "compare", "sub-word"}

LowBorrow == sreg["C"] <=> before[A] - before[B] < 0

BytesSubtracted ==
    \E c \in {0, 1} :
      LET x == before[A + 1]
          y == before[B + 1]
          high == (x - y - c) % Size
      IN  /\ c = 1 <=> before[A] - before[B] < 0
          /\ regs[A] = IF prog = "compare" THEN before[A] ELSE (before[A] - before[B]) % Size
          /\ regs[A + 1] = IF prog = "compare" THEN x ELSE high
          /\ regs[B] = before[B] /\ regs[B + 1] = y
          /\ sreg["C"] <=> Borrowed(Msb(x), Msb(y), Msb(high))
          /\ sreg["V"] <=> SubOverflow(Msb(x), Msb(y), Msb(high))
          /\ sreg["S"] <=> (Msb(high) # SubOverflow(Msb(x), Msb(y), Msb(high)))

DifferenceInv ==
    prog \in Differences =>
      /\ Held /\ next \in Nat \ {0}
      /\ Running => /\ regs[B] = before[B] /\ regs[B + 1] = before[B + 1]
                    /\ regs[A + 1] = before[A + 1]
      /\ Running /\ next = 1 => regs[A] = before[A]
      /\ Running /\ next # 1 =>
            /\ regs[A] = IF prog = "compare" THEN before[A] ELSE (before[A] - before[B]) % Size
            /\ LowBorrow
      /\ WideDifference

LEMMA BytesToDifference ==
    Held /\ prog \in {"subtract", "compare"} /\ BytesSubtracted => WideDifference
<1> SUFFICES ASSUME Held, prog \in {"subtract", "compare"}, BytesSubtracted
             PROVE  WideDifference
  OBVIOUS
<1> DEFINE a == before[A]
           aa == before[A + 1]
           b == before[B]
           bb == before[B + 1]
<1>1. a \in Byte /\ aa \in Byte /\ b \in Byte /\ bb \in Byte
  BY DEF Held, Registers, A, B
<1>2. PICK c, low, high :
          /\ c \in {0, 1}
          /\ c = 1 <=> a - b < 0
          /\ low = (a - b) % Size
          /\ high = (aa - bb - c) % Size
          /\ regs[A] = IF prog = "compare" THEN a ELSE low
          /\ regs[A + 1] = IF prog = "compare" THEN aa ELSE high
          /\ regs[B] = b /\ regs[B + 1] = bb
          /\ sreg["C"] <=> Borrowed(Msb(aa), Msb(bb), Msb(high))
          /\ sreg["V"] <=> SubOverflow(Msb(aa), Msb(bb), Msb(high))
          /\ sreg["S"] <=> (Msb(high) # SubOverflow(Msb(aa), Msb(bb), Msb(high)))
  BY DEF BytesSubtracted
<1>3. WordA = a + Size * aa /\ Subtrahend = b + Size * bb /\ WordB = b + Size * bb
  BY DEF WordA, WordB, Subtrahend, Word
<1>4. /\ Word(regs, A) = IF prog = "compare" THEN a + Size * aa ELSE low + Size * high
      /\ Word(regs, B) = WordB
  BY <1>2, <1>3 DEF Word
<1> HIDE DEF a, aa, b, bb
<1>5. PICK wa, wb : wa = WordA /\ wb = Subtrahend
  OBVIOUS
<1>6. /\ low + Size * high = (wa - wb) % WordSize
      /\ Borrowed(Msb(aa), Msb(bb), Msb(high)) <=> wa < wb
  BY <1>1, <1>2, <1>3, <1>5, DifferenceOfWords
<1>7. /\ SubOverflow(Msb(aa), Msb(bb), Msb(high))
           <=> ~FitsWord(SignedWord(wa) - SignedWord(wb))
      /\ (Msb(high) # SubOverflow(Msb(aa), Msb(bb), Msb(high)))
           <=> SignedWord(wa) - SignedWord(wb) < 0
  BY <1>1, <1>2, <1>3, <1>5, SignedDifferenceOfWords
<1>8. sreg["C"] \in BOOLEAN /\ sreg["V"] \in BOOLEAN /\ sreg["S"] \in BOOLEAN
  BY DEF Held, Flags
<1>9. sreg["C"] = (WordA < Subtrahend)
  BY <1>2, <1>5, <1>6, <1>8
<1>10. sreg["V"] = ~FitsWord(SignedWord(WordA) - SignedWord(Subtrahend))
  BY <1>2, <1>5, <1>7, <1>8
<1>11. sreg["S"] = (SignedWord(WordA) - SignedWord(Subtrahend) < 0)
  BY <1>2, <1>5, <1>7, <1>8
<1>12. Word(regs, A) = IF prog = "compare" THEN WordA ELSE (WordA - Subtrahend) % WordSize
  BY <1>3, <1>4, <1>5, <1>6
<1>13. ~Ends("negate")
  BY DEF Ends
<1> QED BY <1>4, <1>9, <1>10, <1>11, <1>12, <1>13 DEF WideDifference

LEMMA WordSubtracted ==
    ASSUME Held, prog = "sub-word", Inst.d = A, Inst.r = ShortK, SBIW,
           regs[A] = before[A], regs[A + 1] = before[A + 1],
           regs[B] = before[B], regs[B + 1] = before[B + 1]
    PROVE  Held' /\ WideDifference'
<1> DEFINE word == Word(regs, A)
           res == (word - ShortK) % WordSize
<1>1. word \in 0 .. WordSize - 1 /\ word = WordA
  <2>1. regs[A] \in Byte /\ regs[A + 1] \in Byte
    BY DEF Held, Registers, A
  <2>2. regs[A] + Size * regs[A + 1] \in 0 .. WordSize - 1
    BY <2>1, WordRange
  <2> QED BY <2>2 DEF Word, WordA
<1>2. ShortK \in 0 .. Nibble - 1
  <2>1. before[B] \in Byte
    BY DEF Held, Registers, B
  <2> QED BY <2>1, WholeBytes, Nibbles, Quotient DEF ShortK, LowK
<1>3. /\ regs' = Stored(A, res)
      /\ sreg' = [NZVS(MsbW(res), res = 0, MsbW(word) /\ ~MsbW(res))
                    EXCEPT !["C"] = MsbW(res) /\ ~MsbW(word)]
      /\ UNCHANGED <<prog, before>>
  BY DEF SBIW, K, Execute
<1>4. PICK w, r : w = word /\ r = res
  OBVIOUS
<1>5. /\ Subtrahend = ShortK /\ Subtrahend' = ShortK /\ WordA' = WordA
      /\ WordB' = Word(regs, B)
  BY <1>3 DEF Subtrahend, WordA, WordB, Word, ShortK, LowK
<1> HIDE DEF word, res
<1>6. r = (w - ShortK) % WordSize
  BY <1>4 DEF res
<1>7. /\ r \in 0 .. WordSize - 1
      /\ (MsbW(r) /\ ~MsbW(w)) <=> w < ShortK
      /\ (MsbW(w) /\ ~MsbW(r)) <=> ~FitsWord(SignedWord(w) - SignedWord(ShortK))
      /\ (MsbW(r) # (MsbW(w) /\ ~MsbW(r)))
           <=> SignedWord(w) - SignedWord(ShortK) < 0
  BY <1>1, <1>2, <1>4, <1>6, DifferenceWithShort
<1>8. r % Size \in Byte /\ r \div Size \in Byte /\ (r % Size) + Size * (r \div Size) = r
  BY <1>7, TwoBytes
<1>9. /\ regs' \in [Registers -> Byte]
      /\ regs'[A] = r % Size /\ regs'[A + 1] = r \div Size
      /\ regs'[B] = regs[B] /\ regs'[B + 1] = regs[B + 1]
  <2>1. regs' = [regs EXCEPT ![A] = r % Size, ![A + 1] = r \div Size]
    BY <1>3, <1>4 DEF Stored
  <2>2. /\ A \in Registers /\ A + 1 \in Registers /\ A # A + 1
        /\ B \in Registers \ {A, A + 1} /\ B + 1 \in Registers \ {A, A + 1}
    BY DEF A, B, Registers
  <2> QED BY <1>8, <2>1, <2>2 DEF Held
<1> DEFINE n == MsbW(r)
           z == r = 0
           v == MsbW(w) /\ ~MsbW(r)
           t == n # v
           k == MsbW(r) /\ ~MsbW(w)
<1>10. sreg' = [[sreg EXCEPT !["N"] = n, !["Z"] = z, !["V"] = v, !["S"] = t] EXCEPT !["C"] = k]
  BY <1>3, <1>4 DEF NZVS
<1>11. n \in BOOLEAN /\ z \in BOOLEAN /\ v \in BOOLEAN /\ t \in BOOLEAN /\ k \in BOOLEAN
  BY DEF MsbW
<1> HIDE DEF n, z, v, t, k
<1>12. sreg' \in [Flags -> BOOLEAN]
  BY <1>10, <1>11, SMT DEF Held, Flags
<1>13. "C" \in Flags /\ "V" \in Flags /\ "S" \in Flags
  BY DEF Flags
<1>14. sreg'["C"] = k
  BY <1>10, <1>13, SMT DEF Held
<1>15. sreg'["V"] = v
  BY <1>10, <1>13, SMT DEF Held
<1>16. sreg'["S"] = t
  BY <1>10, <1>13, SMT DEF Held
<1>17. Word(regs', A) = (WordA - Subtrahend) % WordSize /\ Word(regs', B) = Word(regs, B)
  BY <1>1, <1>4, <1>5, <1>6, <1>8, <1>9 DEF Word
<1>18. sreg'["C"] = (WordA < Subtrahend)
  BY <1>1, <1>4, <1>5, <1>7, <1>11, <1>14 DEF k
<1>19. sreg'["V"] = ~FitsWord(SignedWord(WordA) - SignedWord(Subtrahend))
  BY <1>1, <1>4, <1>5, <1>7, <1>11, <1>15 DEF v
<1>20. sreg'["S"] = (SignedWord(WordA) - SignedWord(Subtrahend) < 0)
  BY <1>1, <1>4, <1>5, <1>7, <1>11, <1>16 DEF t, n, v
<1>21. WideDifference'
  BY <1>3, <1>5, <1>17, <1>18, <1>19, <1>20 DEF WideDifference, Ends
<1> QED BY <1>3, <1>9, <1>12, <1>21 DEF Held

LEMMA InitDifference == Init => DifferenceInv
<1> SUFFICES ASSUME Init, prog \in Differences
             PROVE  DifferenceInv
  BY DEF DifferenceInv
<1>1. Held /\ next = 1 /\ before = regs
  BY InitHeld
<1>2. Running
  BY <1>1 DEF Running, Code, Differences
<1> QED BY <1>1, <1>2 DEF DifferenceInv, WideDifference, Ends

LEMMA SameDifference == UNCHANGED vars /\ DifferenceInv => DifferenceInv'
<1> SUFFICES ASSUME UNCHANGED vars, DifferenceInv, prog \in Differences
             PROVE  DifferenceInv'
  BY DEF DifferenceInv, vars
<1>1. /\ regs' = regs /\ sreg' = sreg /\ prog' = prog
      /\ next' = next /\ before' = before
  BY DEF vars
<1>2. Code' = Code /\ (Running' <=> Running)
  BY <1>1 DEF Code, LowK, HighK, ShortK, I, Running
<1>3. /\ WordA' = WordA /\ WordB' = WordB /\ Subtrahend' = Subtrahend
      /\ Word(regs, A)' = Word(regs, A) /\ Word(regs, B)' = Word(regs, B)
  BY <1>1 DEF WordA, WordB, Subtrahend, Word, ShortK, LowK
<1>4. WideDifference' <=> WideDifference
  BY <1>1, <1>2, <1>3, Zenon DEF WideDifference, Ends
<1>5. Held' /\ next' \in Nat \ {0}
  BY <1>1 DEF Held, DifferenceInv
<1>6. (Running => /\ regs[B] = before[B] /\ regs[B + 1] = before[B + 1]
                  /\ regs[A + 1] = before[A + 1])'
  BY <1>1, <1>2 DEF DifferenceInv
<1>7. (Running /\ next = 1 => regs[A] = before[A])'
  BY <1>1, <1>2 DEF DifferenceInv
<1>8. (Running /\ next # 1 =>
          /\ regs[A] = IF prog = "compare" THEN before[A] ELSE (before[A] - before[B]) % Size
          /\ LowBorrow)'
  BY <1>1, <1>2 DEF DifferenceInv, LowBorrow
<1> QED BY <1>4, <1>5, <1>6, <1>7, <1>8 DEF DifferenceInv

LEMMA NextDifference == DifferenceInv /\ [Next]_vars => DifferenceInv'
<1> SUFFICES ASSUME DifferenceInv, Next, Running, prog \in Differences
             PROVE  DifferenceInv'
  <2>1. CASE ~Running /\ Next
    <3>1. UNCHANGED vars
      BY <2>1, Stopped
    <3> QED BY <2>1, <3>1, SameDifference
  <2>2. CASE prog \notin Differences /\ Next /\ Running
    BY <2>2, OneInstruction DEF DifferenceInv
  <2> QED BY <2>1, <2>2, SameDifference
<1>1. /\ next' = next + 1 /\ UNCHANGED <<prog, before>> /\ Code' = Code
      /\ Inst.op = "SUB"  => Subtracting(0)
      /\ Inst.op = "SBC"  => Subtracting(Num(sreg["C"]))
      /\ Inst.op = "CP"   => Comparing(0)
      /\ Inst.op = "CPC"  => Comparing(Num(sreg["C"]))
      /\ Inst.op = "SBIW" => SBIW
  BY OneInstruction DEF Code, I, LowK, HighK, ShortK
<1>2. /\ Held /\ next \in Nat \ {0} /\ next' \in Nat \ {0}
      /\ regs[A + 1] = before[A + 1]
      /\ regs[B] = before[B] /\ regs[B + 1] = before[B + 1]
      /\ next = 1 => regs[A] = before[A]
      /\ next # 1 =>
           /\ regs[A] = IF prog = "compare" THEN before[A] ELSE (before[A] - before[B]) % Size
           /\ LowBorrow
  BY <1>1 DEF DifferenceInv
<1>3. CASE prog = "sub-word"
  <2>1. Code = <<I("SBIW", A, ShortK)>>
    BY <1>3 DEF Code
  <2>2. next = 1 /\ ~Running'
    BY <1>1, <1>2, <2>1 DEF Running
  <2>3. Inst.op = "SBIW" /\ Inst.d = A /\ Inst.r = ShortK
    BY <2>1, <2>2 DEF Inst, I
  <2>4. Held' /\ WideDifference'
    BY <1>1, <1>2, <1>3, <2>2, <2>3, WordSubtracted
  <2> QED BY <1>1, <1>2, <2>2, <2>4 DEF DifferenceInv
<1>4. CASE prog # "sub-word"
  <2>1. prog \in {"subtract", "compare"} /\ prog' = prog /\ before' = before
    BY <1>1, <1>4 DEF Differences
  <2>2. /\ Len(Code) = 2 /\ Code[1].d = A /\ Code[1].r = B
        /\ Code[2].d = A + 1 /\ Code[2].r = B + 1
        /\ prog = "subtract" => Code[1].op = "SUB" /\ Code[2].op = "SBC"
        /\ prog = "compare"  => Code[1].op = "CP" /\ Code[2].op = "CPC"
    <3>1. CASE prog = "subtract"
      <4>1. Code = <<I("SUB", A, B), I("SBC", A+1, B+1)>>
        BY <3>1 DEF Code
      <4> QED BY <3>1, <4>1 DEF I
    <3>2. CASE prog = "compare"
      <4>1. Code = <<I("CP", A, B), I("CPC", A+1, B+1)>>
        BY <3>2 DEF Code
      <4> QED BY <3>2, <4>1 DEF I
    <3> QED BY <2>1, <3>1, <3>2
  <2>3. /\ A \in Registers /\ B \in Registers /\ A + 1 \in Registers /\ B + 1 \in Registers
        /\ B \notin {A, A + 1} /\ B + 1 \notin {A, A + 1} /\ A # A + 1
    BY DEF A, B, Registers
  <2>4. before[A] \in Byte /\ before[B] \in Byte
    BY <1>2, <2>3 DEF Held
  <2>5. CASE next = 1
    <3>1. /\ Inst.d = A /\ Inst.r = B
          /\ prog = "subtract" => Subtracting(0)
          /\ prog = "compare" => Comparing(0)
      BY <1>1, <2>2, <2>5 DEF Inst
    <3>2. Running' /\ next' = 2
      BY <1>1, <2>2, <2>5 DEF Running
    <3>3. PICK c \in {0, 1} : c = 0
      OBVIOUS
    <3>4. PICK x, y, res : x = regs[A] /\ y = regs[B] /\ res = (x - y - c) % Size
      OBVIOUS
    <3>5. /\ prog = "subtract" => Subtracting(c)
          /\ prog = "compare" => Comparing(c)
      BY <3>1, <3>3
    <3>6. /\ Held'
          /\ Subtracting(c) => regs' = [regs EXCEPT ![A] = res]
          /\ Comparing(c) => regs' = regs
          /\ sreg'["C"] <=> Borrowed(Msb(x), Msb(y), Msb(res))
      BY <1>2, <2>1, <2>3, <3>1, <3>4, <3>5, ByteSubtracted
    <3>7. x = before[A] /\ y = before[B] /\ x \in Byte /\ y \in Byte
      BY <1>2, <2>4, <2>5, <3>4
    <3>8. Borrowed(Msb(x), Msb(y), Msb(res)) <=> x - y - c < 0
      BY <3>4, <3>7, BorrowOut
    <3>9. x - y - c = x - y
      BY <3>3, <3>7, WholeBytes
    <3>10. sreg'["C"] <=> before[A] - before[B] < 0
      BY <3>6, <3>7, <3>8, <3>9
    <3>11. LowBorrow'
      BY <2>1, <3>10 DEF LowBorrow
    <3>12. /\ regs'[B] = before[B] /\ regs'[B + 1] = before[B + 1]
           /\ regs'[A + 1] = before[A + 1]
      BY <1>2, <2>1, <2>3, <3>5, <3>6 DEF Held
    <3>13. res = (before[A] - before[B]) % Size
      BY <3>4, <3>7, <3>9
    <3>14. regs'[A] = IF prog = "compare" THEN before[A] ELSE res
      BY <1>2, <2>1, <2>3, <2>5, <3>5, <3>6 DEF Held
    <3> QED BY <1>2, <2>1, <3>2, <3>6, <3>11, <3>12, <3>13, <3>14
            DEF DifferenceInv, WideDifference, Ends
  <2>6. CASE next = 2
    <3>1. /\ Inst.d = A + 1 /\ Inst.r = B + 1
          /\ prog = "subtract" => Subtracting(Num(sreg["C"]))
          /\ prog = "compare" => Comparing(Num(sreg["C"]))
      BY <1>1, <2>2, <2>6 DEF Inst
    <3>2. ~Running'
      BY <1>1, <2>2, <2>6 DEF Running
    <3>3. PICK c \in {0, 1} : c = Num(sreg["C"])
      BY DEF Num
    <3>4. PICK x, y, high : /\ x = regs[A + 1] /\ y = regs[B + 1]
                            /\ high = (x - y - c) % Size
      OBVIOUS
    <3>5. /\ prog = "subtract" => Subtracting(c)
          /\ prog = "compare" => Comparing(c)
      BY <3>1, <3>3
    <3>6. /\ Held'
          /\ Subtracting(c) => regs' = [regs EXCEPT ![A + 1] = high]
          /\ Comparing(c) => regs' = regs
          /\ sreg'["C"] <=> Borrowed(Msb(x), Msb(y), Msb(high))
          /\ sreg'["V"] <=> SubOverflow(Msb(x), Msb(y), Msb(high))
          /\ sreg'["S"] <=> (Msb(high) # SubOverflow(Msb(x), Msb(y), Msb(high)))
      BY <1>2, <2>1, <2>3, <3>1, <3>4, <3>5, ByteSubtracted
    <3>7. x = before[A + 1] /\ y = before[B + 1]
      BY <1>2, <3>4
    <3>8. c = 1 <=> before[A] - before[B] < 0
      BY <1>2, <2>6, <3>3 DEF LowBorrow, Num
    <3>9. /\ regs'[A] = IF prog = "compare" THEN before[A] ELSE (before[A] - before[B]) % Size
          /\ regs'[A + 1] = IF prog = "compare" THEN x ELSE high
          /\ regs'[B] = before[B] /\ regs'[B + 1] = y
      BY <1>2, <2>1, <2>3, <2>6, <3>4, <3>5, <3>6, <3>7 DEF Held
    <3>10. BytesSubtracted'
      BY <2>1, <3>4, <3>6, <3>7, <3>8, <3>9 DEF BytesSubtracted
    <3>11. (Held /\ prog \in {"subtract", "compare"} /\ BytesSubtracted => WideDifference)'
      BY BytesToDifference, PTL
    <3> QED BY <1>2, <2>1, <3>2, <3>6, <3>10, <3>11 DEF DifferenceInv
  <2> QED BY <1>2, <2>2, <2>5, <2>6 DEF Running
<1> QED BY <1>3, <1>4

NegateInv ==
    prog = "negate" =>
      /\ next \in Nat \ {0} /\ (Running => Held)
      /\ Running /\ next # 3 => regs[A] = before[A]
      /\ Running /\ next = 1 => regs[A + 1] = before[A + 1]
      /\ Running /\ next # 1 => regs[A + 1] = Size - 1 - before[A + 1]
      /\ Running /\ next = 3 => /\ regs[A] = (0 - before[A]) % Size
                                /\ sreg["C"] <=> before[A] # 0
      /\ WideDifference

LEMMA NegatedBytes ==
    ASSUME NEW a \in Byte, NEW aa \in Byte, NEW c \in {0, 1}, c = 1 <=> a # 0,
           NEW low, low = (0 - a) % Size,
           NEW high, high = ((Size - 1 - aa) - (Size - 1) - c) % Size
    PROVE  low + Size * high = (0 - (a + Size * aa)) % WordSize
<1>1. PICK z \in Byte : z = 0
  BY WholeBytes
<1>2. c = 1 <=> z - a < 0
  BY <1>1, WholeBytes
<1>3. low = (z - a) % Size
  BY <1>1
<1>4. high = (z - aa - c) % Size
  <2>1. (Size - 1 - aa) - (Size - 1) - c = z - aa - c
    BY <1>1, WholeBytes
  <2> QED BY <2>1
<1>5. PICK wa, wb : wa = z + Size * z /\ wb = a + Size * aa
  OBVIOUS
<1>6. low + Size * high = (wa - wb) % WordSize
  BY <1>2, <1>3, <1>4, <1>5, DifferenceOfWords
<1>7. wa = 0
  BY <1>1, <1>5, WholeBytes
<1> QED BY <1>5, <1>6, <1>7

LEMMA InitNegate == Init => NegateInv
<1> SUFFICES ASSUME Init, prog = "negate"
             PROVE  NegateInv
  BY DEF NegateInv
<1>1. Held /\ next = 1 /\ before = regs
  BY InitHeld
<1>2. Running
  BY <1>1 DEF Running, Code
<1> QED BY <1>1, <1>2 DEF NegateInv, WideDifference, Ends

LEMMA SameNegate == UNCHANGED vars /\ NegateInv => NegateInv'
<1> SUFFICES ASSUME UNCHANGED vars, NegateInv, prog = "negate"
             PROVE  NegateInv'
  BY DEF NegateInv, vars
<1>1. /\ regs' = regs /\ sreg' = sreg /\ prog' = prog
      /\ next' = next /\ before' = before
  BY DEF vars
<1>2. Code' = Code /\ (Running' <=> Running)
  BY <1>1 DEF Code, LowK, HighK, ShortK, I, Running
<1>3. /\ WordA' = WordA /\ WordB' = WordB /\ Subtrahend' = Subtrahend
      /\ Word(regs, A)' = Word(regs, A) /\ Word(regs, B)' = Word(regs, B)
  BY <1>1 DEF WordA, WordB, Subtrahend, Word, ShortK, LowK
<1>4. WideDifference' <=> WideDifference
  BY <1>1, <1>2, <1>3, Zenon DEF WideDifference, Ends
<1>5. next' \in Nat \ {0} /\ (Running' => Held')
  BY <1>1, <1>2 DEF Held, NegateInv
<1>6. /\ (Running /\ next # 3 => regs[A] = before[A])'
      /\ (Running /\ next = 1 => regs[A + 1] = before[A + 1])'
      /\ (Running /\ next # 1 => regs[A + 1] = Size - 1 - before[A + 1])'
  BY <1>1, <1>2 DEF NegateInv
<1>7. (Running /\ next = 3 => /\ regs[A] = (0 - before[A]) % Size
                              /\ sreg["C"] <=> before[A] # 0)'
  BY <1>1, <1>2 DEF NegateInv
<1> QED BY <1>4, <1>5, <1>6, <1>7 DEF NegateInv

LEMMA NextNegate == NegateInv /\ [Next]_vars => NegateInv'
<1> SUFFICES ASSUME NegateInv, Next, Running, prog = "negate"
             PROVE  NegateInv'
  <2>1. CASE ~Running /\ Next
    <3>1. UNCHANGED vars
      BY <2>1, Stopped
    <3> QED BY <2>1, <3>1, SameNegate
  <2>2. CASE prog # "negate" /\ Next /\ Running
    BY <2>2, OneInstruction DEF NegateInv
  <2> QED BY <2>1, <2>2, SameNegate
<1>1. /\ next' = next + 1 /\ prog' = prog /\ before' = before /\ Code' = Code
      /\ Inst.op = "COM"  => COM
      /\ Inst.op = "NEG"  => NEG
      /\ Inst.op = "SBCI" => SBCI
  BY OneInstruction DEF Code, I, LowK, HighK, ShortK
<1>2. /\ Held /\ next \in Nat \ {0} /\ next' \in Nat \ {0}
      /\ next # 3 => regs[A] = before[A]
      /\ next = 1 => regs[A + 1] = before[A + 1]
      /\ next # 1 => regs[A + 1] = Size - 1 - before[A + 1]
      /\ next = 3 => /\ regs[A] = (0 - before[A]) % Size
                     /\ sreg["C"] <=> before[A] # 0
  BY <1>1 DEF NegateInv
<1>3. Code = <<I("COM", A+1, A+1), I("NEG", A, A), I("SBCI", A+1, Size - 1)>>
  BY DEF Code
<1>4. A \in Registers /\ A + 1 \in Registers /\ A # A + 1
  BY DEF A, Registers
<1>5. before[A] \in Byte /\ before[A + 1] \in Byte
  BY <1>2, <1>4 DEF Held
<1>6. CASE next = 1
  <2>1. Inst.d = A + 1 /\ COM /\ Running' /\ next' = 2
    BY <1>1, <1>3, <1>6 DEF Inst, I, Running
  <2> DEFINE res == Size - 1 - before[A + 1]
             n == Msb(res)
             z == res = 0
             v == FALSE
             t == n # v
             k == TRUE
  <2>2. res \in Byte
    BY <1>5, WholeBytes
  <2>3. /\ regs' = [regs EXCEPT ![A + 1] = res]
        /\ sreg' = [[sreg EXCEPT !["N"] = n, !["Z"] = z, !["V"] = v, !["S"] = t]
                      EXCEPT !["C"] = k]
    BY <1>2, <1>6, <2>1 DEF COM, Rd, ByteFlags, NZVS
  <2>4. /\ n \in BOOLEAN /\ z \in BOOLEAN /\ v \in BOOLEAN
        /\ t \in BOOLEAN /\ k \in BOOLEAN
    BY DEF Msb
  <2> HIDE DEF n, z, v, t, k
  <2>5. sreg' \in [Flags -> BOOLEAN]
    BY <1>2, <2>3, <2>4, SMT DEF Held, Flags
  <2>6. regs' \in [Registers -> Byte] /\ regs'[A] = before[A] /\ regs'[A + 1] = res
    BY <1>2, <1>4, <1>6, <2>2, <2>3 DEF Held
  <2> QED BY <1>1, <1>2, <2>1, <2>5, <2>6 DEF NegateInv, Held, WideDifference, Ends
<1>7. CASE next = 2
  <2>1. Inst.d = A /\ NEG /\ Running' /\ next' = 3
    BY <1>1, <1>3, <1>7 DEF Inst, I, Running
  <2> DEFINE res == (0 - before[A]) % Size
             n == Msb(res)
             z == res = 0
             v == res = Half
             t == n # v
             h == Mid(res) \/ Mid(before[A])
             k == res # 0
  <2>2. 0 - before[A] \in -Size .. Size - 1
    BY <1>5, WholeBytes
  <2>3. res = IF 0 - before[A] < 0 THEN 0 - before[A] + Size ELSE 0 - before[A]
    BY <2>2, WholeBytes, DifferenceRemainder
  <2>4. res \in Byte /\ (k <=> before[A] # 0)
    BY <1>5, <2>3, WholeBytes
  <2>5. /\ regs' = [regs EXCEPT ![A] = res]
        /\ sreg' = [[sreg EXCEPT !["N"] = n, !["Z"] = z, !["V"] = v, !["S"] = t]
                      EXCEPT !["H"] = h, !["C"] = k]
    <3>1. Rd = before[A]
      BY <1>2, <1>7, <2>1 DEF Rd
    <3> QED BY <2>1, <3>1 DEF NEG, ByteFlags, NZVS
  <2>6. /\ n \in BOOLEAN /\ z \in BOOLEAN /\ v \in BOOLEAN /\ t \in BOOLEAN
        /\ h \in BOOLEAN /\ k \in BOOLEAN
    BY DEF Msb, Mid
  <2> HIDE DEF n, z, v, t, h, k, res
  <2>7. sreg' \in [Flags -> BOOLEAN]
    BY <1>2, <2>5, <2>6, SMT DEF Held, Flags
  <2>8. sreg'["C"] = k
    BY <1>2, <2>5, SMT DEF Held, Flags
  <2>9. regs' \in [Registers -> Byte] /\ regs'[A] = res /\ regs'[A + 1] = regs[A + 1]
    BY <1>2, <1>4, <2>4, <2>5 DEF Held
  <2>10. sreg'["C"] <=> before[A] # 0
    BY <2>4, <2>6, <2>8
  <2> QED BY <1>1, <1>2, <1>7, <2>1, <2>7, <2>9, <2>10
          DEF NegateInv, Held, WideDifference, Ends, res
<1>8. CASE next = 3
  <2>1. Inst.d = A + 1 /\ K = Size - 1 /\ SBCI /\ ~Running'
    BY <1>1, <1>3, <1>8 DEF Inst, I, Running, K
  <2>2. PICK c \in {0, 1} : c = Num(sreg["C"])
    BY DEF Num
  <2>3. c = 1 <=> before[A] # 0
    BY <1>2, <1>8, <2>2 DEF Num
  <2>4. PICK res : res = ((Size - 1 - before[A + 1]) - (Size - 1) - c) % Size
    OBVIOUS
  <2>5. regs' = [regs EXCEPT ![A + 1] = res]
    <3>1. Rd = Size - 1 - before[A + 1]
      BY <1>2, <1>8, <2>1 DEF Rd
    <3> QED BY <2>1, <2>2, <2>4, <3>1 DEF SBCI, SubtractingImmediate, Difference
  <2>6. regs'[A] = (0 - before[A]) % Size /\ regs'[A + 1] = res
    BY <1>2, <1>4, <1>8, <2>5 DEF Held
  <2>7. PICK low, a, aa : low = (0 - a) % Size /\ a = before[A] /\ aa = before[A + 1]
    OBVIOUS
  <2>8. low + Size * res = (0 - (a + Size * aa)) % WordSize
    BY <1>5, <2>3, <2>4, <2>7, NegatedBytes
  <2>9. Word(regs', A) = (0 - WordA) % WordSize
    BY <2>6, <2>7, <2>8 DEF Word, WordA
  <2>10. WordA' = WordA
    BY <1>1 DEF WordA, Word
  <2>11. WideDifference'
    BY <1>1, <2>9, <2>10 DEF WideDifference
  <2> QED BY <1>2, <2>1, <2>11 DEF NegateInv
<1> QED BY <1>2, <1>3, <1>6, <1>7, <1>8 DEF Running

(***************************************************************************)
(* Subtracting or comparing two words orders them, unsigned by C and       *)
(* signed by S, and leaves the difference, or the words, in the registers; *)
(* COM, NEG and SBCI negate a word (SUB_run, SBC_run, CP_run, CPC_run,     *)
(* SBIW_run, NEG_run).                                                     *)
(***************************************************************************)
THEOREM WideDifferences == Spec => []WideDifference
<1>1. DifferenceInv /\ NegateInv => WideDifference
  BY DEF DifferenceInv, NegateInv, WideDifference, Differences, Ends
<1> QED BY <1>1, InitDifference, NextDifference, InitNegate, NextNegate, PTL DEF Spec

-----------------------------------------------------------------------------
(***************************************************************************)
(* Shifts. After the first shift C is the bit the high byte lost, which    *)
(* ROR takes into the low byte.                                            *)
(***************************************************************************)
Shifts == {"logical", "arithmetic", "shift-in"}

Unshifted == next = 1 \/ (prog = "shift-in" /\ next = 2)

TopBit == IF prog = "shift-in" \/ (prog = "arithmetic" /\ Msb(before[A + 1]))
          THEN Half ELSE 0

ShiftInv ==
    prog \in Shifts =>
      /\ Held /\ next \in Nat \ {0}
      /\ Running => regs[A] = before[A]
      /\ Running /\ Unshifted => /\ regs[A + 1] = before[A + 1]
                                 /\ next = 2 => sreg["C"]
      /\ Running /\ ~Unshifted => /\ regs[A + 1] = (before[A + 1] \div 2) + TopBit
                                  /\ sreg["C"] <=> Odd(before[A + 1])
      /\ WideShift

LEMMA BytesShifted ==
    ASSUME prog \in Shifts, before \in [Registers -> Byte]
    PROVE  /\ ((before[A] \div 2) + (IF Odd(before[A + 1]) THEN Half ELSE 0))
                + Size * ((before[A + 1] \div 2) + TopBit) =
                CASE prog = "logical"    -> WordA \div 2
                  [] prog = "arithmetic" -> (SignedWord(WordA) \div 2) % WordSize
                  [] prog = "shift-in"   -> (WordA + WordSize) \div 2
           /\ Odd(before[A]) <=> Odd(WordA)
<1>0. PICK a, aa, low, high :
          /\ a = before[A] /\ aa = before[A + 1]
          /\ low = (a \div 2) + (IF Odd(aa) THEN Half ELSE 0)
          /\ high = (aa \div 2) + TopBit
  OBVIOUS
<1>1. a \in Byte /\ aa \in Byte
  BY <1>0 DEF Registers, A
<1>2. PICK w : w = a + Size * aa
  OBVIOUS
<1>3. WordA = w
  BY <1>0, <1>2 DEF WordA, Word
<1>4. PICK u \in Int : u = TopBit
  BY WholeBytes DEF TopBit
<1>5. /\ low + Size * high = (w \div 2) + Size * u
      /\ Odd(a) <=> Odd(w)
  BY <1>0, <1>1, <1>2, <1>4, HalvedWord
<1>6. /\ (w \div 2) + Size * 0 = w \div 2
      /\ (w \div 2) + Size * Half = (w + WordSize) \div 2
      /\ (w \div 2) + Size * (IF Msb(aa) THEN Half ELSE 0) = (SignedWord(w) \div 2) % WordSize
  BY <1>1, <1>2, HalvedWords
<1>7. CASE prog = "logical"
  <2>1. u = 0
    BY <1>4, <1>7 DEF TopBit
  <2> QED BY <1>0, <1>3, <1>5, <1>6, <1>7, <2>1
<1>8. CASE prog = "arithmetic"
  <2>1. u = IF Msb(aa) THEN Half ELSE 0
    BY <1>0, <1>4, <1>8 DEF TopBit
  <2> QED BY <1>0, <1>3, <1>5, <1>6, <1>8, <2>1
<1>9. CASE prog = "shift-in"
  <2>1. u = Half
    BY <1>4, <1>9 DEF TopBit
  <2> QED BY <1>0, <1>3, <1>5, <1>6, <1>9, <2>1
<1> QED BY <1>7, <1>8, <1>9 DEF Shifts

LEMMA InitShift == Init => ShiftInv
<1> SUFFICES ASSUME Init, prog \in Shifts
             PROVE  ShiftInv
  BY DEF ShiftInv
<1>1. Held /\ next = 1 /\ before = regs
  BY InitHeld
<1>2. Running /\ Unshifted
  BY <1>1 DEF Running, Unshifted, Code, Shifts
<1> QED BY <1>1, <1>2 DEF ShiftInv, WideShift

LEMMA SameShift == UNCHANGED vars /\ ShiftInv => ShiftInv'
<1> SUFFICES ASSUME UNCHANGED vars, ShiftInv, prog \in Shifts
             PROVE  ShiftInv'
  BY DEF ShiftInv, vars
<1>1. /\ regs' = regs /\ sreg' = sreg /\ prog' = prog
      /\ next' = next /\ before' = before
  BY DEF vars
<1>2. Code' = Code /\ (Running' <=> Running) /\ (Unshifted' <=> Unshifted) /\ TopBit' = TopBit
  BY <1>1 DEF Code, LowK, HighK, ShortK, I, Running, Unshifted, TopBit
<1>3. WordA' = WordA /\ Word(regs, A)' = Word(regs, A)
  BY <1>1 DEF WordA, Word
<1>4. WideShift' <=> WideShift
  BY <1>1, <1>2, <1>3, Zenon DEF WideShift
<1>5. /\ Held' /\ next' \in Nat \ {0}
      /\ (Running => regs[A] = before[A])'
  BY <1>1, <1>2 DEF Held, ShiftInv
<1>6. (Running /\ Unshifted => /\ regs[A + 1] = before[A + 1]
                               /\ next = 2 => sreg["C"])'
  BY <1>1, <1>2 DEF ShiftInv
<1>7. (Running /\ ~Unshifted => /\ regs[A + 1] = (before[A + 1] \div 2) + TopBit
                                /\ sreg["C"] <=> Odd(before[A + 1]))'
  BY <1>1, <1>2 DEF ShiftInv
<1> QED BY <1>4, <1>5, <1>6, <1>7 DEF ShiftInv

LEMMA NextShift == ShiftInv /\ [Next]_vars => ShiftInv'
<1> SUFFICES ASSUME ShiftInv, Next, Running, prog \in Shifts
             PROVE  ShiftInv'
  <2>1. CASE ~Running /\ Next
    <3>1. UNCHANGED vars
      BY <2>1, Stopped
    <3> QED BY <2>1, <3>1, SameShift
  <2>2. CASE prog \notin Shifts /\ Next /\ Running
    BY <2>2, OneInstruction DEF ShiftInv
  <2> QED BY <2>1, <2>2, SameShift
<1>1. /\ next' = next + 1 /\ prog' = prog /\ before' = before /\ Code' = Code
      /\ Inst.op = "LSR" => LSR
      /\ Inst.op = "ASR" => ASR
      /\ Inst.op = "ROR" => ROR
      /\ Inst.op = "SEx" => SEx
  BY OneInstruction DEF Code, I, LowK, HighK, ShortK
<1>2. /\ Held /\ next \in Nat \ {0} /\ next' \in Nat \ {0}
      /\ regs[A] = before[A]
      /\ Unshifted => regs[A + 1] = before[A + 1] /\ (next = 2 => sreg["C"])
      /\ ~Unshifted => /\ regs[A + 1] = (before[A + 1] \div 2) + TopBit
                       /\ sreg["C"] <=> Odd(before[A + 1])
  BY <1>1 DEF ShiftInv
<1>3. TopBit' = TopBit /\ WordA' = WordA
  BY <1>1 DEF TopBit, WordA, Word
<1>4. A \in Registers /\ A + 1 \in Registers /\ A # A + 1
  BY DEF A, Registers
<1>5. sreg["C"] \in BOOLEAN
  BY <1>2 DEF Held, Flags
<1>6. ASSUME NEW op, NEW top \in BOOLEAN, Shifted(op, top), Inst.d = A + 1,
             (IF top THEN Half ELSE 0) = TopBit, Unshifted, ~Unshifted', Running'
      PROVE  ShiftInv'
  <2>1. PICK x, res : x = regs[A + 1] /\ res = (x \div 2) + (IF top THEN Half ELSE 0)
    OBVIOUS
  <2>2. Held' /\ regs' = [regs EXCEPT ![A + 1] = res] /\ (sreg'["C"] <=> Odd(x))
    BY <1>2, <1>4, <1>6, <2>1, ShiftedByte
  <2>3. regs'[A] = before[A] /\ regs'[A + 1] = (before[A + 1] \div 2) + TopBit
    BY <1>2, <1>4, <1>6, <2>1, <2>2 DEF Held
  <2>4. sreg'["C"] <=> Odd(before[A + 1])
    BY <1>2, <1>6, <2>1, <2>2
  <2> QED BY <1>1, <1>2, <1>3, <1>6, <2>2, <2>3, <2>4 DEF ShiftInv, WideShift
<1>7. ASSUME ROR, Inst.d = A, ~Unshifted, ~Running'
      PROVE  ShiftInv'
  <2>0. PICK top \in BOOLEAN : top = sreg["C"]
    BY <1>5
  <2>1. PICK x, res, aa : /\ x = regs[A] /\ aa = before[A + 1]
                          /\ res = (x \div 2) + (IF top THEN Half ELSE 0)
    OBVIOUS
  <2>2. Shifted("ROR", top)
    BY <1>7, <2>0 DEF ROR
  <2>3. Held' /\ regs' = [regs EXCEPT ![A] = res] /\ (sreg'["C"] <=> Odd(x))
    BY <1>2, <1>4, <1>7, <2>1, <2>2, ShiftedByte
  <2>4. PICK high : high = regs[A + 1]
    OBVIOUS
  <2>5. /\ x = before[A] /\ high = (aa \div 2) + TopBit
        /\ res = (x \div 2) + (IF Odd(aa) THEN Half ELSE 0)
    BY <1>2, <1>7, <2>0, <2>1, <2>4
  <2>6. before \in [Registers -> Byte]
    BY <1>2 DEF Held
  <2>7. /\ res + Size * high =
              CASE prog = "logical"    -> WordA \div 2
                [] prog = "arithmetic" -> (SignedWord(WordA) \div 2) % WordSize
                [] prog = "shift-in"   -> (WordA + WordSize) \div 2
        /\ Odd(x) <=> Odd(WordA)
    BY <2>1, <2>5, <2>6, BytesShifted
  <2>8. Word(regs', A) = res + Size * high
    BY <1>2, <1>4, <2>3, <2>4 DEF Word, Held
  <2>9. sreg'["C"] = Odd(WordA)
    <3>1. sreg'["C"] \in BOOLEAN /\ Odd(WordA) \in BOOLEAN
      BY <2>3 DEF Held, Flags, Odd
    <3> QED BY <2>3, <2>7, <3>1
  <2>10. WideShift'
    BY <1>1, <1>3, <2>7, <2>8, <2>9 DEF WideShift
  <2> QED BY <1>2, <1>7, <2>3, <2>10 DEF ShiftInv
<1>8. CASE prog \in {"logical", "arithmetic"}
  <2>1. /\ Len(Code) = 2 /\ Code[1].d = A + 1 /\ Code[2] = I("ROR", A, A)
        /\ prog = "logical" => Code[1].op = "LSR"
        /\ prog = "arithmetic" => Code[1].op = "ASR"
    <3>1. CASE prog = "logical"
      <4>1. Code = <<I("LSR", A+1, A+1), I("ROR", A, A)>>
        BY <3>1 DEF Code
      <4> QED BY <3>1, <4>1 DEF I
    <3>2. CASE prog = "arithmetic"
      <4>1. Code = <<I("ASR", A+1, A+1), I("ROR", A, A)>>
        BY <3>2 DEF Code
      <4> QED BY <3>2, <4>1 DEF I
    <3> QED BY <1>8, <3>1, <3>2
  <2>2. CASE next = 1
    <3>1. Inst.d = A + 1 /\ Unshifted /\ ~Unshifted' /\ Running'
      BY <1>1, <1>8, <2>1, <2>2 DEF Inst, Unshifted, Running
    <3>2. CASE prog = "logical"
      <4>1. Shifted("LSR", FALSE)
        BY <1>1, <2>1, <2>2, <3>2 DEF Inst, LSR
      <4>2. (IF FALSE THEN Half ELSE 0) = TopBit
        BY <3>2 DEF TopBit
      <4> QED BY <1>6, <3>1, <4>1, <4>2
    <3>3. CASE prog = "arithmetic"
      <4> DEFINE top == Msb(regs[A + 1])
      <4>1. top \in BOOLEAN
        BY DEF Msb
      <4>2. Shifted("ASR", top)
        BY <1>1, <2>1, <2>2, <3>1, <3>3 DEF Inst, ASR, Rd
      <4>3. (IF top THEN Half ELSE 0) = TopBit
        BY <1>2, <3>1, <3>3 DEF TopBit
      <4> HIDE DEF top
      <4> QED BY <1>6, <3>1, <4>1, <4>2, <4>3
    <3> QED BY <1>8, <3>2, <3>3
  <2>3. CASE next = 2
    <3>1. ROR /\ Inst.d = A /\ ~Unshifted /\ ~Running'
      BY <1>1, <1>8, <2>1, <2>3 DEF Inst, I, Unshifted, Running
    <3> QED BY <1>7, <3>1
  <2> QED BY <1>2, <2>1, <2>2, <2>3 DEF Running
<1>9. CASE prog = "shift-in"
  <2>1. Code = <<I("SEx", "C", "C"), I("ROR", A+1, A+1), I("ROR", A, A)>>
    BY <1>9 DEF Code
  <2>2. CASE next = 1
    <3>1. SEx /\ Inst.d = "C" /\ Unshifted /\ Unshifted' /\ Running'
      BY <1>1, <1>9, <2>1, <2>2 DEF Inst, I, Unshifted, Running
    <3>2. regs' = regs /\ sreg' = [sreg EXCEPT !["C"] = TRUE]
      BY <3>1 DEF SEx, Flagged
    <3>3. sreg' \in [Flags -> BOOLEAN] /\ sreg'["C"]
      BY <1>2, <3>2, SMT DEF Held, Flags
    <3> QED BY <1>1, <1>2, <3>1, <3>2, <3>3 DEF ShiftInv, WideShift, Held
  <2>3. CASE next = 2
    <3>1. ROR /\ Inst.d = A + 1 /\ Unshifted /\ ~Unshifted' /\ Running'
      BY <1>1, <1>9, <2>1, <2>3 DEF Inst, I, Unshifted, Running
    <3>2. PICK top \in BOOLEAN : top = sreg["C"]
      BY <1>5
    <3>3. Shifted("ROR", top) /\ top
      BY <1>2, <2>3, <3>1, <3>2 DEF ROR
    <3>4. (IF top THEN Half ELSE 0) = TopBit
      BY <1>9, <3>3 DEF TopBit
    <3> QED BY <1>6, <3>1, <3>3, <3>4
  <2>4. CASE next = 3
    <3>1. ROR /\ Inst.d = A /\ ~Unshifted /\ ~Running'
      BY <1>1, <1>9, <2>1, <2>4 DEF Inst, I, Unshifted, Running
    <3> QED BY <1>7, <3>1
  <2> QED BY <1>2, <2>1, <2>2, <2>3, <2>4 DEF Running
<1> QED BY <1>8, <1>9 DEF Shifts

(***************************************************************************)
(* A word shifted right through the carry is halved, as an unsigned number *)
(* or as a signed one, with the bit lost in C (LSR_run, ASR_run, ROR_run). *)
(***************************************************************************)
THEOREM WideShifts == Spec => []WideShift
<1>1. ShiftInv => WideShift
  BY DEF ShiftInv, WideShift, Shifts
<1> QED BY <1>1, InitShift, NextShift, PTL DEF Spec

-----------------------------------------------------------------------------
(***************************************************************************)
(* Products. OneProduct are the programs of one multiplication;            *)
(* MultiplyInv follows the six instructions that add three products of     *)
(* bytes up, Low and Up the halves of the first.                           *)
(***************************************************************************)
OneProduct == {"signed-unsigned", "signed", "fraction"}

ProductInv ==
    prog \in OneProduct =>
      /\ next \in Nat \ {0}
      /\ Running => Held /\ regs[A] = before[A] /\ regs[B] = before[B]
      /\ WideProduct

LEMMA SameProduct ==
    ASSUME UNCHANGED <<regs, sreg, prog, next, before>>
    PROVE  WideProduct' <=> WideProduct
<1>1. /\ regs' = regs /\ sreg' = sreg /\ prog' = prog
      /\ next' = next /\ before' = before
  OBVIOUS
<1>2. Code' = Code /\ (Running' <=> Running)
  BY <1>1 DEF Code, LowK, HighK, ShortK, I, Running
<1>3. WordA' = WordA /\ Word(regs, P)' = Word(regs, P) /\ Word(regs, X)' = Word(regs, X)
  BY <1>1 DEF WordA, Word
<1> QED BY <1>1, <1>2, <1>3, Zenon DEF WideProduct, Ends

LEMMA InitProduct == Init => ProductInv
<1> SUFFICES ASSUME Init, prog \in OneProduct
             PROVE  ProductInv
  BY DEF ProductInv
<1>1. Held /\ next = 1 /\ before = regs
  BY InitHeld
<1>2. Running
  BY <1>1 DEF Running, Code, OneProduct
<1> QED BY <1>1, <1>2 DEF ProductInv, WideProduct, Ends

LEMMA NextProduct == ProductInv /\ [Next]_vars => ProductInv'
<1> SUFFICES ASSUME ProductInv, [Next]_vars, prog \in OneProduct
             PROVE  ProductInv'
  <2>1. CASE Running /\ Next
    BY <2>1, OneInstruction DEF ProductInv
  <2>2. CASE UNCHANGED vars
    BY <2>2 DEF ProductInv, vars
  <2> QED BY <2>1, <2>2, Stopped
<1>1. CASE UNCHANGED vars
  <2>1. Code' = Code
    BY <1>1 DEF vars, Code, LowK, HighK, ShortK, I
  <2>2. WideProduct' <=> WideProduct
    BY <1>1, SameProduct DEF vars
  <2> QED BY <1>1, <2>1, <2>2 DEF ProductInv, vars, Held, Running
<1>2. CASE Next /\ Running
  <2>1. /\ next' = next + 1 /\ prog' = prog /\ before' = before /\ Code' = Code
        /\ Inst.op = "MULSU" => MULSU
        /\ Inst.op = "MULS"  => MULS
        /\ Inst.op = "FMUL"  => FMUL
    BY <1>2, OneInstruction DEF Code, I, LowK, HighK, ShortK
  <2>2. /\ next \in Nat \ {0} /\ next' \in Nat \ {0} /\ Held
        /\ regs[A] = before[A] /\ regs[B] = before[B]
    BY <1>2, <2>1 DEF ProductInv
  <2>3. PICK a \in Byte, b \in Byte : a = before[A] /\ b = before[B]
    <3>1. before[A] \in Byte /\ before[B] \in Byte
      BY <2>2 DEF Held, Registers, A, B
    <3> QED BY <3>1
  <2>4. CASE prog = "signed-unsigned"
    <3>1. Code = <<I("MULSU", A, B)>>
      BY <2>4 DEF Code
    <3>2. next = 1 /\ ~Running' /\ MULSU /\ Rd = a /\ Rr = b
      BY <1>2, <2>1, <2>2, <2>3, <3>1 DEF Running, Inst, I, Rd, Rr
    <3>3. PICK p \in Int, w \in 0 .. WordSize - 1 :
             /\ p = Signed(a) * b /\ w = p % WordSize
             /\ MsbW(w) <=> p < 0
      <4>1. PICK p, w : p \in Int /\ p = Signed(a) * b /\ w = p % WordSize
        BY SignedProduct
      <4> QED BY <4>1, SignedProduct
    <3>4. w % WordSize = w
      <4>1. w = w + WordSize * 0 /\ w \in Int
        BY HalfWord
      <4> QED BY <4>1, WordRemainder
    <3>5. regs' = Stored(P, w) /\ sreg' = [sreg EXCEPT !["C"] = MsbW(w), !["Z"] = (w = 0)]
      BY <3>2, <3>3, <3>4 DEF MULSU, Multiplied
    <3>6. Word(regs', P) = w
      BY <2>2, <3>5, StoredProduct DEF Held
    <3>7. sreg'["C"] = MsbW(w)
      BY <2>2, <3>5, SMT DEF Held, Flags
    <3>8. MsbW(w) = (p < 0)
      BY <3>3 DEF MsbW
    <3>9. WideProduct'
      BY <2>1, <2>3, <2>4, <3>3, <3>6, <3>7, <3>8 DEF WideProduct, Ends
    <3> QED BY <2>2, <3>2, <3>9 DEF ProductInv
  <2>5. CASE prog = "signed"
    <3>1. Code = <<I("MULS", A, B)>>
      BY <2>5 DEF Code
    <3>2. next = 1 /\ ~Running' /\ MULS /\ Rd = a /\ Rr = b
      BY <1>2, <2>1, <2>2, <2>3, <3>1 DEF Running, Inst, I, Rd, Rr
    <3>3. PICK w \in 0 .. WordSize - 1 : w = a * b
      BY ProductOfBytes
    <3>4. regs' = Stored(P, w)
      BY <3>2, <3>3 DEF MULS, Multiplied
    <3>5. Word(regs', P) = w
      BY <2>2, <3>4, StoredProduct DEF Held
    <3>6. ~Msb(a) /\ ~Msb(b) => Signed(a) * Signed(b) = a * b
      BY DEF Signed
    <3>7. WideProduct'
      BY <2>1, <2>3, <2>5, <3>3, <3>5, <3>6 DEF WideProduct, Ends
    <3> QED BY <2>2, <3>2, <3>7 DEF ProductInv
  <2>6. CASE prog = "fraction"
    <3>1. Code = <<I("FMUL", A, B)>>
      BY <2>6 DEF Code
    <3>2. next = 1 /\ ~Running' /\ FMUL /\ Rd = a /\ Rr = b
      BY <1>2, <2>1, <2>2, <2>3, <3>1 DEF Running, Inst, I, Rd, Rr
    <3>3. (2 * a * b) % WordSize \in 0 .. WordSize - 1
      <4>1. 2 * a * b \in Int
        BY WholeBytes
      <4> QED BY <4>1, HalfWord, Quotient
    <3>4. PICK w \in 0 .. WordSize - 1 : w = (2 * a * b) % WordSize
      BY <3>3
    <3>5. regs' = Stored(P, w)
      BY <3>2, <3>4 DEF FMUL, Multiplied
    <3>6. Word(regs', P) = w
      BY <2>2, <3>5, StoredProduct DEF Held
    <3>7. WideProduct'
      BY <2>1, <2>3, <2>6, <3>4, <3>6 DEF WideProduct, Ends
    <3> QED BY <2>2, <3>2, <3>7 DEF ProductInv
  <2> QED BY <2>4, <2>5, <2>6 DEF OneProduct
<1> QED BY <1>1, <1>2, Stopped

Low  == (before[A] * before[B]) % Size

Up   == (before[A] * before[B]) \div Size

Middle == (Up + ((before[A] * before[B + 1]) % Size)) % Size

High == (Middle + ((before[A + 1] * before[B]) % Size)) % Size

MultiplyInv ==
    prog = "multiply" =>
      /\ next \in Nat \ {0}
      /\ Running =>
           /\ regs \in [Registers -> Byte] /\ before \in [Registers -> Byte]
           /\ \A r \in {A, A + 1, B, B + 1} : regs[r] = before[r]
           /\ next = 2 => regs[P] = Low /\ regs[P + 1] = Up
           /\ next > 2 => regs[X] = Low
           /\ next \in {3, 4} => regs[X + 1] = Up
           /\ next = 4 => regs[P] = (before[A] * before[B + 1]) % Size
           /\ next \in {5, 6} => regs[X + 1] = Middle
           /\ next = 6 => regs[P] = (before[A + 1] * before[B]) % Size
      /\ WideProduct

LEMMA InitMultiply == Init => MultiplyInv
<1> SUFFICES ASSUME Init, prog = "multiply"
             PROVE  MultiplyInv
  BY DEF MultiplyInv
<1>1. Held /\ next = 1 /\ before = regs
  BY InitHeld
<1>2. Running
  BY <1>1 DEF Running, Code
<1> QED BY <1>1, <1>2 DEF MultiplyInv, WideProduct, Ends, Held

LEMMA NextMultiply == MultiplyInv /\ [Next]_vars => MultiplyInv'
<1> SUFFICES ASSUME MultiplyInv, [Next]_vars, prog = "multiply"
             PROVE  MultiplyInv'
  <2>1. CASE Running /\ Next
    BY <2>1, OneInstruction DEF MultiplyInv
  <2>2. CASE UNCHANGED vars
    BY <2>2 DEF MultiplyInv, vars
  <2> QED BY <2>1, <2>2, Stopped
<1>1. CASE UNCHANGED vars
  <2>1. Code' = Code
    BY <1>1 DEF vars, Code, LowK, HighK, ShortK, I
  <2>2. WideProduct' <=> WideProduct
    BY <1>1, SameProduct DEF vars
  <2>3. Low' = Low /\ Up' = Up /\ Middle' = Middle
    BY <1>1 DEF vars, Low, Up, Middle
  <2> QED BY <1>1, <2>1, <2>2, <2>3 DEF MultiplyInv, vars, Running
<1>2. CASE Next /\ Running
  <2>1. /\ next' = next + 1 /\ prog' = prog /\ before' = before /\ Code' = Code
        /\ Inst.op = "MUL"  => MUL
        /\ Inst.op = "MOVW" => MOVW
        /\ Inst.op = "ADD"  => Adding(0)
    BY <1>2, OneInstruction DEF Code, I, LowK, HighK, ShortK
  <2>2. Code = <<I("MUL", A, B), I("MOVW", X, P), I("MUL", A, B+1), I("ADD", X+1, P),
                 I("MUL", A+1, B), I("ADD", X+1, P)>>
    BY DEF Code
  <2>3. /\ next \in 1 .. 6 /\ next' \in Nat \ {0} /\ (Running' <=> next # 6)
    BY <1>2, <2>1, <2>2 DEF MultiplyInv, Running
  <2>4. /\ regs \in [Registers -> Byte] /\ before \in [Registers -> Byte]
        /\ \A r \in {A, A + 1, B, B + 1} : regs[r] = before[r]
        /\ next = 2 => regs[P] = Low /\ regs[P + 1] = Up
        /\ next > 2 => regs[X] = Low
        /\ next \in {3, 4} => regs[X + 1] = Up
        /\ next = 4 => regs[P] = (before[A] * before[B + 1]) % Size
        /\ next \in {5, 6} => regs[X + 1] = Middle
        /\ next = 6 => regs[P] = (before[A + 1] * before[B]) % Size
    BY <1>2 DEF MultiplyInv
  <2>5. Low' = Low /\ Up' = Up /\ Middle' = Middle /\ WordA' = WordA
    BY <2>1 DEF Low, Up, Middle, WordA, Word
  <2>6. ~Ends("signed-unsigned")' /\ ~Ends("fraction")' /\ ~Ends("signed")'
    BY <2>1 DEF Ends
  <2>7. /\ P \in Registers /\ P + 1 \in Registers /\ X \in Registers /\ X + 1 \in Registers
        /\ {P, P + 1, X, X + 1} \cap {A, A + 1, B, B + 1} = {}
        /\ {P, P + 1} \cap {X, X + 1} = {} /\ P # P + 1 /\ X # X + 1
        /\ {A, A + 1, B, B + 1} \subseteq Registers
    BY DEF P, X, A, B, Registers
  <2>8. ASSUME NEW r \in Registers, NEW q \in Registers, MUL, Inst.d = r, Inst.r = q
        PROVE  /\ regs' \in [Registers -> Byte]
               /\ regs'[P] = (regs[r] * regs[q]) % Size
               /\ regs'[P + 1] = (regs[r] * regs[q]) \div Size
               /\ \A i \in {A, A + 1, B, B + 1} : regs'[i] = before[i]
               /\ regs'[X] = regs[X] /\ regs'[X + 1] = regs[X + 1]
    <3>1. regs[r] \in Byte /\ regs[q] \in Byte
      BY <2>4, <2>8
    <3>2. PICK w \in 0 .. WordSize - 1 : w = regs[r] * regs[q]
      BY <3>1, ProductOfBytes
    <3>3. regs' = Stored(P, w)
      BY <2>8, <3>2 DEF MUL, Multiplied, Rd, Rr
    <3>4. /\ regs' \in [Registers -> Byte]
          /\ regs'[P] = w % Size /\ regs'[P + 1] = w \div Size
          /\ \A i \in Registers \ {P, P + 1} : regs'[i] = regs[i]
      BY <2>4, <3>3, StoredProduct
    <3> QED BY <2>4, <2>7, <3>2, <3>4
  <2>9. ASSUME Adding(0), Inst.d = X + 1, Inst.r = P
        PROVE  /\ regs' \in [Registers -> Byte]
               /\ regs'[X + 1] = (regs[X + 1] + regs[P]) % Size
               /\ \A i \in {A, A + 1, B, B + 1} : regs'[i] = before[i]
               /\ regs'[X] = regs[X]
    <3>1. regs[X + 1] \in Int /\ regs[P] \in Int
      BY <2>4, <2>7, WholeBytes
    <3>2. PICK n \in Int : n = regs[X + 1] + regs[P] /\ regs[X + 1] + regs[P] + 0 = n
      BY <3>1
    <3>3. regs' = [regs EXCEPT ![X + 1] = n % Size]
      BY <2>9, <3>2 DEF Adding, Rd, Rr
    <3>4. n % Size \in Byte
      BY <3>2, WholeBytes, Quotient
    <3> QED BY <2>4, <2>7, <3>2, <3>3, <3>4
  <2>10. ASSUME regs' \in [Registers -> Byte], Running',
                \A r \in {A, A + 1, B, B + 1} : regs'[r] = before[r],
                next' = 2 => regs'[P] = Low /\ regs'[P + 1] = Up,
                next' > 2 => regs'[X] = Low,
                next' \in {3, 4} => regs'[X + 1] = Up,
                next' = 4 => regs'[P] = (before[A] * before[B + 1]) % Size,
                next' \in {5, 6} => regs'[X + 1] = Middle,
                next' = 6 => regs'[P] = (before[A + 1] * before[B]) % Size
         PROVE  MultiplyInv'
    <3>1. WideProduct'
      BY <2>1, <2>6, <2>10 DEF WideProduct, Ends
    <3> QED BY <2>1, <2>3, <2>4, <2>5, <2>10, <3>1 DEF MultiplyInv
  <2>11. CASE next = 1
    <3>1. MUL /\ Inst.d = A /\ Inst.r = B /\ next' = 2 /\ Running'
      BY <2>1, <2>2, <2>3, <2>11 DEF Inst, I
    <3>2. /\ regs' \in [Registers -> Byte]
          /\ \A r \in {A, A + 1, B, B + 1} : regs'[r] = before[r]
          /\ regs'[P] = Low /\ regs'[P + 1] = Up
      BY <2>4, <2>7, <2>8, <3>1 DEF Low, Up
    <3> QED BY <2>10, <3>1, <3>2
  <2>12. CASE next = 2
    <3>1. MOVW /\ Inst.d = X /\ Inst.r = P /\ next' = 3 /\ Running'
      BY <2>1, <2>2, <2>3, <2>12 DEF Inst, I
    <3>2. PICK low \in Byte, up \in Byte : low = regs[P] /\ up = regs[P + 1]
      <4>1. regs[P] \in Byte /\ regs[P + 1] \in Byte
        BY <2>4, <2>7
      <4> QED BY <4>1
    <3>3. regs' = [regs EXCEPT ![X] = (low + Size * up) % Size,
                               ![X + 1] = (low + Size * up) \div Size]
      BY <3>1, <3>2 DEF MOVW, Stored, Word
    <3>4. (low + Size * up) % Size = low /\ (low + Size * up) \div Size = up
      BY SplitWord
    <3>5. /\ regs' \in [Registers -> Byte]
          /\ \A r \in {A, A + 1, B, B + 1} : regs'[r] = before[r]
          /\ regs'[X] = Low /\ regs'[X + 1] = Up
      BY <2>4, <2>7, <2>12, <3>2, <3>3, <3>4
    <3> QED BY <2>10, <3>1, <3>5
  <2>13. CASE next \in {3, 5}
    <3>1. /\ MUL /\ next' = next + 1 /\ Running'
          /\ next = 3 => Inst.d = A /\ Inst.r = B + 1
          /\ next = 5 => Inst.d = A + 1 /\ Inst.r = B
      BY <2>1, <2>2, <2>3, <2>13 DEF Inst, I
    <3>2. /\ regs' \in [Registers -> Byte]
          /\ \A r \in {A, A + 1, B, B + 1} : regs'[r] = before[r]
          /\ regs'[X] = regs[X] /\ regs'[X + 1] = regs[X + 1]
          /\ next = 3 => regs'[P] = (before[A] * before[B + 1]) % Size
          /\ next = 5 => regs'[P] = (before[A + 1] * before[B]) % Size
      BY <2>4, <2>7, <2>8, <2>13, <3>1
    <3> QED BY <2>4, <2>10, <2>13, <3>1, <3>2
  <2>14. CASE next = 4
    <3>1. Adding(0) /\ Inst.d = X + 1 /\ Inst.r = P /\ next' = 5 /\ Running'
      BY <2>1, <2>2, <2>3, <2>14 DEF Inst, I
    <3>2. /\ regs' \in [Registers -> Byte]
          /\ \A r \in {A, A + 1, B, B + 1} : regs'[r] = before[r]
          /\ regs'[X] = Low /\ regs'[X + 1] = Middle
      BY <2>4, <2>9, <2>14, <3>1 DEF Middle
    <3> QED BY <2>10, <3>1, <3>2
  <2>15. CASE next = 6
    <3>1. Adding(0) /\ Inst.d = X + 1 /\ Inst.r = P /\ ~Running'
      BY <2>1, <2>2, <2>3, <2>15 DEF Inst, I
    <3>2. regs'[X] = Low /\ regs'[X + 1] = High
      BY <2>4, <2>7, <2>9, <2>15, <3>1 DEF High
    <3>3. PICK a \in Byte, aa \in Byte, b \in Byte, bb \in Byte :
             a = before[A] /\ aa = before[A + 1] /\ b = before[B] /\ bb = before[B + 1]
      <4>1. before[A] \in Byte /\ before[A + 1] \in Byte /\ before[B] \in Byte /\ before[B + 1] \in Byte
        BY <2>4, <2>7
      <4> QED BY <4>1
    <3>4. PICK low, mid, high : low = Low /\ mid = Middle /\ high = High
      OBVIOUS
    <3>5. /\ low = (a * b) % Size
          /\ mid = (((a * b) \div Size) + ((a * bb) % Size)) % Size
          /\ high = (mid + ((aa * b) % Size)) % Size
      BY <3>3, <3>4 DEF Low, Up, Middle, High
    <3>6. low + Size * high
            = ((a + Size * aa) * b + Size * (((a + Size * aa) * bb) % Size)) % WordSize
      BY <3>5, LongProduct
    <3>7. Word(regs', X) = (WordA * before[B] + Size * ((WordA * before[B + 1]) % Size)) % WordSize
      BY <3>2, <3>3, <3>4, <3>6 DEF Word, WordA
    <3>8. WideProduct'
      BY <2>1, <2>5, <2>6, <3>7 DEF WideProduct
    <3> QED BY <2>3, <3>1, <3>8 DEF MultiplyInv
  <2> QED BY <2>3, <2>11, <2>12, <2>13, <2>14, <2>15
<1> QED BY <1>1, <1>2, Stopped

(***************************************************************************)
(* Three products of bytes added up are the low word of the product of two *)
(* words; MULSU multiplies signed by unsigned with the sign in C, FMUL     *)
(* doubles, MULS is right for operands that are not negative (MUL_run,     *)
(* MULSU_run, FMUL_run, MULS_run, with MOVW_run and ADD_run).              *)
(***************************************************************************)
THEOREM WideProducts == Spec => []WideProduct
<1>1. ProductInv /\ MultiplyInv => WideProduct
  BY DEF ProductInv, MultiplyInv, WideProduct, OneProduct, Ends
<1> QED BY <1>1, InitProduct, NextProduct, InitMultiply, NextMultiply, PTL DEF Spec

-----------------------------------------------------------------------------
(***************************************************************************)
(* Types. The operands of each instruction of the programs: registers,     *)
(* constants that are bytes, flags. Every handler then leaves bytes in the *)
(* registers and Booleans in the flags.                                    *)
(***************************************************************************)
TwoRegisters == {"ADD", "ADC", "SUB", "SBC", "CP", "CPC", "AND", "OR", "EOR", "MOV",
                 "MUL", "MULS", "MULSU", "FMUL", "FMULS", "FMULSU"}
WithConstant == {"SUBI", "SBCI", "CPI", "ANDI", "ORI", "LDI"}
OneRegister  == {"NEG", "COM", "INC", "DEC", "LSR", "ROR", "ASR", "SWAP", "BST", "BLD"}

\* A pair is named by its low register.
Pairs == {P, A, B, X}

Proper == [op : TwoRegisters, d : Registers, r : Registers]
          \cup [op : WithConstant, d : Registers, r : Byte]
          \cup [op : OneRegister, d : Registers, r : Registers]
          \cup [op : {"ADIW", "SBIW"}, d : Pairs, r : Byte]
          \cup [op : {"MOVW"}, d : Pairs, r : Pairs]
          \cup [op : {"SEx", "CLx"}, d : Flags, r : Flags]

TypeInv ==
    /\ Held
    /\ prog \in Programs
    /\ TypeOK

LEMMA Constants ==
    ASSUME Held
    PROVE  LowK \in Byte /\ HighK \in Byte /\ ShortK \in Byte /\ Size - 1 \in Byte /\ 0 \in Byte
<1>1. before[B] \in Byte /\ before[B + 1] \in Byte
  BY DEF Held, Registers, B
<1>2. before[B] % Nibble \in Byte
  <2>1. before[B] \in Int /\ before[B] % Nibble \in 0 .. Nibble - 1
    BY <1>1, Nibbles, WholeBytes, Quotient
  <2>2. Nibble <= Size
    <3>1. Nibble <= Nibble * Nibble
      BY Nibbles, Square
    <3> QED BY <3>1, Sizes
  <2> QED BY <2>1, <2>2, Nibbles, WholeBytes
<1> QED BY <1>1, <1>2, WholeBytes DEF LowK, HighK, ShortK

LEMMA ProperInstructions ==
    ASSUME NEW op, NEW d, NEW r
    PROVE  /\ op \in TwoRegisters /\ d \in Registers /\ r \in Registers => I(op, d, r) \in Proper
           /\ op \in WithConstant /\ d \in Registers /\ r \in Byte => I(op, d, r) \in Proper
           /\ op \in OneRegister /\ d \in Registers /\ r \in Registers => I(op, d, r) \in Proper
           /\ op \in {"ADIW", "SBIW"} /\ d \in Pairs /\ r \in Byte => I(op, d, r) \in Proper
           /\ op = "MOVW" /\ d \in Pairs /\ r \in Pairs => I(op, d, r) \in Proper
           /\ op \in {"SEx", "CLx"} /\ d \in Flags /\ r \in Flags => I(op, d, r) \in Proper
  BY DEF I, Proper

LEMMA RegisterNames == /\ {A, A + 1, B, B + 1, X, X + 1, P, P + 1} \subseteq Registers
                       /\ {A, B, X, P} \subseteq Pairs /\ 0 \in Registers
                       /\ "C" \in Flags
  BY DEF A, B, X, P, Registers, Pairs, Flags

LEMMA OpNames ==
    /\ {"ADD", "ADC", "SUB", "SBC", "CP", "CPC", "AND", "OR", "EOR", "MOV",
        "MUL", "MULS", "MULSU", "FMUL", "FMULS", "FMULSU"} \subseteq TwoRegisters
    /\ {"SUBI", "SBCI", "CPI", "ANDI", "ORI", "LDI"} \subseteq WithConstant
    /\ {"NEG", "COM", "INC", "DEC", "LSR", "ROR", "ASR", "SWAP", "BST", "BLD"}
          \subseteq OneRegister
  BY DEF TwoRegisters, WithConstant, OneRegister

LEMMA ProperSequences ==
    ASSUME NEW a \in Proper, NEW b \in Proper, NEW c \in Proper, NEW e \in Proper,
           NEW f \in Proper, NEW g \in Proper
    PROVE  /\ <<a>> \in Seq(Proper) /\ Len(<<a>>) \in Nat \ {0}
           /\ <<a, b>> \in Seq(Proper) /\ Len(<<a, b>>) \in Nat \ {0}
           /\ <<a, b, c>> \in Seq(Proper) /\ Len(<<a, b, c>>) \in Nat \ {0}
           /\ <<a, b, c, e>> \in Seq(Proper) /\ Len(<<a, b, c, e>>) \in Nat \ {0}
           /\ <<a, b, c, e, f, g>> \in Seq(Proper) /\ Len(<<a, b, c, e, f, g>>) \in Nat \ {0}
  OBVIOUS

LEMMA ProperCode ==
    ASSUME Held, prog \in Programs
    PROVE  Code \in Seq(Proper) /\ Len(Code) \in Nat \ {0}
<1>1. LowK \in Byte /\ HighK \in Byte /\ ShortK \in Byte /\ Size - 1 \in Byte /\ 0 \in Byte
  BY Constants
<1>2. CASE prog = "add"
  <2>1. I("ADD", A, B) \in Proper /\ I("ADC", A+1, B+1) \in Proper
    BY <1>1, ProperInstructions, RegisterNames, OpNames
  <2>2. Code = <<I("ADD", A, B), I("ADC", A+1, B+1)>>
    BY <1>2 DEF Code
  <2> QED BY <2>1, <2>2, ProperSequences
<1>3. CASE prog = "add-loop"
  <2>1. I("ADD", A, B) \in Proper /\ I("INC", X, X) \in Proper
        /\ I("DEC", X, X) \in Proper /\ I("ADC", A+1, B+1) \in Proper
    BY <1>1, ProperInstructions, RegisterNames, OpNames
  <2>2. Code = <<I("ADD", A, B), I("INC", X, X), I("DEC", X, X), I("ADC", A+1, B+1)>>
    BY <1>3 DEF Code
  <2> QED BY <2>1, <2>2, ProperSequences
<1>4. CASE prog = "clear-add"
  <2>1. I("CLx", "C", "C") \in Proper /\ I("ADC", A, B) \in Proper
        /\ I("ADC", A+1, B+1) \in Proper
    BY <1>1, ProperInstructions, RegisterNames, OpNames
  <2>2. Code = <<I("CLx", "C", "C"), I("ADC", A, B), I("ADC", A+1, B+1)>>
    BY <1>4 DEF Code
  <2> QED BY <2>1, <2>2, ProperSequences
<1>5. CASE prog = "add-word"
  <2>1. I("ADIW", A, ShortK) \in Proper
    BY <1>1, ProperInstructions, RegisterNames, OpNames
  <2>2. Code = <<I("ADIW", A, ShortK)>>
    BY <1>5 DEF Code
  <2> QED BY <2>1, <2>2, ProperSequences
<1>6. CASE prog = "double"
  <2>1. I("ADD", A, A) \in Proper /\ I("ADC", A+1, A+1) \in Proper
    BY <1>1, ProperInstructions, RegisterNames, OpNames
  <2>2. Code = <<I("ADD", A, A), I("ADC", A+1, A+1)>>
    BY <1>6 DEF Code
  <2> QED BY <2>1, <2>2, ProperSequences
<1>7. CASE prog = "subtract"
  <2>1. I("SUB", A, B) \in Proper /\ I("SBC", A+1, B+1) \in Proper
    BY <1>1, ProperInstructions, RegisterNames, OpNames
  <2>2. Code = <<I("SUB", A, B), I("SBC", A+1, B+1)>>
    BY <1>7 DEF Code
  <2> QED BY <2>1, <2>2, ProperSequences
<1>8. CASE prog = "compare"
  <2>1. I("CP", A, B) \in Proper /\ I("CPC", A+1, B+1) \in Proper
    BY <1>1, ProperInstructions, RegisterNames, OpNames
  <2>2. Code = <<I("CP", A, B), I("CPC", A+1, B+1)>>
    BY <1>8 DEF Code
  <2> QED BY <2>1, <2>2, ProperSequences
<1>9. CASE prog = "sub-word"
  <2>1. I("SBIW", A, ShortK) \in Proper
    BY <1>1, ProperInstructions, RegisterNames, OpNames
  <2>2. Code = <<I("SBIW", A, ShortK)>>
    BY <1>9 DEF Code
  <2> QED BY <2>1, <2>2, ProperSequences
<1>10. CASE prog = "negate"
  <2>1. I("COM", A+1, A+1) \in Proper /\ I("NEG", A, A) \in Proper
        /\ I("SBCI", A+1, Size - 1) \in Proper
    BY <1>1, ProperInstructions, RegisterNames, OpNames
  <2>2. Code = <<I("COM", A+1, A+1), I("NEG", A, A), I("SBCI", A+1, Size - 1)>>
    BY <1>10 DEF Code
  <2> QED BY <2>1, <2>2, ProperSequences
<1>11. CASE prog = "constant"
  <2>1. I("SUBI", A, LowK) \in Proper /\ I("SBCI", A+1, HighK) \in Proper
    BY <1>1, ProperInstructions, RegisterNames, OpNames
  <2>2. Code = <<I("SUBI", A, LowK), I("SBCI", A+1, HighK)>>
    BY <1>11 DEF Code
  <2> QED BY <2>1, <2>2, ProperSequences
<1>12. CASE prog = "compare-constant"
  <2>1. I("CPI", A, LowK) \in Proper
    BY <1>1, ProperInstructions, RegisterNames, OpNames
  <2>2. Code = <<I("CPI", A, LowK)>>
    BY <1>12 DEF Code
  <2> QED BY <2>1, <2>2, ProperSequences
<1>13. CASE prog = "logical"
  <2>1. I("LSR", A+1, A+1) \in Proper /\ I("ROR", A, A) \in Proper
    BY <1>1, ProperInstructions, RegisterNames, OpNames
  <2>2. Code = <<I("LSR", A+1, A+1), I("ROR", A, A)>>
    BY <1>13 DEF Code
  <2> QED BY <2>1, <2>2, ProperSequences
<1>14. CASE prog = "arithmetic"
  <2>1. I("ASR", A+1, A+1) \in Proper /\ I("ROR", A, A) \in Proper
    BY <1>1, ProperInstructions, RegisterNames, OpNames
  <2>2. Code = <<I("ASR", A+1, A+1), I("ROR", A, A)>>
    BY <1>14 DEF Code
  <2> QED BY <2>1, <2>2, ProperSequences
<1>15. CASE prog = "shift-in"
  <2>1. I("SEx", "C", "C") \in Proper /\ I("ROR", A+1, A+1) \in Proper
        /\ I("ROR", A, A) \in Proper
    BY <1>1, ProperInstructions, RegisterNames, OpNames
  <2>2. Code = <<I("SEx", "C", "C"), I("ROR", A+1, A+1), I("ROR", A, A)>>
    BY <1>15 DEF Code
  <2> QED BY <2>1, <2>2, ProperSequences
<1>16. CASE prog = "multiply"
  <2>1. I("MUL", A, B) \in Proper /\ I("MOVW", X, P) \in Proper
        /\ I("MUL", A, B+1) \in Proper /\ I("ADD", X+1, P) \in Proper
        /\ I("MUL", A+1, B) \in Proper
    BY <1>1, ProperInstructions, RegisterNames, OpNames
  <2>2. Code = <<I("MUL", A, B), I("MOVW", X, P), I("MUL", A, B+1),
                   I("ADD", X+1, P), I("MUL", A+1, B), I("ADD", X+1, P)>>
    BY <1>16 DEF Code
  <2> QED BY <2>1, <2>2, ProperSequences
<1>17. CASE prog = "signed-unsigned"
  <2>1. I("MULSU", A, B) \in Proper
    BY <1>1, ProperInstructions, RegisterNames, OpNames
  <2>2. Code = <<I("MULSU", A, B)>>
    BY <1>17 DEF Code
  <2> QED BY <2>1, <2>2, ProperSequences
<1>18. CASE prog = "signed"
  <2>1. I("MULS", A, B) \in Proper
    BY <1>1, ProperInstructions, RegisterNames, OpNames
  <2>2. Code = <<I("MULS", A, B)>>
    BY <1>18 DEF Code
  <2> QED BY <2>1, <2>2, ProperSequences
<1>19. CASE prog = "fraction"
  <2>1. I("FMUL", A, B) \in Proper
    BY <1>1, ProperInstructions, RegisterNames, OpNames
  <2>2. Code = <<I("FMUL", A, B)>>
    BY <1>19 DEF Code
  <2> QED BY <2>1, <2>2, ProperSequences
<1>20. CASE prog = "signed-fraction"
  <2>1. I("FMULS", A, B) \in Proper
    BY <1>1, ProperInstructions, RegisterNames, OpNames
  <2>2. Code = <<I("FMULS", A, B)>>
    BY <1>20 DEF Code
  <2> QED BY <2>1, <2>2, ProperSequences
<1>21. CASE prog = "half-signed-fraction"
  <2>1. I("FMULSU", A, B) \in Proper
    BY <1>1, ProperInstructions, RegisterNames, OpNames
  <2>2. Code = <<I("FMULSU", A, B)>>
    BY <1>21 DEF Code
  <2> QED BY <2>1, <2>2, ProperSequences
<1>22. CASE prog = "exchange"
  <2>1. I("EOR", A, B) \in Proper /\ I("EOR", B, A) \in Proper
    BY <1>1, ProperInstructions, RegisterNames, OpNames
  <2>2. Code = <<I("EOR", A, B), I("EOR", B, A), I("EOR", A, B)>>
    BY <1>22 DEF Code
  <2> QED BY <2>1, <2>2, ProperSequences
<1>23. CASE prog = "merge"
  <2>1. I("MOV", X, B) \in Proper /\ I("ANDI", X, HighK) \in Proper
        /\ I("LDI", X+1, HighK) \in Proper /\ I("COM", X+1, X+1) \in Proper
        /\ I("AND", A, X+1) \in Proper /\ I("OR", A, X) \in Proper
    BY <1>1, ProperInstructions, RegisterNames, OpNames
  <2>2. Code = <<I("MOV", X, B), I("ANDI", X, HighK), I("LDI", X+1, HighK),
                   I("COM", X+1, X+1), I("AND", A, X+1), I("OR", A, X)>>
    BY <1>23 DEF Code
  <2> QED BY <2>1, <2>2, ProperSequences
<1>24. CASE prog = "swap"
  <2>1. I("SWAP", A, A) \in Proper /\ I("ORI", A, 0) \in Proper
    BY <1>1, ProperInstructions, RegisterNames, OpNames
  <2>2. Code = <<I("SWAP", A, A), I("ORI", A, 0), I("SWAP", A, A)>>
    BY <1>24 DEF Code
  <2> QED BY <2>1, <2>2, ProperSequences
<1>25. CASE prog = "bit"
  <2>1. I("BST", A, 0) \in Proper /\ I("BLD", B, 0) \in Proper
    BY <1>1, ProperInstructions, RegisterNames, OpNames
  <2>2. Code = <<I("BST", A, 0), I("BLD", B, 0)>>
    BY <1>25 DEF Code
  <2> QED BY <2>1, <2>2, ProperSequences
<1> QED BY <1>2, <1>3, <1>4, <1>5, <1>6, <1>7, <1>8, <1>9, <1>10, <1>11, <1>12, <1>13, <1>14,
           <1>15, <1>16, <1>17, <1>18, <1>19, <1>20, <1>21, <1>22, <1>23, <1>24, <1>25
        DEF Programs

LEMMA Operands ==
    ASSUME Inst \in Proper
    PROVE  /\ Inst.op \in TwoRegisters => Inst.d \in Registers /\ Inst.r \in Registers
           /\ Inst.op \in WithConstant => Inst.d \in Registers /\ Inst.r \in Byte
           /\ Inst.op \in OneRegister => Inst.d \in Registers
           /\ Inst.op \in {"ADIW", "SBIW"} => Inst.d \in Pairs /\ Inst.r \in Byte
           /\ Inst.op = "MOVW" => Inst.d \in Pairs /\ Inst.r \in Pairs
           /\ Inst.op \in {"SEx", "CLx"} => Inst.d \in Flags
<1>1. PICK i \in Proper : i = Inst
  OBVIOUS
<1>2. CASE i \in [op : TwoRegisters, d : Registers, r : Registers]
  BY <1>1, <1>2 DEF TwoRegisters, WithConstant, OneRegister
<1>3. CASE i \in [op : WithConstant, d : Registers, r : Byte]
  BY <1>1, <1>3 DEF TwoRegisters, WithConstant, OneRegister
<1>4. CASE i \in [op : OneRegister, d : Registers, r : Registers]
  BY <1>1, <1>4 DEF TwoRegisters, WithConstant, OneRegister
<1>5. CASE i \in [op : {"ADIW", "SBIW"}, d : Pairs, r : Byte]
  BY <1>1, <1>5 DEF TwoRegisters, WithConstant, OneRegister
<1>6. CASE i \in [op : {"MOVW"}, d : Pairs, r : Pairs]
  BY <1>1, <1>6 DEF TwoRegisters, WithConstant, OneRegister
<1>7. CASE i \in [op : {"SEx", "CLx"}, d : Flags, r : Flags]
  BY <1>1, <1>7 DEF TwoRegisters, WithConstant, OneRegister
<1> QED BY <1>2, <1>3, <1>4, <1>5, <1>6, <1>7 DEF Proper

LEMMA ByteOf == \A n \in Int : n % Size \in Byte
  BY WholeBytes, Quotient

\* A result in one register, and in a pair.
LEMMA NewByte ==
    ASSUME Held, NEW d \in Registers, NEW res \in Byte
    PROVE  [regs EXCEPT ![d] = res] \in [Registers -> Byte]
  BY DEF Held

LEMMA NewWord ==
    ASSUME Held, NEW d \in Pairs, NEW w \in 0 .. WordSize - 1
    PROVE  Stored(d, w) \in [Registers -> Byte]
<1>1. w % Size \in Byte /\ w \div Size \in Byte
  BY TwoBytes
<1>2. d \in Registers /\ d + 1 \in Registers
  BY DEF Pairs, A, B, X, P, Registers
<1> QED BY <1>1, <1>2 DEF Held, Stored

LEMMA PairWord ==
    ASSUME Held, NEW d \in Pairs
    PROVE  Word(regs, d) \in 0 .. WordSize - 1
<1>1. d \in Registers /\ d + 1 \in Registers
  BY DEF Pairs, A, B, X, P, Registers
<1>2. regs[d] \in Byte /\ regs[d + 1] \in Byte
  BY <1>1 DEF Held
<1> QED BY <1>2, WordRange DEF Word

\* Flags are Booleans, whichever of them an instruction sets.
LEMMA NewFlag ==
    ASSUME NEW s \in [Flags -> BOOLEAN], NEW f \in Flags, NEW b \in BOOLEAN
    PROVE  [s EXCEPT ![f] = b] \in [Flags -> BOOLEAN]
  OBVIOUS

LEMMA NewFlags ==
    ASSUME Held, NEW n \in BOOLEAN, NEW z \in BOOLEAN, NEW v \in BOOLEAN
    PROVE  NZVS(n, z, v) \in [Flags -> BOOLEAN]
<1> DEFINE s == n # v
<1>1. s \in BOOLEAN
  OBVIOUS
<1> HIDE DEF s
<1>2. [sreg EXCEPT !["N"] = n, !["Z"] = z, !["V"] = v, !["S"] = s] \in [Flags -> BOOLEAN]
  BY <1>1 DEF Held, Flags
<1> QED BY <1>2 DEF NZVS, s

LEMMA NewCarries ==
    ASSUME NEW s \in [Flags -> BOOLEAN], NEW h \in BOOLEAN, NEW c \in BOOLEAN
    PROVE  /\ [s EXCEPT !["H"] = h, !["C"] = c] \in [Flags -> BOOLEAN]
           /\ [s EXCEPT !["C"] = c] \in [Flags -> BOOLEAN]
           /\ [s EXCEPT !["S"] = c] \in [Flags -> BOOLEAN]
           /\ [s EXCEPT !["C"] = c, !["Z"] = h] \in [Flags -> BOOLEAN]
           /\ [s EXCEPT !["T"] = c] \in [Flags -> BOOLEAN]
  BY DEF Flags

LEMMA ByteFlagsAre ==
    ASSUME Held, NEW res, NEW v \in BOOLEAN
    PROVE  ByteFlags(res, v) \in [Flags -> BOOLEAN]
<1>1. Msb(res) \in BOOLEAN /\ (res = 0) \in BOOLEAN
  BY DEF Msb
<1> QED BY <1>1, NewFlags DEF ByteFlags

LEMMA FlagFormulas ==
    ASSUME NEW x, NEW y, NEW z
    PROVE  /\ Carried(x, y, z) \in BOOLEAN /\ Borrowed(x, y, z) \in BOOLEAN
           /\ BorrowedImmediate(x, y, z) \in BOOLEAN
           /\ AddOverflow(x, y, z) \in BOOLEAN /\ SubOverflow(x, y, z) \in BOOLEAN
           /\ SubOverflowImmediate(x, y, z) \in BOOLEAN
  BY DEF Carried, Borrowed, BorrowedImmediate, AddOverflow, SubOverflow, SubOverflowImmediate

LEMMA AddingKeeps ==
    ASSUME Held, Inst.d \in Registers, Inst.r \in Registers, NEW carry \in {0, 1}, Adding(carry),
           before' = before
    PROVE  Held'
<1>1. Rd \in Byte /\ Rr \in Byte
  BY DEF Held, Rd, Rr
<1> DEFINE res == (Rd + Rr + carry) % Size
           f == ByteFlags(res, AddOverflow(Msb(Rd), Msb(Rr), Msb(res)))
           h == Carried(Mid(Rd), Mid(Rr), Mid(res))
           c == Carried(Msb(Rd), Msb(Rr), Msb(res))
<1>2. res \in Byte
  BY <1>1, ByteOf, WholeBytes
<1>3. h \in BOOLEAN /\ c \in BOOLEAN
  BY FlagFormulas
<1>4. f \in [Flags -> BOOLEAN]
  <2>1. AddOverflow(Msb(Rd), Msb(Rr), Msb(res)) \in BOOLEAN
    BY FlagFormulas
  <2> HIDE DEF res
  <2> QED BY <2>1, ByteFlagsAre
<1>5. regs' = [regs EXCEPT ![Inst.d] = res] /\ sreg' = [f EXCEPT !["H"] = h, !["C"] = c]
  BY DEF Adding
<1> HIDE DEF res, f, h, c
<1>6. regs' \in [Registers -> Byte]
  BY <1>2, <1>5, NewByte
<1>7. sreg' \in [Flags -> BOOLEAN]
  BY <1>3, <1>4, <1>5, NewCarries
<1> QED BY <1>6, <1>7 DEF Held

LEMMA DifferenceKeeps ==
    ASSUME Held, NEW x \in Byte, NEW y \in Byte, NEW borrow \in {0, 1}
    PROVE  /\ Difference(x, y, borrow) \in Byte
           /\ SubFlags(x, y, Difference(x, y, borrow)) => sreg' \in [Flags -> BOOLEAN]
           /\ ImmediateFlags(x, y, Difference(x, y, borrow)) => sreg' \in [Flags -> BOOLEAN]
<1>1. PICK res \in Byte : res = Difference(x, y, borrow)
  BY ByteOf, WholeBytes DEF Difference
<1>2. ASSUME SubFlags(x, y, res)
      PROVE  sreg' \in [Flags -> BOOLEAN]
  <2> DEFINE v == SubOverflow(Msb(x), Msb(y), Msb(res))
             h == Borrowed(Mid(x), Mid(y), Mid(res))
             c == Borrowed(Msb(x), Msb(y), Msb(res))
  <2>1. v \in BOOLEAN /\ h \in BOOLEAN /\ c \in BOOLEAN
    BY FlagFormulas
  <2>2. sreg' = [ByteFlags(res, v) EXCEPT !["H"] = h, !["C"] = c]
    BY <1>2 DEF SubFlags
  <2> HIDE DEF v, h, c
  <2>3. ByteFlags(res, v) \in [Flags -> BOOLEAN]
    BY <2>1, ByteFlagsAre
  <2> QED BY <2>1, <2>2, <2>3, NewCarries
<1>3. ASSUME ImmediateFlags(x, y, res)
      PROVE  sreg' \in [Flags -> BOOLEAN]
  <2> DEFINE v == SubOverflowImmediate(Msb(x), Msb(y), Msb(res))
             h == Borrowed(Mid(x), Mid(y), Mid(res))
             c == BorrowedImmediate(Msb(x), Msb(y), Msb(res))
  <2>1. v \in BOOLEAN /\ h \in BOOLEAN /\ c \in BOOLEAN
    BY FlagFormulas
  <2>2. sreg' = [ByteFlags(res, v) EXCEPT !["H"] = h, !["C"] = c]
    BY <1>3 DEF ImmediateFlags
  <2> HIDE DEF v, h, c
  <2>3. ByteFlags(res, v) \in [Flags -> BOOLEAN]
    BY <2>1, ByteFlagsAre
  <2> QED BY <2>1, <2>2, <2>3, NewCarries
<1> QED BY <1>1, <1>2, <1>3

LEMMA CarryNumber == Num(sreg["C"]) \in {0, 1}
  BY DEF Num

LEMMA SubtractingKeeps ==
    ASSUME Held, Inst.d \in Registers, Inst.r \in Registers, NEW borrow \in {0, 1},
           before' = before, Subtracting(borrow) \/ Comparing(borrow)
    PROVE  Held'
<1>1. Rd \in Byte /\ Rr \in Byte
  BY DEF Held, Rd, Rr
<1>2. Difference(Rd, Rr, borrow) \in Byte
  BY <1>1, DifferenceKeeps
<1>3. sreg' \in [Flags -> BOOLEAN]
  BY <1>1, DifferenceKeeps DEF Subtracting, Comparing
<1>4. regs' \in [Registers -> Byte]
  BY <1>2, NewByte DEF Subtracting, Comparing, Held
<1> QED BY <1>3, <1>4 DEF Held

LEMMA ImmediateKeeps ==
    ASSUME Held, Inst.d \in Registers, Inst.r \in Byte, before' = before, SUBI \/ SBCI \/ CPI
    PROVE  Held'
<1>1. Rd \in Byte /\ K \in Byte
  BY DEF Held, Rd, K
<1>2. PICK borrow \in {0, 1} :
         \/ SubtractingImmediate(borrow)
         \/ ImmediateFlags(Rd, K, Difference(Rd, K, borrow)) /\ UNCHANGED regs
  BY CarryNumber DEF SUBI, SBCI, CPI
<1>3. Difference(Rd, K, borrow) \in Byte
  BY <1>1, DifferenceKeeps
<1>4. sreg' \in [Flags -> BOOLEAN]
  BY <1>1, <1>2, DifferenceKeeps DEF SubtractingImmediate
<1>5. regs' \in [Registers -> Byte]
  BY <1>2, <1>3, NewByte DEF SubtractingImmediate, Held
<1> QED BY <1>4, <1>5 DEF Held

LEMMA WordKeeps ==
    ASSUME Held, Inst.d \in Pairs, Inst.r \in Byte, before' = before, ADIW \/ SBIW
    PROVE  Held'
<1>1. Word(regs, Inst.d) \in 0 .. WordSize - 1 /\ K \in Byte
  BY PairWord DEF K
<1>2. PICK w \in 0 .. WordSize - 1 : regs' = Stored(Inst.d, w)
  <2>1. Word(regs, Inst.d) + K \in Int /\ Word(regs, Inst.d) - K \in Int
    BY <1>1, WholeBytes, HalfWord
  <2>2. \A n \in Int : n % WordSize \in 0 .. WordSize - 1
    BY HalfWord, Quotient
  <2> QED BY <2>1, <2>2 DEF ADIW, SBIW
<1>3. PICK n \in BOOLEAN, z \in BOOLEAN, v \in BOOLEAN, c \in BOOLEAN :
         sreg' = [NZVS(n, z, v) EXCEPT !["C"] = c]
  <2>1. CASE ADIW
    <3> DEFINE word == Word(regs, Inst.d)
               res  == (word + K) % WordSize
               n == MsbW(res)
               z == res = 0
               v == MsbW(res) /\ ~MsbW(word)
               c == ~MsbW(res) /\ MsbW(word)
    <3>1. n \in BOOLEAN /\ z \in BOOLEAN /\ v \in BOOLEAN /\ c \in BOOLEAN
      BY DEF MsbW
    <3>2. sreg' = [NZVS(n, z, v) EXCEPT !["C"] = c]
      BY <2>1 DEF ADIW
    <3> HIDE DEF n, z, v, c
    <3> QED BY <3>1, <3>2
  <2>2. CASE SBIW
    <3> DEFINE word == Word(regs, Inst.d)
               res  == (word - K) % WordSize
               n == MsbW(res)
               z == res = 0
               v == MsbW(word) /\ ~MsbW(res)
               c == MsbW(res) /\ ~MsbW(word)
    <3>1. n \in BOOLEAN /\ z \in BOOLEAN /\ v \in BOOLEAN /\ c \in BOOLEAN
      BY DEF MsbW
    <3>2. sreg' = [NZVS(n, z, v) EXCEPT !["C"] = c]
      BY <2>2 DEF SBIW
    <3> HIDE DEF n, z, v, c
    <3> QED BY <3>1, <3>2
  <2> QED BY <2>1, <2>2
<1>4. NZVS(n, z, v) \in [Flags -> BOOLEAN]
  BY NewFlags
<1>5. sreg' \in [Flags -> BOOLEAN]
  BY <1>3, <1>4, NewCarries
<1>6. regs' \in [Registers -> Byte]
  BY <1>2, NewWord
<1> QED BY <1>5, <1>6 DEF Held

\* One register gets a byte, and the flags of the byte with a carry.
LEMMA ByteAndFlags ==
    ASSUME Held, before' = before, NEW d \in Registers, NEW res \in Byte, NEW v \in BOOLEAN,
           regs' = [regs EXCEPT ![d] = res],
           \/ sreg' = ByteFlags(res, v)
           \/ \E h, c \in BOOLEAN : sreg' = [ByteFlags(res, v) EXCEPT !["H"] = h, !["C"] = c]
           \/ \E c \in BOOLEAN : sreg' = [ByteFlags(res, v) EXCEPT !["C"] = c]
           \/ \E c \in BOOLEAN : sreg' = [ByteFlags(res, v) EXCEPT !["S"] = c]
    PROVE  Held'
<1>1. ByteFlags(res, v) \in [Flags -> BOOLEAN]
  BY ByteFlagsAre
<1>2. sreg' \in [Flags -> BOOLEAN]
  BY <1>1, NewCarries
<1>3. regs' \in [Registers -> Byte]
  BY NewByte
<1> QED BY <1>2, <1>3 DEF Held

LEMMA CountingKeeps ==
    ASSUME Held, Inst.d \in Registers, before' = before, NEG \/ INC \/ DEC \/ COM
    PROVE  Held'
<1>1. Rd \in Byte /\ Rd \in Int /\ sreg["S"] \in BOOLEAN
  BY WholeBytes DEF Held, Rd, Flags
<1>2. CASE NEG
  <2> DEFINE res == (0 - Rd) % Size
             v == res = Half
             h == Mid(res) \/ Mid(Rd)
             c == res # 0
  <2>1. res \in Byte
    BY <1>1, ByteOf
  <2>2. v \in BOOLEAN /\ h \in BOOLEAN /\ c \in BOOLEAN
    BY DEF Mid
  <2>3. regs' = [regs EXCEPT ![Inst.d] = res]
        /\ sreg' = [ByteFlags(res, v) EXCEPT !["H"] = h, !["C"] = c]
    BY <1>2 DEF NEG
  <2> HIDE DEF res, v, h, c
  <2> QED BY <2>1, <2>2, <2>3, ByteAndFlags
<1>3. CASE INC
  <2> DEFINE res == (Rd + 1) % Size
             v == res = Half - 1
  <2>1. res \in Byte
    BY <1>1, ByteOf
  <2>2. v \in BOOLEAN
    OBVIOUS
  <2>3. regs' = [regs EXCEPT ![Inst.d] = res] /\ sreg' = ByteFlags(res, v)
    BY <1>3 DEF INC
  <2> HIDE DEF res, v
  <2> QED BY <2>1, <2>2, <2>3, ByteAndFlags
<1>4. CASE DEC
  <2> DEFINE res == (Rd - 1) % Size
             v == res = Half - 1
             s == sreg["S"]
  <2>1. res \in Byte
    BY <1>1, ByteOf
  <2>2. v \in BOOLEAN /\ s \in BOOLEAN
    BY <1>1
  <2>3. regs' = [regs EXCEPT ![Inst.d] = res] /\ sreg' = [ByteFlags(res, v) EXCEPT !["S"] = s]
    BY <1>4 DEF DEC
  <2> HIDE DEF res, v, s
  <2> QED BY <2>1, <2>2, <2>3, ByteAndFlags
<1>5. CASE COM
  <2> DEFINE res == Size - 1 - Rd
  <2>1. res \in Byte
    BY <1>1, Complement
  <2>2. regs' = [regs EXCEPT ![Inst.d] = res]
        /\ sreg' = [ByteFlags(res, FALSE) EXCEPT !["C"] = TRUE]
    BY <1>5 DEF COM
  <2> HIDE DEF res
  <2> QED BY <2>1, <2>2, ByteAndFlags
<1> QED BY <1>2, <1>3, <1>4, <1>5

LEMMA ShiftingKeeps ==
    ASSUME Held, Inst.d \in Registers, before' = before, LSR \/ ASR \/ ROR
    PROVE  Held'
<1>1. Rd \in Byte /\ Rd \in Int /\ Rd >= 0 /\ Rd < Size
  BY WholeBytes DEF Held, Rd
<1>2. PICK top \in BOOLEAN, op \in {"LSR", "ASR", "ROR"} : Shifted(op, top)
  <2>1. Msb(Rd) \in BOOLEAN /\ sreg["C"] \in BOOLEAN
    BY DEF Msb, Held, Flags
  <2> QED BY <2>1 DEF LSR, ASR, ROR
<1> DEFINE res == (Rd \div 2) + (IF top THEN Half ELSE 0)
           v == top # Odd(Rd)
           c == Odd(Rd)
<1>3. res \in Byte
  <2>1. PICK x \in Int : x = Rd
    BY <1>1
  <2>2. x \div 2 \in Int /\ x \div 2 >= 0 /\ x \div 2 < Half
    BY <1>1, <2>1, WholeBytes
  <2> QED BY <2>1, <2>2, WholeBytes
<1>4. v \in BOOLEAN /\ c \in BOOLEAN
  BY DEF Odd
<1>5. regs' = [regs EXCEPT ![Inst.d] = res] /\ sreg' = [ByteFlags(res, v) EXCEPT !["C"] = c]
  BY <1>2 DEF Shifted
<1> HIDE DEF res, v, c
<1> QED BY <1>3, <1>4, <1>5, ByteAndFlags

LEMMA LogicKeeps ==
    ASSUME Held, Inst.d \in Registers, before' = before,
           \/ (AND \/ OR \/ EOR) /\ Inst.r \in Registers
           \/ (ANDI \/ ORI) /\ Inst.r \in Byte
    PROVE  Held'
<1>1. Rd \in Byte
  BY DEF Held, Rd
<1>2. \A y \in Byte : And(Rd, y) \in Byte /\ Or(Rd, y) \in Byte /\ Xor(Rd, y) \in Byte
  BY <1>1, Bitwise2
<1>3. CASE (AND \/ OR \/ EOR) /\ Inst.r \in Registers
  <2>1. Rr \in Byte
    BY <1>3 DEF Held, Rr
  <2>2. PICK res \in Byte : regs' = [regs EXCEPT ![Inst.d] = res] /\ sreg' = ByteFlags(res, FALSE)
    BY <1>2, <1>3, <2>1 DEF AND, OR, EOR, Logical
  <2> QED BY <2>2, ByteAndFlags
<1>4. CASE (ANDI \/ ORI) /\ Inst.r \in Byte
  <2>1. K \in Byte
    BY <1>4 DEF K
  <2>2. PICK res \in Byte : regs' = [regs EXCEPT ![Inst.d] = res] /\ sreg' = ByteFlags(res, FALSE)
    BY <1>2, <1>4, <2>1 DEF ANDI, ORI, Logical
  <2> QED BY <2>2, ByteAndFlags
<1> QED BY <1>3, <1>4

LEMMA MovesKeep ==
    ASSUME Held, before' = before,
           \/ (SWAP \/ BLD) /\ Inst.d \in Registers
           \/ MOV /\ Inst.d \in Registers /\ Inst.r \in Registers
           \/ LDI /\ Inst.d \in Registers /\ Inst.r \in Byte
    PROVE  Held'
<1>1. Rd \in Byte /\ Inst.d \in Registers
  BY DEF Held, Rd
<1>2. (Rd % Nibble) * (Size \div Nibble) + Rd \div Nibble \in Byte
  BY <1>1, Swapped
<1>3. ValueOf(BitsOf(Rd) \ {Inst.r}) \in Byte
  <2>1. BitsOf(Rd) \ {Inst.r} \in SUBSET Places
    BY <1>1, ValueOfBits
  <2> QED BY <2>1, BitsOfByte
<1>4. MOV /\ Inst.r \in Registers => Rr \in Byte
  BY DEF Held, Rr
<1>5. PICK res \in Byte : regs' = [regs EXCEPT ![Inst.d] = res] /\ sreg' = sreg
  BY <1>2, <1>3, <1>4 DEF SWAP, BLD, MOV, LDI, K, Moved
<1> QED BY <1>1, <1>5, NewByte DEF Held

LEMMA OthersKeep ==
    ASSUME Held, before' = before,
           \/ MOVW /\ Inst.d \in Pairs /\ Inst.r \in Pairs
           \/ (SEx \/ CLx) /\ Inst.d \in Flags
           \/ BST
    PROVE  Held'
<1>1. CASE MOVW /\ Inst.d \in Pairs /\ Inst.r \in Pairs
  <2>1. Word(regs, Inst.r) \in 0 .. WordSize - 1
    BY <1>1, PairWord
  <2>2. regs' = Stored(Inst.d, Word(regs, Inst.r)) /\ sreg' = sreg
    BY <1>1 DEF MOVW
  <2> QED BY <1>1, <2>1, <2>2, NewWord DEF Held
<1>2. CASE (SEx \/ CLx) /\ Inst.d \in Flags
  <2>1. PICK b \in BOOLEAN : sreg' = [sreg EXCEPT ![Inst.d] = b] /\ regs' = regs
    BY <1>2 DEF SEx, CLx, Flagged
  <2> QED BY <1>2, <2>1, NewFlag DEF Held
<1>3. CASE BST
  <2> DEFINE b == Inst.r \in BitsOf(Rd)
  <2>1. b \in BOOLEAN
    OBVIOUS
  <2>2. sreg' = [sreg EXCEPT !["T"] = b] /\ regs' = regs
    BY <1>3 DEF BST, Flagged
  <2> HIDE DEF b
  <2> QED BY <2>1, <2>2, NewFlag DEF Held, Flags
<1> QED BY <1>1, <1>2, <1>3

LEMMA ProductsKeep ==
    ASSUME Held, Inst.d \in Registers, Inst.r \in Registers, before' = before, Products
    PROVE  Held'
<1>1. PICK x \in Byte, y \in Byte : x = Rd /\ y = Rr
  BY DEF Held, Rd, Rr
<1>2. x * y \in 0 .. WordSize - 1
  BY ProductOfBytes
<1>3. (Signed(x) * y) % WordSize \in 0 .. WordSize - 1
  BY SignedProduct
<1>4. (2 * x * y) % WordSize \in 0 .. WordSize - 1
  <2>1. 2 * x * y \in Int
    BY WholeBytes
  <2> QED BY <2>1, HalfWord, Quotient
<1>5. \A w \in 0 .. WordSize - 1 : ShiftedRight(w) \in 0 .. WordSize - 1
  <2> SUFFICES ASSUME NEW w \in 0 .. WordSize - 1
               PROVE  ShiftedRight(w) \in 0 .. WordSize - 1
    OBVIOUS
  <2>1. PICK top \in Int : top = Size * Half /\ WordSize = 2 * top /\ top > 0
    BY HalfWord
  <2>2. w \div 2 \in Int /\ w \div 2 >= 0 /\ w \div 2 < top
    BY <2>1
  <2> QED BY <2>1, <2>2 DEF ShiftedRight
<1>6. PICK shifted \in 0 .. WordSize - 1, c \in BOOLEAN :
         regs' = Stored(P, shifted) /\ sreg' = [sreg EXCEPT !["C"] = c, !["Z"] = (shifted = 0)]
  <2>1. ASSUME NEW op, NEW product, NEW shifted \in 0 .. WordSize - 1,
               Multiplied(op, product, shifted)
        PROVE  \E w \in 0 .. WordSize - 1, c \in BOOLEAN :
                  regs' = Stored(P, w) /\ sreg' = [sreg EXCEPT !["C"] = c, !["Z"] = (w = 0)]
    <3> DEFINE c == MsbW(product % WordSize)
    <3>1. c \in BOOLEAN
      BY DEF MsbW
    <3>2. regs' = Stored(P, shifted) /\ sreg' = [sreg EXCEPT !["C"] = c, !["Z"] = (shifted = 0)]
      BY <2>1 DEF Multiplied
    <3> HIDE DEF c
    <3> QED BY <3>1, <3>2
  <2>2. CASE MUL
    BY <1>1, <1>2, <2>1, <2>2 DEF MUL
  <2>3. CASE MULS
    BY <1>1, <1>2, <2>1, <2>3 DEF MULS
  <2>4. CASE MULSU
    BY <1>1, <1>3, <2>1, <2>4 DEF MULSU
  <2>5. CASE FMUL
    BY <1>1, <1>4, <2>1, <2>5 DEF FMUL
  <2>6. CASE FMULS
    BY <1>1, <1>2, <1>5, <2>1, <2>6 DEF FMULS
  <2>7. CASE FMULSU
    BY <1>1, <1>3, <1>5, <2>1, <2>7 DEF FMULSU
  <2> QED BY <2>2, <2>3, <2>4, <2>5, <2>6, <2>7 DEF Products
<1>7. P \in Pairs
  BY RegisterNames
<1>8. regs' \in [Registers -> Byte]
  BY <1>6, <1>7, NewWord
<1>9. sreg' \in [Flags -> BOOLEAN]
  <2>1. (shifted = 0) \in BOOLEAN /\ sreg \in [Flags -> BOOLEAN]
    BY DEF Held
  <2> QED BY <1>6, <2>1, NewCarries
<1> QED BY <1>8, <1>9 DEF Held

\* Every instruction leaves bytes and Booleans, and goes to the next.
LEMMA InstructionKeeps ==
    ASSUME Held, prog \in Programs, next \in Nat \ {0}, Running, Next
    PROVE  /\ Held' /\ prog' = prog /\ before' = before
           /\ next' = next + 1 /\ Code' = Code
<1>1. next' = next + 1 /\ prog' = prog /\ before' = before
  BY OneInstruction
<1>2. Code' = Code
  BY <1>1 DEF Code, I, LowK, HighK, ShortK
<1> SUFFICES Held'
  BY <1>1, <1>2
<1>3. Inst \in Proper
  <2>1. Code \in Seq(Proper) /\ next \in 1 .. Len(Code)
    BY ProperCode DEF Running
  <2> QED BY <2>1 DEF Inst
<1>4. /\ Inst.op \in TwoRegisters => Inst.d \in Registers /\ Inst.r \in Registers
      /\ Inst.op \in WithConstant => Inst.d \in Registers /\ Inst.r \in Byte
      /\ Inst.op \in OneRegister => Inst.d \in Registers
      /\ Inst.op \in {"ADIW", "SBIW"} => Inst.d \in Pairs /\ Inst.r \in Byte
      /\ Inst.op = "MOVW" => Inst.d \in Pairs /\ Inst.r \in Pairs
      /\ Inst.op \in {"SEx", "CLx"} => Inst.d \in Flags
  BY <1>3, Operands
<1>5. CASE Arithmetic
  <2>1. CASE ADD \/ ADC
    <3>1. Inst.op \in TwoRegisters
      BY <2>1 DEF ADD, ADC, Execute, Inst, TwoRegisters
    <3>2. PICK carry \in {0, 1} : Adding(carry)
      BY <2>1, CarryNumber DEF ADD, ADC
    <3> QED BY <1>1, <1>4, <3>1, <3>2, AddingKeeps
  <2>2. CASE SUB \/ SBC \/ CP \/ CPC
    <3>1. Inst.op \in TwoRegisters
      BY <2>2 DEF SUB, SBC, CP, CPC, Execute, Inst, TwoRegisters
    <3>2. PICK borrow \in {0, 1} : Subtracting(borrow) \/ Comparing(borrow)
      BY <2>2, CarryNumber DEF SUB, SBC, CP, CPC
    <3> QED BY <1>1, <1>4, <3>1, <3>2, SubtractingKeeps
  <2>3. CASE SUBI \/ SBCI \/ CPI
    <3>1. Inst.op \in WithConstant
      BY <2>3 DEF SUBI, SBCI, CPI, Execute, Inst, WithConstant
    <3> QED BY <1>1, <1>4, <2>3, <3>1, ImmediateKeeps
  <2>4. CASE ADIW \/ SBIW
    <3>1. Inst.op \in {"ADIW", "SBIW"}
      BY <2>4 DEF ADIW, SBIW, Execute, Inst
    <3> QED BY <1>1, <1>4, <2>4, <3>1, WordKeeps
  <2>5. CASE NEG \/ INC \/ DEC
    <3>1. Inst.op \in OneRegister
      BY <2>5 DEF NEG, INC, DEC, Execute, Inst, OneRegister
    <3> QED BY <1>1, <1>4, <2>5, <3>1, CountingKeeps
  <2> QED BY <1>5, <2>1, <2>2, <2>3, <2>4, <2>5 DEF Arithmetic
<1>6. CASE Products
  <2>1. Inst.op \in TwoRegisters
    BY <1>6 DEF Products, MUL, MULS, MULSU, FMUL, FMULS, FMULSU, Multiplied, Execute, Inst,
                TwoRegisters
  <2> QED BY <1>1, <1>4, <1>6, <2>1, ProductsKeep
<1>7. CASE Bits
  <2>1. CASE AND \/ OR \/ EOR
    <3>1. Inst.op \in TwoRegisters
      BY <2>1 DEF AND, OR, EOR, Logical, Execute, Inst, TwoRegisters
    <3> QED BY <1>1, <1>4, <2>1, <3>1, LogicKeeps
  <2>2. CASE ANDI \/ ORI
    <3>1. Inst.op \in WithConstant
      BY <2>2 DEF ANDI, ORI, Logical, Execute, Inst, WithConstant
    <3> QED BY <1>1, <1>4, <2>2, <3>1, LogicKeeps
  <2>3. CASE COM
    <3>1. Inst.op \in OneRegister
      BY <2>3 DEF COM, Execute, Inst, OneRegister
    <3> QED BY <1>1, <1>4, <2>3, <3>1, CountingKeeps
  <2>4. CASE LSR \/ ROR \/ ASR
    <3>1. Inst.op \in OneRegister
      BY <2>4 DEF LSR, ROR, ASR, Shifted, Execute, Inst, OneRegister
    <3> QED BY <1>1, <1>4, <2>4, <3>1, ShiftingKeeps
  <2>5. CASE SWAP \/ BLD
    <3>1. Inst.op \in OneRegister
      BY <2>5 DEF SWAP, BLD, Moved, Execute, Inst, OneRegister
    <3> QED BY <1>1, <1>4, <2>5, <3>1, MovesKeep
  <2>6. CASE MOV
    <3>1. Inst.op \in TwoRegisters
      BY <2>6 DEF MOV, Moved, Execute, Inst, TwoRegisters
    <3> QED BY <1>1, <1>4, <2>6, <3>1, MovesKeep
  <2>7. CASE LDI
    <3>1. Inst.op \in WithConstant
      BY <2>7 DEF LDI, Moved, Execute, Inst, WithConstant
    <3> QED BY <1>1, <1>4, <2>7, <3>1, MovesKeep
  <2>8. CASE MOVW
    <3>1. Inst.op = "MOVW"
      BY <2>8 DEF MOVW, Execute, Inst
    <3> QED BY <1>1, <1>4, <2>8, <3>1, OthersKeep
  <2>9. CASE SEx \/ CLx
    <3>1. Inst.op \in {"SEx", "CLx"}
      BY <2>9 DEF SEx, CLx, Flagged, Execute, Inst
    <3> QED BY <1>1, <1>4, <2>9, <3>1, OthersKeep
  <2>10. CASE BST
    BY <1>1, <2>10, OthersKeep
  <2> QED BY <1>7, <2>1, <2>2, <2>3, <2>4, <2>5, <2>6, <2>7, <2>8, <2>9, <2>10 DEF Bits
<1>8. CASE Finished
  BY <1>8 DEF Finished
<1> QED BY <1>5, <1>6, <1>7, <1>8 DEF Next

LEMMA InitTypes == Init => TypeInv
<1> SUFFICES ASSUME Init PROVE TypeInv
  OBVIOUS
<1>1. Held /\ next = 1
  BY InitHeld
<1>2. prog \in Programs /\ prog \in Chosen
  BY WidthAssumption DEF Init
<1>3. next \in 1 .. Len(Code) + 1
  BY <1>1, <1>2, ProperCode
<1> QED BY <1>1, <1>2, <1>3 DEF TypeInv, TypeOK, Held

LEMMA NextTypes == TypeInv /\ [Next]_vars => TypeInv'
<1> SUFFICES ASSUME TypeInv, [Next]_vars PROVE TypeInv'
  OBVIOUS
<1>0. /\ Held /\ prog \in Programs /\ prog \in Chosen
      /\ next \in Nat \ {0} /\ next <= Len(Code) + 1 /\ Len(Code) \in Nat
  <2>1. Held /\ prog \in Programs
    BY DEF TypeInv
  <2>2. Len(Code) \in Nat
    BY <2>1, ProperCode
  <2> QED BY <2>1, <2>2 DEF TypeInv, TypeOK
<1>1. CASE UNCHANGED vars
  <2>1. /\ regs' = regs /\ sreg' = sreg /\ prog' = prog /\ next' = next /\ before' = before
    BY <1>1 DEF vars
  <2>2. Code' = Code
    BY <2>1 DEF Code, LowK, HighK, ShortK, I
  <2>3. Held'
    BY <1>0, <2>1 DEF Held
  <2> QED BY <1>0, <2>1, <2>2, <2>3 DEF TypeInv, TypeOK, Held
<1>2. CASE Running /\ Next
  <2>1. /\ Held' /\ prog' = prog /\ before' = before
        /\ next' = next + 1 /\ Code' = Code
    BY <1>0, <1>2, InstructionKeeps
  <2>2. next' \in 1 .. Len(Code') + 1
    BY <1>0, <1>2, <2>1 DEF Running
  <2> QED BY <1>0, <2>1, <2>2 DEF TypeInv, TypeOK, Held
<1> QED BY <1>1, <1>2, Stopped

(***************************************************************************)
(* Whatever the width, every instruction of the programs leaves bytes in   *)
(* the registers it writes: sums and differences are wrapped as the code's *)
(* uint8_t and uint16_t are (handlers.c 196-1130).                         *)
(***************************************************************************)
THEOREM RegistersHoldBytes == Spec => []TypeOK
<1>1. TypeInv => TypeOK
  BY DEF TypeInv
<1> QED BY <1>1, InitTypes, NextTypes, PTL DEF Spec

-----------------------------------------------------------------------------
(***************************************************************************)
(* Bits. PlacesInv follows the three programs of bitwise operators, one    *)
(* fact for each place a program can be at.                                *)
(***************************************************************************)
PlacesInv ==
    /\ TypeInv
    /\ prog = "exchange" =>
          LET a == before[A]
              b == before[B]
          IN  /\ next = 1 => regs[A] = a /\ regs[B] = b
              /\ next = 2 => regs[A] = Xor(a, b) /\ regs[B] = b
              /\ next = 3 => regs[A] = Xor(a, b) /\ regs[B] = a
              /\ next > 3 => regs[A] = b /\ regs[B] = a
    /\ prog = "merge" =>
          LET a == BitsOf(before[A])
              b == BitsOf(before[B])
              k == BitsOf(HighK)
          IN  /\ next <= 5 => regs[A] = before[A]
              /\ next = 1 => regs[B] = before[B]
              /\ next = 2 => BitsOf(regs[X]) = b
              /\ next > 2 => BitsOf(regs[X]) = b \cap k
              /\ next = 4 => regs[X + 1] = HighK
              /\ next = 5 => BitsOf(regs[X + 1]) = Places \ k
              /\ next = 6 => BitsOf(regs[A]) = a \ k
              /\ next > 6 => BitsOf(regs[A]) = (a \ k) \cup (b \cap k)
    /\ prog = "swap" =>
          LET a == before[A]
              b == (a % Nibble) * (Size \div Nibble) + a \div Nibble
          IN  /\ next = 1 => regs[A] = a
              /\ next \in {2, 3} => regs[A] = b
              /\ next > 3 => regs[A] = a

LEMMA InitPlaces == Init => PlacesInv
<1> SUFFICES ASSUME Init PROVE PlacesInv
  OBVIOUS
<1>1. TypeInv /\ next = 1 /\ regs = before
  BY InitTypes, InitHeld
<1> QED BY <1>1 DEF PlacesInv

\* Exclusive or with the same byte twice gives back the other.
LEMMA XorTwice ==
    ASSUME NEW x \in Byte, NEW y \in Byte
    PROVE  Xor(y, Xor(x, y)) = x /\ Xor(Xor(x, y), x) = y /\ Xor(x, y) \in Byte
<1> DEFINE z == Xor(x, y)
<1>1. z \in Byte /\ BitsOf(z) = (BitsOf(x) \cup BitsOf(y)) \ (BitsOf(x) \cap BitsOf(y))
  BY Bitwise2
<1> HIDE DEF z
<1>2. /\ Xor(y, z) \in Byte
      /\ BitsOf(Xor(y, z)) = (BitsOf(y) \cup BitsOf(z)) \ (BitsOf(y) \cap BitsOf(z))
      /\ Xor(z, x) \in Byte
      /\ BitsOf(Xor(z, x)) = (BitsOf(z) \cup BitsOf(x)) \ (BitsOf(z) \cap BitsOf(x))
  BY <1>1, Bitwise2
<1>3. BitsOf(Xor(y, z)) = BitsOf(x) /\ BitsOf(Xor(z, x)) = BitsOf(y)
  BY <1>1, <1>2
<1>4. Xor(y, z) = x /\ Xor(z, x) = y
  BY <1>2, <1>3, SameBits
<1> QED BY <1>1, <1>4 DEF z

LEMMA OrZero ==
    ASSUME NEW x \in Byte
    PROVE  Or(x, 0) = x
<1>1. 0 \in Byte
  BY WholeBytes
<1>2. BitsOf(0) = {}
  <2>1. ASSUME NEW i \in Places PROVE ~Odd(0 \div 2 ^ i)
    <3>1. i \in Nat
      BY BitsRange DEF Places
    <3>2. PICK w \in Nat : w = 2 ^ i /\ w > 0
      BY <3>1, Weight
    <3>3. 0 \div w = 0
      BY <3>2, IsQuotient
    <3> QED BY <3>2, <3>3 DEF Odd
  <2> QED BY <2>1 DEF BitsOf, Places
<1>3. Or(x, 0) \in Byte /\ BitsOf(Or(x, 0)) = BitsOf(x)
  BY <1>1, <1>2, Bitwise2
<1> QED BY <1>3, SameBits

LEMMA OneChanged ==
    ASSUME Held, NEW d \in Registers, NEW res, regs' = [regs EXCEPT ![d] = res]
    PROVE  regs'[d] = res /\ \A r \in Registers \ {d} : regs'[r] = regs[r]
  BY DEF Held

LEMMA NextExchange ==
    ASSUME PlacesInv, Running, Next, prog = "exchange"
    PROVE  PlacesInv'
<1>1. /\ TypeInv /\ TypeInv' /\ Held /\ next' = next + 1 /\ next \in Nat \ {0}
      /\ prog' = prog /\ before' = before
      /\ Inst.op = "EOR"  => EOR
  BY NextTypes, OneInstruction DEF PlacesInv, TypeInv, TypeOK
<1>2. Code = <<I("EOR", A, B), I("EOR", B, A), I("EOR", A, B)>>
  BY DEF Code
<1>3. PICK a \in Byte, b \in Byte : a = before[A] /\ b = before[B]
  BY <1>1, RegisterNames DEF Held
<1>4. Xor(b, Xor(a, b)) = a /\ Xor(Xor(a, b), a) = b
  BY XorTwice
<1>5. A \in Registers /\ B \in Registers /\ A # B
  BY DEF A, B, Registers
<1>6. next \in {1, 2, 3}
  BY <1>1, <1>2 DEF Running
<1>7. CASE next = 1
  <2>1. Inst = I("EOR", A, B) /\ regs[A] = a /\ regs[B] = b
    BY <1>2, <1>3, <1>7 DEF Inst, PlacesInv
  <2>2. regs' = [regs EXCEPT ![A] = Xor(a, b)]
    BY <1>1, <2>1 DEF EOR, Logical, Rd, Rr, I
  <2>3. regs'[A] = Xor(a, b) /\ regs'[B] = b
    BY <1>1, <1>5, <2>1, <2>2, OneChanged
  <2> QED BY <1>1, <1>3, <1>7, <2>3 DEF PlacesInv
<1>8. CASE next = 2
  <2>1. Inst = I("EOR", B, A) /\ regs[A] = Xor(a, b) /\ regs[B] = b
    BY <1>2, <1>3, <1>8 DEF Inst, PlacesInv
  <2>2. regs' = [regs EXCEPT ![B] = a]
    BY <1>1, <1>4, <2>1 DEF EOR, Logical, Rd, Rr, I
  <2>3. regs'[A] = Xor(a, b) /\ regs'[B] = a
    BY <1>1, <1>5, <2>1, <2>2, OneChanged
  <2> QED BY <1>1, <1>3, <1>8, <2>3 DEF PlacesInv
<1>9. CASE next = 3
  <2>1. Inst = I("EOR", A, B) /\ regs[A] = Xor(a, b) /\ regs[B] = a
    BY <1>2, <1>3, <1>9 DEF Inst, PlacesInv
  <2>2. regs' = [regs EXCEPT ![A] = b]
    BY <1>1, <1>4, <2>1 DEF EOR, Logical, Rd, Rr, I
  <2>3. regs'[A] = b /\ regs'[B] = a
    BY <1>1, <1>5, <2>1, <2>2, OneChanged
  <2> QED BY <1>1, <1>3, <1>9, <2>3 DEF PlacesInv
<1> QED BY <1>6, <1>7, <1>8, <1>9

LEMMA NextSwap ==
    ASSUME PlacesInv, Running, Next, prog = "swap"
    PROVE  PlacesInv'
<1>1. /\ TypeInv /\ TypeInv' /\ Held /\ next' = next + 1 /\ next \in Nat \ {0}
      /\ prog' = prog /\ before' = before
      /\ Inst.op = "SWAP" => SWAP
      /\ Inst.op = "ORI"  => ORI
  BY NextTypes, OneInstruction DEF PlacesInv, TypeInv, TypeOK
<1>2. Code = <<I("SWAP", A, A), I("ORI", A, 0), I("SWAP", A, A)>>
  BY DEF Code
<1>3. PICK a \in Byte : a = before[A]
  BY <1>1, RegisterNames DEF Held
<1>4. PICK b \in Byte : /\ b = (a % Nibble) * (Size \div Nibble) + a \div Nibble
                        /\ (b % Nibble) * (Size \div Nibble) + b \div Nibble = a
  BY Swapped
<1>5. A \in Registers
  BY DEF A, Registers
<1>6. next \in {1, 2, 3}
  BY <1>1, <1>2 DEF Running
<1>7. CASE next = 1
  <2>1. Inst = I("SWAP", A, A) /\ regs[A] = a
    BY <1>2, <1>3, <1>7 DEF Inst, PlacesInv
  <2>2. regs' = [regs EXCEPT ![A] = b]
    BY <1>1, <1>4, <2>1 DEF SWAP, Moved, Rd, I
  <2>3. regs'[A] = b
    BY <1>1, <1>5, <2>2, OneChanged
  <2> QED BY <1>1, <1>3, <1>4, <1>7, <2>3 DEF PlacesInv
<1>8. CASE next = 2
  <2>1. Inst = I("ORI", A, 0) /\ regs[A] = b
    BY <1>2, <1>3, <1>4, <1>8 DEF Inst, PlacesInv
  <2>2. regs' = [regs EXCEPT ![A] = b]
    BY <1>1, <2>1, OrZero DEF ORI, Logical, Rd, K, I
  <2>3. regs'[A] = b
    BY <1>1, <1>5, <2>2, OneChanged
  <2> QED BY <1>1, <1>3, <1>4, <1>8, <2>3 DEF PlacesInv
<1>9. CASE next = 3
  <2>1. Inst = I("SWAP", A, A) /\ regs[A] = b
    BY <1>2, <1>3, <1>4, <1>9 DEF Inst, PlacesInv
  <2>2. regs' = [regs EXCEPT ![A] = a]
    BY <1>1, <1>4, <2>1 DEF SWAP, Moved, Rd, I
  <2>3. regs'[A] = a
    BY <1>1, <1>5, <2>2, OneChanged
  <2> QED BY <1>1, <1>3, <1>4, <1>9, <2>3 DEF PlacesInv
<1> QED BY <1>6, <1>7, <1>8, <1>9

LEMMA NextMerge ==
    ASSUME PlacesInv, Running, Next, prog = "merge"
    PROVE  PlacesInv'
<1>1. /\ TypeInv /\ TypeInv' /\ Held /\ next' = next + 1 /\ next \in Nat \ {0}
      /\ prog' = prog /\ before' = before
      /\ Inst.op = "MOV"  => MOV
      /\ Inst.op = "ANDI" => ANDI
      /\ Inst.op = "LDI"  => LDI
      /\ Inst.op = "COM"  => COM
      /\ Inst.op = "AND"  => AND
      /\ Inst.op = "OR"   => OR
  BY NextTypes, OneInstruction DEF PlacesInv, TypeInv, TypeOK
<1>2. Code = <<I("MOV", X, B), I("ANDI", X, HighK), I("LDI", X+1, HighK),
               I("COM", X+1, X+1), I("AND", A, X+1), I("OR", A, X)>>
  BY DEF Code
<1>3. PICK k \in Byte : k = HighK /\ HighK' = k
  BY <1>1, Constants DEF HighK
<1>4. PICK a, b : a = BitsOf(before[A]) /\ b = BitsOf(before[B])
  OBVIOUS
<1>5. /\ A \in Registers /\ B \in Registers /\ X \in Registers /\ X + 1 \in Registers
      /\ A # X /\ A # X + 1 /\ X # X + 1
  BY DEF A, B, X, Registers
<1>6. next \in {1, 2, 3, 4, 5, 6}
  BY <1>1, <1>2 DEF Running
<1>7. regs[A] \in Byte /\ regs[X] \in Byte /\ regs[X + 1] \in Byte /\ regs[B] \in Byte
  BY <1>1, <1>5 DEF Held
<1>8. a \subseteq Places
  BY <1>1, <1>4, <1>5, ValueOfBits DEF Held
<1>9. CASE next = 1
  <2>1. Inst = I("MOV", X, B) /\ regs[A] = before[A] /\ regs[B] = before[B]
    BY <1>2, <1>9 DEF Inst, PlacesInv
  <2>2. regs' = [regs EXCEPT ![X] = before[B]]
    BY <1>1, <2>1 DEF MOV, Moved, Rr, I
  <2>3. regs'[A] = before[A] /\ regs'[X] = before[B]
    BY <1>1, <1>5, <2>1, <2>2, OneChanged
  <2> QED BY <1>1, <1>9, <2>3 DEF PlacesInv
<1>10. CASE next = 2
  <2>1. Inst = I("ANDI", X, k) /\ regs[A] = before[A] /\ BitsOf(regs[X]) = b
    BY <1>2, <1>3, <1>4, <1>10 DEF Inst, PlacesInv
  <2>2. regs' = [regs EXCEPT ![X] = And(regs[X], k)]
    BY <1>1, <2>1 DEF ANDI, Logical, Rd, K, I
  <2>3. regs'[A] = before[A] /\ BitsOf(regs'[X]) = b \cap BitsOf(k)
    <3>1. regs'[A] = regs[A] /\ regs'[X] = And(regs[X], k)
      BY <1>1, <1>5, <2>2, OneChanged
    <3>2. BitsOf(And(regs[X], k)) = BitsOf(regs[X]) \cap BitsOf(k)
      BY <1>7, Bitwise2
    <3> QED BY <2>1, <3>1, <3>2
  <2> QED BY <1>1, <1>3, <1>4, <1>10, <2>3 DEF PlacesInv
<1>11. CASE next = 3
  <2>1. Inst = I("LDI", X + 1, k) /\ regs[A] = before[A] /\ BitsOf(regs[X]) = b \cap BitsOf(k)
    BY <1>2, <1>3, <1>4, <1>11 DEF Inst, PlacesInv
  <2>2. regs' = [regs EXCEPT ![X + 1] = k]
    BY <1>1, <2>1 DEF LDI, Moved, K, I
  <2>3. /\ regs'[A] = before[A] /\ BitsOf(regs'[X]) = b \cap BitsOf(k)
        /\ regs'[X + 1] = k
    BY <1>1, <1>5, <2>1, <2>2, OneChanged
  <2> QED BY <1>1, <1>3, <1>4, <1>11, <2>3 DEF PlacesInv
<1>12. CASE next = 4
  <2>1. /\ Inst = I("COM", X + 1, X + 1) /\ regs[A] = before[A] /\ regs[X + 1] = k
        /\ BitsOf(regs[X]) = b \cap BitsOf(k)
    BY <1>2, <1>3, <1>4, <1>12 DEF Inst, PlacesInv
  <2>2. regs' = [regs EXCEPT ![X + 1] = Size - 1 - k]
    BY <1>1, <2>1 DEF COM, Rd, I
  <2>3. /\ regs'[A] = before[A] /\ BitsOf(regs'[X]) = b \cap BitsOf(k)
        /\ BitsOf(regs'[X + 1]) = Places \ BitsOf(k)
    BY <1>1, <1>5, <2>1, <2>2, OneChanged, Complement
  <2> QED BY <1>1, <1>3, <1>4, <1>12, <2>3 DEF PlacesInv
<1>13. CASE next = 5
  <2>1. /\ Inst = I("AND", A, X + 1) /\ BitsOf(regs[A]) = a
        /\ BitsOf(regs[X]) = b \cap BitsOf(k) /\ BitsOf(regs[X + 1]) = Places \ BitsOf(k)
    BY <1>2, <1>3, <1>4, <1>13 DEF Inst, PlacesInv
  <2>2. regs' = [regs EXCEPT ![A] = And(regs[A], regs[X + 1])]
    BY <1>1, <2>1 DEF AND, Logical, Rd, Rr, I
  <2>3. BitsOf(regs'[X]) = b \cap BitsOf(k) /\ BitsOf(regs'[A]) = a \cap (Places \ BitsOf(k))
    <3>1. regs'[X] = regs[X] /\ regs'[A] = And(regs[A], regs[X + 1])
      BY <1>1, <1>5, <2>2, OneChanged
    <3>2. BitsOf(And(regs[A], regs[X + 1])) = BitsOf(regs[A]) \cap BitsOf(regs[X + 1])
      BY <1>7, Bitwise2
    <3> QED BY <2>1, <3>1, <3>2
  <2>4. a \cap (Places \ BitsOf(k)) = a \ BitsOf(k)
    BY <1>8
  <2> QED BY <1>1, <1>3, <1>4, <1>13, <2>3, <2>4 DEF PlacesInv
<1>14. CASE next = 6
  <2>1. /\ Inst = I("OR", A, X) /\ BitsOf(regs[A]) = a \ BitsOf(k)
        /\ BitsOf(regs[X]) = b \cap BitsOf(k)
    BY <1>2, <1>3, <1>4, <1>14 DEF Inst, PlacesInv
  <2>2. regs' = [regs EXCEPT ![A] = Or(regs[A], regs[X])]
    BY <1>1, <2>1 DEF OR, Logical, Rd, Rr, I
  <2>3. /\ BitsOf(regs'[X]) = b \cap BitsOf(k)
        /\ BitsOf(regs'[A]) = (a \ BitsOf(k)) \cup (b \cap BitsOf(k))
    <3>1. regs'[X] = regs[X] /\ regs'[A] = Or(regs[A], regs[X])
      BY <1>1, <1>5, <2>2, OneChanged
    <3>2. BitsOf(Or(regs[A], regs[X])) = BitsOf(regs[A]) \cup BitsOf(regs[X])
      BY <1>7, Bitwise2
    <3> QED BY <2>1, <3>1, <3>2
  <2> QED BY <1>1, <1>3, <1>4, <1>14, <2>3 DEF PlacesInv
<1> QED BY <1>6, <1>9, <1>10, <1>11, <1>12, <1>13, <1>14

LEMMA NextPlaces == PlacesInv /\ [Next]_vars => PlacesInv'
<1> SUFFICES ASSUME PlacesInv, [Next]_vars PROVE PlacesInv'
  OBVIOUS
<1>1. TypeInv'
  BY NextTypes DEF PlacesInv
<1>2. CASE UNCHANGED vars
  <2>1. regs' = regs /\ prog' = prog /\ next' = next /\ before' = before /\ HighK' = HighK
    BY <1>2 DEF vars, HighK
  <2> QED BY <1>1, <2>1 DEF PlacesInv
<1>3. CASE Running /\ Next
  <2>1. prog' = prog
    BY <1>3, OneInstruction
  <2>2. CASE prog \notin {"exchange", "merge", "swap"}
    BY <1>1, <2>1, <2>2 DEF PlacesInv
  <2> QED BY <1>3, <2>2, NextExchange, NextMerge, NextSwap
<1> QED BY <1>2, <1>3, Stopped

(***************************************************************************)
(* Exchanging two registers, merging them under a mask and its complement, *)
(* and swapping nibbles twice, put every bit where it belongs, however     *)
(* many bits a register has (EOR, AND, ANDI, OR, ORI, COM, SWAP in         *)
(* handlers.c).                                                            *)
(***************************************************************************)
THEOREM BitsArePlaced == Spec => []BitsPlaced
<1>1. PlacesInv => BitsPlaced
  <2> SUFFICES ASSUME PlacesInv, ~Running PROVE BitsPlaced
    BY DEF BitsPlaced, Ends
  <2>1. Held /\ prog \in Programs /\ next \in Nat
    <3>1. TypeInv
      BY DEF PlacesInv
    <3> QED BY <3>1, ProperCode DEF TypeInv, TypeOK
  <2>2. CASE prog = "exchange"
    <3>1. Len(Code) = 3
      BY <2>2 DEF Code
    <3> QED BY <2>1, <2>2, <3>1 DEF PlacesInv, BitsPlaced, Ends, Running
  <2>3. CASE prog = "merge"
    <3>1. Len(Code) = 6
      BY <2>3 DEF Code
    <3> QED BY <2>1, <2>3, <3>1 DEF PlacesInv, BitsPlaced, Ends, Running
  <2>4. CASE prog = "swap"
    <3>1. Len(Code) = 3
      BY <2>4 DEF Code
    <3> QED BY <2>1, <2>4, <3>1 DEF PlacesInv, BitsPlaced, Ends, Running
  <2> QED BY <2>2, <2>3, <2>4 DEF BitsPlaced, Ends
<1> QED BY <1>1, InitPlaces, NextPlaces, PTL DEF Spec
===============================================================================
