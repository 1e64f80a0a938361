-------------------------------- MODULE MCLoader -------------------------------
(***************************************************************************)
(* A program memory of 16 words, lines of at most 24 bytes and addresses   *)
(* that wrap at 16, so that rubbish above them may point inside memory or  *)
(* past it.  The binary files hold, between them, every opcode once; two   *)
(* more are shorter and longer than the memory.  The hex files are all     *)
(* sequences of at most three of a few lines: one that ends the file,      *)
(* three of data with the right checksum, of which one overlaps another    *)
(* and one fills the buffer, a data record with a wrong checksum, one of   *)
(* a type the loader does not know, one with an odd number of characters,  *)
(* one with no characters, one with a pair that is not digits, one that is *)
(* shorter than its byte count and one whose byte count goes past the end  *)
(* of the buffer.                                                          *)
(***************************************************************************)
EXTENDS Loader

Opcodes(c) == [n \in 1 .. 16 |-> 16 * c + n - 1]
AllOpcodes ==
    {Opcodes(c) : c \in 0 .. 4095}
    \cup {<<3072, 37896>>, [n \in 1 .. 17 |-> 3072 + n]}

LineOf(pairs) == [odd |-> FALSE, pairs |-> pairs]

\* A line of data for a low address, with its checksum.
Data(address, bytes) ==
    LET r == [address |-> address, type |-> 0, bytes |-> bytes]
    IN  LineOf(<<Len(bytes), 0, address, 0>> \o bytes \o <<Checksum(r, bytes)>>)

Low      == Data(0, <<18, 12>>)
Overlap  == Data(1, <<255, 148, 9, 149>>)
Late     == Data(10, [n \in 1 .. 12 |-> 16 * n])
Wrong    == LineOf(<<2, 0, 0, 0, 18, 12, 0>>)
End      == LineOf(<<0, 0, 0, 1, 255>>)
Unknown  == LineOf(<<0, 0, 0, 4, 252>>)
Odd      == [Low EXCEPT !.odd = TRUE]
Empty    == LineOf(<<>>)
NotDigit == LineOf(<<2, 0, 4, 0, NotHex, 12, 238>>)
Short    == LineOf(<<2, 0, 0, 0, 18>>)
TooLong  == LineOf(<<20, 0, 0, 0, 0>>)

Lines == {Low, Overlap, Late, Wrong, End, Unknown, Odd, Empty, NotDigit, Short, TooLong}
ShortHexFiles == UNION {[1 .. n -> Lines] : n \in 0 .. 3}

\* Nothing to be read; the rest of a short line's record; digits enough to go
\* past the end of the buffer.
Followers == {<<>>, <<236>>, <<1, 2, 3, 4, 5>>}

Garbage == {[k \in Buffer |-> 0], [k \in Buffer |-> IF k = 3 THEN 1 ELSE 7]}
=============================================================================
