-------------------------------- MODULE Control --------------------------------
(***************************************************************************)
(* The instructions that move the program counter and the stack pointer:   *)
(* jumps, calls, returns, branches, skips, PUSH and POP, as the handlers   *)
(* and the test of runAVR carry them out (handlers.c, core.c).             *)
(*                                                                         *)
(* The program is not fixed: any instruction may stand at any address, as  *)
(* long as the program uses its stack the way compilers do.  It returns    *)
(* only where a return address is on top of the stack, pops only what it   *)
(* pushed, and stores only below the stack.                                *)
(*                                                                         *)
(* Bounds: the stack has the cells Floor .. Top, offsets are Offsets, an   *)
(* absolute address is at most ProgSize, and what lies beyond runAVR's     *)
(* copy of an instruction is one of Garbage.                               *)
(***************************************************************************)
EXTENDS Integers, Sequences

CONSTANTS
    ByteSize,       \* the values of a byte: 256
    ProgSize,       \* program->size, in words
    ReturnLimit,    \* 4096: the mask 0xFFF of RET where the pc has 16 bits
    LongLimit,      \* 2^22: the mask 0x3FFFFF where it has 22
    Top, Floor,     \* the cells the stack may use
    PcBytes,        \* the sizes of a return address: 2, and 3 for 22 bits
    Offsets,        \* the offsets of RJMP, RCALL and BRx
    Garbage         \* a byte of runAVR's stack frame

Byte    == 0 .. ByteSize - 1
Cells   == Floor .. Top
Program == 0 .. ProgSize - 1
Aim     == 0 .. ProgSize

ASSUME ControlAssumption ==
    /\ ByteSize \in Nat \ {0, 1}
    /\ ProgSize \in Nat \ {0} /\ ProgSize + 1 < ByteSize * ByteSize
    /\ ReturnLimit \in Nat \ {0} /\ LongLimit \in Nat \ {0}
    /\ Floor \in Nat /\ Top \in Nat /\ Floor <= Top
    /\ PcBytes \subseteq {2, 3}
    /\ Offsets \subseteq Int
    /\ Garbage \subseteq Nat

VARIABLES
    pc,
    SP,
    main_mem,       \* the stack's cells
    reg,            \* the register PUSH and POP name
    pc_size,        \* in bytes: coredef->pc_size is 16 or 22
    error,          \* what runAVR returned: "none" while it runs
    frames,         \* history: what is on the stack, [kind, at], last on top
    derailed        \* history: a return went elsewhere

vars == <<pc, SP, main_mem, reg, pc_size, error, frames, derailed>>

-----------------------------------------------------------------------------
Width(n, kind) == IF kind = "return" THEN n ELSE 1

Size(frame) == Width(pc_size, frame.kind)
Below(frame) == frame.at - Size(frame)
LastFrame == frames[Len(frames)]
Popped == SubSeq(frames, 1, Len(frames) - 1)

\* The little-endian word of n bytes whose first byte is at the address.
Word(mem, address, n) ==
    mem[address] + ByteSize * mem[address + 1]
        + (IF n = 3 THEN ByteSize * ByteSize * mem[address + 2] ELSE 0)

\* Mutant: the low byte is stored without its mask.
ByteOfUnmasked(word, i) ==
    IF i = 0 THEN word
    ELSE IF i = 1 THEN (word \div ByteSize) % ByteSize
    ELSE (word \div (ByteSize * ByteSize)) % ByteSize

ByteOf(word, i) ==
    IF i = 0 THEN word % ByteSize
    ELSE IF i = 1 THEN (word \div ByteSize) % ByteSize
    ELSE (word \div (ByteSize * ByteSize)) % ByteSize

\* What the frame holds now.
Value(frame) ==
    IF frame.kind = "return" THEN Word(main_mem, Below(frame) + 1, pc_size)
                             ELSE main_mem[frame.at]

TypeOK ==
    /\ pc \in Int
    /\ SP \in Floor - 1 .. Top + 2
    /\ main_mem \in [Cells -> Byte]
    /\ reg \in Byte
    /\ pc_size \in PcBytes
    /\ error \in {"none", "PROG_MEM_ERROR", "PC_ERROR"}
    /\ frames \in Seq([kind : {"return", "saved"}, at : Cells])
    /\ derailed \in BOOLEAN

\* After the start-up code of a program has set the stack pointer.
Init ==
    /\ pc = 0
    /\ SP = Top
    /\ main_mem = [cell \in Cells |-> 0]
    /\ reg \in Byte
    /\ pc_size \in PcBytes
    /\ error = "none"
    /\ frames = <<>>
    /\ derailed = FALSE

Running == error = "none" /\ ~derailed

-----------------------------------------------------------------------------
\* The handler returned 0: runAVR still compares the pc with the size.
Continue(next) ==
    /\ pc' = next
    /\ error' = IF next \in Program THEN "none" ELSE "PC_ERROR"

\* A jump or a call with the handler's own test of an address.  The pc is
\* unsigned, so that a negative address is one past the program too.
JumpTo(target, tested) ==
    /\ pc' = target
    /\ error' = IF tested \notin Program THEN "PROG_MEM_ERROR"
                ELSE IF target \in Program THEN "none" ELSE "PC_ERROR"

\* The stack is left alone.
KeepStack == UNCHANGED <<SP, main_mem, frames, derailed, pc_size>>

\* Any instruction that writes the register or flags and goes on to the next.
Other(wsize) ==
    /\ Running
    /\ Continue(pc + wsize)
    /\ reg' \in Byte
    /\ KeepStack

\* A store, by ST, STD or STS, to memory the stack does not use.
StoreBelow(cell, byte) ==
    /\ Running
    /\ cell <= SP
    /\ main_mem' = [main_mem EXCEPT ![cell] = byte]
    /\ Continue(pc + 1)
    /\ UNCHANGED <<SP, reg, frames, derailed, pc_size>>

\* RJMP_run tests pc + 1, which keeps it from the program's last word.
RJMP(A) ==
    /\ Running
    /\ JumpTo(pc + A + 1, pc + A + 2)
    /\ KeepStack /\ UNCHANGED reg

\* JMP_run, IJMP_run and EIJMP_run, whatever the operand or the register.
JMP(target) ==
    /\ Running
    /\ JumpTo(target, target)
    /\ KeepStack /\ UNCHANGED reg

\* BRx_run adds the size of the instruction with the offset, and once more.
BRx(K) ==
    /\ Running
    /\ \E taken \in BOOLEAN : Continue(IF taken THEN pc + K + 2 ELSE pc + 1)
    /\ KeepStack /\ UNCHANGED reg

\* CPSE, SBRC, SBRS, SBIC and SBIS take the size of the next instruction from
\* (inst + 1), but inst points to runAVR's copy of the one being executed.
Skip(words) ==
    /\ Running
    /\ \E skips \in BOOLEAN : Continue(IF skips THEN pc + words + 1 ELSE pc + 1)
    /\ KeepStack /\ UNCHANGED reg

-----------------------------------------------------------------------------
\* The memory with the address stored in the pc_size cells that end at SP.
WithReturn(address) ==
    [cell \in Cells |->
        IF cell \in SP - pc_size + 1 .. SP
        THEN ByteOf(address, cell - (SP - pc_size + 1)) ELSE main_mem[cell]]

\* Mutant: *SP -= 2 for a pc of 22 bits as well.
PushReturnTwo(address) ==
    /\ SP - pc_size >= Floor - 1
    /\ main_mem' = WithReturn(address)
    /\ SP' = SP - 2
    /\ frames' = Append(frames, [kind |-> "return", at |-> SP])
    /\ UNCHANGED <<reg, derailed, pc_size>>

\* Mutant: the store of four bytes for 22 bits does not keep the top one.
PushReturnFour(address) ==
    /\ SP - pc_size >= Floor - 1
    /\ main_mem' = [cell \in Cells |->
            IF pc_size = 3 /\ cell = SP + 1 THEN 0 ELSE WithReturn(address)[cell]]
    /\ SP' = SP - pc_size
    /\ frames' = Append(frames, [kind |-> "return", at |-> SP])
    /\ UNCHANGED <<reg, derailed, pc_size>>

\* The test of *SP against the size of memory never fails: *SP has 16 bits.
PushReturn(address) ==
    /\ SP - pc_size >= Floor - 1
    /\ main_mem' = WithReturn(address)
    /\ SP' = SP - pc_size
    /\ frames' = Append(frames, [kind |-> "return", at |-> SP])
    /\ UNCHANGED <<reg, derailed, pc_size>>

RCALL(A) ==
    /\ Running
    /\ PushReturn(pc + 1)
    /\ JumpTo(pc + 1 + A, pc + 1 + A)

\* ICALL_run and EICALL_run: the target comes from a register.
ICALL(target) ==
    /\ Running
    /\ PushReturn(pc + 1)
    /\ JumpTo(target, target)

CALL(target) ==
    /\ Running
    /\ PushReturn(pc + 2)
    /\ JumpTo(target, target)

\* Mutant: the mask of 12 bits for a pc of 22 bits as well.
ReturnedShort(word) == word % ReturnLimit

\* RET keeps the low 12 bits of a 16-bit pc, and all 22 of the other.
Returned(word) == word % (IF pc_size = 3 THEN LongLimit ELSE ReturnLimit)

\* Goes to the address read, leaves SP as given and drops the frame.
ReturnTo(address, top) ==
    /\ Continue(address)
    /\ SP' = top
    /\ frames' = Popped
    /\ derailed' = (address # Value(LastFrame) \/ top # LastFrame.at)
    /\ UNCHANGED <<main_mem, reg, pc_size>>

AtReturn == Running /\ frames # <<>> /\ LastFrame.kind = "return"

RET ==
    /\ AtReturn
    /\ ReturnTo(Returned(Word(main_mem, SP + 1, pc_size)), SP + pc_size)

\* RETI_run pops two bytes first, and then does what RET_run does.  What lies
\* above the stack's cells is not modelled: it is any byte.
RETI ==
    /\ AtReturn
    /\ \E above \in [Top + 1 .. Top + 2 -> Byte] :
          LET mem == [cell \in Floor .. Top + 2 |->
                        IF cell > Top THEN above[cell] ELSE main_mem[cell]]
          IN  ReturnTo(Returned(Word(mem, SP + 3, pc_size)), SP + 2 + pc_size)

PUSH ==
    /\ Running
    /\ SP >= Floor
    /\ main_mem' = [main_mem EXCEPT ![SP] = reg]
    /\ SP' = SP - 1
    /\ frames' = Append(frames, [kind |-> "saved", at |-> SP])
    /\ Continue(pc + 1)
    /\ UNCHANGED <<reg, derailed, pc_size>>

POP ==
    /\ Running
    /\ frames # <<>> /\ LastFrame.kind = "saved"
    /\ SP' = SP + 1
    /\ reg' = main_mem[SP + 1]
    /\ frames' = Popped
    /\ Continue(pc + 1)
    /\ UNCHANGED <<main_mem, derailed, pc_size>>

\* runAVR has returned, or the program runs where its caller did not ask.
Over == ~Running /\ UNCHANGED vars

Next ==
    \/ \E wsize \in {1, 2} : Other(wsize)
    \/ \E cell \in Cells, byte \in Byte : StoreBelow(cell, byte)
    \/ \E k \in Offsets : RJMP(k) \/ BRx(k) \/ RCALL(k)
    \/ \E target \in Aim : JMP(target) \/ ICALL(target) \/ CALL(target)
    \/ \E words \in Garbage : Skip(words)
    \/ RET \/ RETI \/ PUSH \/ POP
    \/ Over

Spec == Init /\ [][Next]_vars

-----------------------------------------------------------------------------
(***************************************************************************)
(* Properties.                                                             *)
(***************************************************************************)

\* The frames lie one under the other from Top down to SP, so that no call,
\* push, store or return has overlapped or skipped one.
Contiguous ==
    ~derailed =>
        /\ SP = IF frames = <<>> THEN Top ELSE Below(LastFrame)
        /\ frames # <<>> => frames[1].at = Top
        /\ \A i \in 1 .. Len(frames) - 1 : frames[i + 1].at = Below(frames[i])

\* As long as no return has gone astray, the stack in memory is the stack a
\* program relies on: calls, returns, PUSH and POP of any nesting, with the
\* memory below overwritten between them, are those of CallStack.
Abstract == INSTANCE CallStack WITH
    Addresses <- Int,
    stack <- [i \in 1 .. Len(frames) |->
                [kind |-> frames[i].kind, value |-> Value(frames[i])]],
    defined <- ~derailed

ImplementsCallStack == Abstract!Spec

\* How far a return can go astray, whatever was called, pushed, popped and
\* stored before.  RET leaves SP where its call found it, and goes back to the
\* call unless the address has bits that its mask takes away; RETI leaves SP
\* two cells above the frame it removes.
StraysKnown ==
    [][/\ RET => /\ SP' = LastFrame.at
                 /\ (pc' = Value(LastFrame)) <=>
                       (Value(LastFrame) < IF pc_size = 3 THEN LongLimit ELSE ReturnLimit)
       /\ RETI => SP' = LastFrame.at + 2]_vars

\* The manual's RET and RETI: control goes to the address the call stored.
ReturnsToCaller ==
    [][RET \/ RETI => pc' = Value(LastFrame)]_vars
=============================================================================
