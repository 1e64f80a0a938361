------------------------------- MODULE CallStack -------------------------------
(***************************************************************************)
(* What the program may rely on of the stack, whatever memory it is kept   *)
(* in: a return goes to the instruction after the last call that has not   *)
(* returned, a POP gets the byte of the last PUSH not yet popped, and no   *)
(* other instruction changes the stack.                                    *)
(***************************************************************************)
EXTENDS Integers, Sequences

CONSTANTS Addresses, Byte

VARIABLES
    pc,         \* the program counter
    reg,        \* the register that is pushed and popped
    stack,      \* what is on the stack, its top last
    defined     \* the program has done nothing it may not rely on

vars == <<pc, reg, stack, defined>>

Return(address) == [kind |-> "return", value |-> address]
Saved(byte)     == [kind |-> "saved", value |-> byte]

Init ==
    /\ pc = 0
    /\ reg \in Byte
    /\ stack = <<>>
    /\ defined = TRUE

OnTop  == stack[Len(stack)]
Rest == SubSeq(stack, 1, Len(stack) - 1)

Go   == pc' \in Addresses /\ reg' \in Byte /\ UNCHANGED <<stack, defined>>

Call ==
    /\ \E length \in {1, 2} : stack' = Append(stack, Return(pc + length))
    /\ pc' \in Addresses
    /\ UNCHANGED <<reg, defined>>

Ret ==
    /\ stack # <<>> /\ OnTop.kind = "return"
    /\ pc' = OnTop.value
    /\ stack' = Rest
    /\ UNCHANGED <<reg, defined>>

Push ==
    /\ stack' = Append(stack, Saved(reg))
    /\ pc' \in Addresses
    /\ UNCHANGED <<reg, defined>>

Pop ==
    /\ stack # <<>> /\ OnTop.kind = "saved"
    /\ reg' = OnTop.value
    /\ stack' = Rest
    /\ pc' \in Addresses
    /\ UNCHANGED defined

Undefine == defined' = FALSE

Next == Go \/ Call \/ Ret \/ Push \/ Pop \/ Undefine

Spec == Init /\ [][Next]_vars
=============================================================================
