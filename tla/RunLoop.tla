-------------------------------- MODULE RunLoop --------------------------------
(***************************************************************************)
(* The control loop of the simulator (core.c: runAVR), the debug terminal  *)
(* (debugterm.y: runDebugTerm, debugterm.c: step) and the ways into it:    *)
(* reset, the BREAK instruction, a peripheral's BREAK request and Ctrl-C,  *)
(* whose signal handler interrupts any of the others (megasim.c).          *)
(*                                                                         *)
(* An instruction is known by its address; what it does is any outcome a   *)
(* handler can have.  cycles is a set because the branches and the skips   *)
(* set it when they are executed, and the decoder leaves it to malloc for  *)
(* most of the others.                                                     *)
(***************************************************************************)
EXTENDS Integers

CONSTANTS
    Size,       \* program->size, in words
    cycles,     \* what inst.cycles of the instruction at each address may be
    Wrap        \* bound of the model: cycle_count is kept modulo Wrap (a uint64_t)

ASSUME ProgramAssumption ==
    /\ Size \in Nat \ {0}
    /\ Wrap \in Nat \ {0}
    /\ cycles \in [0 .. Size - 1 -> SUBSET Nat \ {{}}]

VARIABLES
    at,             \* where control is
    pc,             \* the AVR program counter
    inst,           \* the address runAVR copied its current instruction from
    cost,           \* inst.cycles of that copy
    error,          \* the error runAVR returns
    break_now, debug_mode,
    cycle_count

flags == <<break_now, debug_mode>>
copy == <<inst, cost>>
vars == <<at, pc, copy, error, flags, cycle_count>>

Places == {"fetch", "decide", "execute", "enter", "terminal", "after", "check", "exit"}
Errors == {"NONE", "HANDLER_ERROR", "PC_ERROR", "EXIT_ERROR", "CRASH"}

TypeOK ==
    /\ at \in Places
    /\ pc \in 0 .. Size + 1
    /\ inst \in 0 .. Size - 1
    /\ cost \in Nat
    /\ error \in Errors
    /\ break_now \in BOOLEAN /\ debug_mode \in BOOLEAN
    /\ cycle_count \in 0 .. Wrap - 1

(***************************************************************************)
(* reset_run asks for the terminal before the first instruction.           *)
(***************************************************************************)
Init ==
    /\ at = "fetch"
    /\ pc = 0 /\ inst = 0 /\ cost = 0
    /\ error = "NONE"
    /\ break_now = TRUE /\ debug_mode = FALSE
    /\ cycle_count = 0

-----------------------------------------------------------------------------
(***************************************************************************)
(* A handler moves the pc anywhere, even past the program (Size stands for *)
(* every such pc).  One that returns an error may have moved it too: the   *)
(* jumps set the pc before they test it.                                   *)
(***************************************************************************)
Handler == pc' \in 0 .. Size

BreakInstruction == pc' = pc + 1

Return(code) == at' = "exit" /\ error' = code

-----------------------------------------------------------------------------
Fetch ==
    /\ at = "fetch"
    /\ inst' = pc
    /\ cost' \in cycles[pc]
    /\ at' = "decide"
    /\ UNCHANGED <<pc, error, flags, cycle_count>>

Decide ==
    /\ at = "decide"
    /\ at' = IF break_now THEN "enter" ELSE "execute"
    /\ break_now' = FALSE
    /\ UNCHANGED <<pc, copy, error, debug_mode, cycle_count>>

Execute ==
    /\ at = "execute"
    /\ \/ Handler /\ cost' \in cycles[inst] /\ at' = "after" /\ UNCHANGED error
       \/ Handler /\ UNCHANGED cost /\ Return("HANDLER_ERROR")
       \/ BreakInstruction /\ at' = "enter" /\ UNCHANGED <<error, cost>>
    /\ UNCHANGED <<inst, flags, cycle_count>>

(***************************************************************************)
(* The tail of the loop runs after the terminal too, and adds the cycles   *)
(* of the instruction copied at the top whether or not it was executed;    *)
(* the instructions that step executes add none.                           *)
(***************************************************************************)
AfterUnchecked ==
    /\ at = "after"
    /\ at' = "check"
    /\ cycle_count' = (cycle_count + cost) % Wrap
    /\ UNCHANGED <<pc, copy, error, flags>>

After ==
    /\ at = "after"
    /\ IF pc >= Size
       THEN Return("PC_ERROR") /\ UNCHANGED cycle_count
       ELSE /\ at' = "check"
            /\ cycle_count' = (cycle_count + cost) % Wrap
            /\ UNCHANGED error
    /\ UNCHANGED <<pc, copy, flags>>

(***************************************************************************)
(* checkPeripherals may set break_now: a peripheral sent BREAK.            *)
(***************************************************************************)
CheckOverwrites ==
    /\ at = "check"
    /\ at' = "fetch"
    /\ break_now' \in BOOLEAN
    /\ UNCHANGED <<pc, copy, error, debug_mode, cycle_count>>

Check ==
    /\ at = "check"
    /\ at' = "fetch"
    /\ break_now' \in {break_now, TRUE}
    /\ UNCHANGED <<pc, copy, error, debug_mode, cycle_count>>

-----------------------------------------------------------------------------
(***************************************************************************)
(* runDebugTerm.  It is entered from the loop or from inside BREAK_run;    *)
(* either way its result becomes the result of the instruction.            *)
(***************************************************************************)
Enter ==
    /\ at = "enter"
    /\ debug_mode' = TRUE
    /\ at' = "terminal"
    /\ UNCHANGED <<pc, copy, error, break_now, cycle_count>>

(***************************************************************************)
(* The terminal starts by printing instructions[pc].  After a BREAK at the *)
(* last address that is what lies behind the decoded instructions: it      *)
(* prints something (Enter), or crashes.                                   *)
(***************************************************************************)
PrintCrashes ==
    /\ at = "enter" /\ pc >= Size
    /\ debug_mode' = TRUE
    /\ Return("CRASH")
    /\ UNCHANGED <<pc, copy, break_now, cycle_count>>

ContinueDeaf ==
    /\ at = "terminal"
    /\ at' = "after"
    /\ UNCHANGED <<pc, copy, error, flags, cycle_count>>

Continue ==
    /\ at = "terminal"
    /\ debug_mode' = FALSE
    /\ at' = "after"
    /\ UNCHANGED <<pc, copy, error, break_now, cycle_count>>

(***************************************************************************)
(* step looks for negative errors; the handlers return positive ones, so a *)
(* failed instruction looks like a finished one.  BREAK does not recurse.  *)
(***************************************************************************)
StepUntested ==
    /\ at = "terminal"
    /\ Handler \/ BreakInstruction
    /\ UNCHANGED <<at, copy, error, flags, cycle_count>>

Step ==
    /\ at = "terminal"
    /\ Handler \/ BreakInstruction
    /\ IF pc' >= Size THEN Return("PC_ERROR") ELSE UNCHANGED <<at, error>>
    /\ UNCHANGED <<copy, flags, cycle_count>>

(***************************************************************************)
(* A step past the program executes whatever lies behind the decoded       *)
(* instructions: any handler (Step), or a crash.                           *)
(***************************************************************************)
StepCrashes ==
    /\ at = "terminal" /\ pc >= Size
    /\ Return("CRASH")
    /\ UNCHANGED <<pc, copy, flags, cycle_count>>

Quit ==
    /\ at = "terminal"
    /\ Return("EXIT_ERROR")
    /\ UNCHANGED <<pc, copy, flags, cycle_count>>

(***************************************************************************)
(* intHandler: Ctrl-C at any point, ignored in the terminal.               *)
(***************************************************************************)
Interrupt ==
    /\ at # "exit" /\ ~debug_mode
    /\ break_now' = TRUE
    /\ UNCHANGED <<at, pc, copy, error, debug_mode, cycle_count>>

Exited == at = "exit" /\ UNCHANGED vars

Loop == Fetch \/ Decide \/ Execute \/ After \/ Check \/ Enter

Terminal == Continue \/ Step \/ Quit

Next == Loop \/ PrintCrashes \/ Terminal \/ StepCrashes \/ Interrupt \/ Exited

(***************************************************************************)
(* The process is scheduled and every handler returns; nothing is assumed  *)
(* of the user.                                                            *)
(***************************************************************************)
Spec == Init /\ [][Next]_vars /\ WF_vars(Loop)

-----------------------------------------------------------------------------
(***************************************************************************)
(* runAVR never loads an instruction from outside the program, whatever    *)
(* jumps, BREAKs and terminal commands moved the pc.                       *)
(***************************************************************************)
FetchInRange == at = "fetch" => pc < Size

(***************************************************************************)
(* Whenever the program is being executed Ctrl-C is heard and a BREAK      *)
(* instruction stops: debug_mode is never left set by the terminal.        *)
(***************************************************************************)
HearsInterrupts == at \in {"fetch", "decide", "execute", "after", "check"} => ~debug_mode

(***************************************************************************)
(* A request for the terminal is never lost, at whatever point of the loop *)
(* the signal or the peripheral sets break_now.                            *)
(***************************************************************************)
BreakSeen == break_now ~> at \in {"terminal", "exit"}
=============================================================================
