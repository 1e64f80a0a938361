---------------------------- MODULE RunLoop_proofs ----------------------------
(***************************************************************************)
(* Proofs about the control loop, for a program of any size.               *)
(***************************************************************************)
EXTENDS RunLoop, TLAPS

(***************************************************************************)
(* FetchInRange alone is not inductive: the pc is tested once per turn,    *)
(* after the instruction, and must survive the poll that follows; and the  *)
(* terminal, which tests it only after a step, may hold it one past the    *)
(* program.                                                                *)
(***************************************************************************)
Placed ==
    /\ at \in {"fetch", "decide", "execute", "check"} => pc < Size
    /\ at # "exit" => pc <= Size

LoopInv == TypeOK /\ Placed /\ HearsInterrupts

LEMMA Bounds == /\ Size \in Int /\ Size > 0 /\ Wrap \in Int /\ Wrap > 0
                /\ \A a \in 0 .. Size - 1 : cycles[a] \subseteq Nat
  BY ProgramAssumption

LEMMA InitLoop == Init => LoopInv
<1> SUFFICES ASSUME Init
             PROVE  LoopInv
  OBVIOUS
<1>1. TypeOK
  <2>1. pc \in 0 .. Size + 1 /\ inst \in 0 .. Size - 1
    BY Bounds DEF Init
  <2>2. cycle_count \in 0 .. Wrap - 1
    BY Bounds DEF Init
  <2>3. break_now \in BOOLEAN /\ debug_mode \in BOOLEAN
    BY DEF Init
  <2> QED BY <2>1, <2>2, <2>3 DEF Init, TypeOK, Places, Errors
<1>2. Placed /\ HearsInterrupts
  BY Bounds DEF Init, Placed, HearsInterrupts
<1> QED BY <1>1, <1>2 DEF LoopInv

(***************************************************************************)
(* Counters stay below Wrap.                                               *)
(***************************************************************************)
LEMMA Wrapped == ASSUME NEW n \in Nat PROVE n % Wrap \in 0 .. Wrap - 1
<1>1. Wrap \in Int /\ Wrap > 0
  BY ProgramAssumption
<1>2. n % Wrap \in Int /\ 0 <= n % Wrap /\ n % Wrap < Wrap
  BY <1>1, Z3
<1> QED BY <1>1, <1>2

LEMMA HandlerType ==
    ASSUME TypeOK, pc <= Size, Handler \/ BreakInstruction
    PROVE  /\ pc' \in 0 .. Size + 1
           /\ pc < Size => pc' <= Size
<1>1. pc \in Int /\ 0 <= pc
  BY Bounds DEF TypeOK
<1>2. pc' \in 0 .. Size \/ pc' = pc + 1
  BY DEF Handler, BreakInstruction
<1> QED BY <1>1, <1>2, Bounds

LEMMA NextKeepsLoop == LoopInv /\ [Next]_vars => LoopInv'
<1> SUFFICES ASSUME LoopInv, [Next]_vars
             PROVE  LoopInv'
  OBVIOUS
<1> USE ProgramAssumption DEF LoopInv, TypeOK, Placed, HearsInterrupts, Places, Errors,
                              flags, copy, Return
<1>1. CASE Fetch
  BY <1>1 DEF Fetch
<1>2. CASE Decide
  BY <1>2 DEF Decide
<1>3. CASE Execute
  <2>1. pc' \in 0 .. Size + 1 /\ pc' <= Size
    BY <1>3, HandlerType DEF Execute
  <2>2. cost' \in Nat
    BY <1>3, Bounds DEF Execute
  <2> QED BY <1>3, <2>1, <2>2 DEF Execute
<1>4. CASE After
  <2>1. (cycle_count + cost) % Wrap \in 0 .. Wrap - 1
    <3>1. cycle_count + cost \in Nat
      OBVIOUS
    <3> QED BY <3>1, Wrapped
  <2> QED BY <1>4, <2>1 DEF After
<1>5. CASE Check
  BY <1>5 DEF Check
<1>6. CASE Enter
  BY <1>6 DEF Enter
<1>7. CASE Continue
  BY <1>7 DEF Continue
<1>8. CASE Step
  <2>1. pc' \in 0 .. Size + 1
    BY <1>8, HandlerType DEF Step
  <2> QED BY <1>8, <2>1 DEF Step
<1>9. CASE Quit \/ StepCrashes \/ PrintCrashes
  BY <1>9 DEF Quit, StepCrashes, PrintCrashes
<1>10. CASE Interrupt
  BY <1>10 DEF Interrupt
<1>11. CASE Exited \/ UNCHANGED vars
  BY <1>11 DEF Exited, vars
<1> QED BY <1>1, <1>2, <1>3, <1>4, <1>5, <1>6, <1>7, <1>8, <1>9, <1>10, <1>11
      DEF Next, Loop, Terminal

(***************************************************************************)
(* The inductive invariant always holds.                                   *)
(***************************************************************************)
THEOREM LoopCorrect == Spec => []LoopInv
  BY InitLoop, NextKeepsLoop, PTL DEF Spec

(***************************************************************************)
(* Type correctness; the pc never gets more than one past the program.     *)
(***************************************************************************)
THEOREM LoopTypeCorrect == Spec => []TypeOK
<1>1. LoopInv => TypeOK
  BY DEF LoopInv
<1> QED BY <1>1, LoopCorrect, PTL

(***************************************************************************)
(* runAVR never copies an instruction from outside program->instructions.  *)
(***************************************************************************)
THEOREM FetchesInRange == Spec => []FetchInRange
<1>1. LoopInv => FetchInRange
  BY DEF LoopInv, Placed, FetchInRange
<1> QED BY <1>1, LoopCorrect, PTL

(***************************************************************************)
(* debug_mode is clear whenever runDebugTerm is not active, so intHandler  *)
(* hears Ctrl-C and BREAK_run opens the terminal.                          *)
(***************************************************************************)
THEOREM InterruptsHeard == Spec => []HearsInterrupts
<1>1. LoopInv => HearsInterrupts
  BY DEF LoopInv
<1> QED BY <1>1, LoopCorrect, PTL
=============================================================================
