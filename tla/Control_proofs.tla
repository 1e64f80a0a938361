---------------------------- MODULE Control_proofs ----------------------------
(***************************************************************************)
(* Proofs about Control for every size of byte, program and stack.         *)
(***************************************************************************)
EXTENDS Control, SequenceTheorems, TLAPS

-----------------------------------------------------------------------------
(***************************************************************************)
(* Arithmetic of the bytes of a return address.                            *)
(***************************************************************************)
LEMMA Constants ==
    /\ ByteSize \in Int /\ ByteSize > 1
    /\ ProgSize \in Int /\ ProgSize > 0 /\ ProgSize + 1 < ByteSize * ByteSize
    /\ ReturnLimit \in Int /\ ReturnLimit > 0
    /\ LongLimit \in Int /\ LongLimit > 0
    /\ Floor \in Int /\ 0 <= Floor /\ Top \in Int /\ Floor <= Top
    /\ PcBytes \subseteq {2, 3}
  BY ControlAssumption

LEMMA ModuloRange ==
    ASSUME NEW a \in Nat, NEW b \in Int, b > 0
    PROVE  a % b \in 0 .. b - 1
  BY Z3

LEMMA Division ==
    ASSUME NEW a \in Nat, NEW b \in Int, b > 0
    PROVE  /\ a \div b \in Nat
           /\ (a % b) + b * (a \div b) = a
  BY Z3

LEMMA SmallQuotient ==
    ASSUME NEW a \in Nat, NEW b \in Int, b > 0, NEW c \in Int, a < b * c
    PROVE  a \div b < c
<1>1. a \div b \in Nat /\ b * (a \div b) <= a
  <2>1. a % b \in Int /\ a % b >= 0
    BY ModuloRange
  <2>2. b * (a \div b) \in Int
    BY Division
  <2> QED BY <2>1, <2>2, Division
<1>2. SUFFICES ASSUME a \div b >= c PROVE FALSE
  BY <1>1
<1>3. b * (a \div b) >= b * c
  BY <1>1, <1>2, Z3
<1> QED BY <1>1, <1>3

LEMMA SmallModulo ==
    ASSUME NEW a \in Nat, NEW b \in Int, a < b
    PROVE  a % b = a
  BY Z3

LEMMA ByteOfType ==
    ASSUME NEW word \in Nat, NEW n \in Int
    PROVE  ByteOf(word, n) \in Byte
<1>1. word % ByteSize \in Byte
  BY Constants, ModuloRange DEF Byte
<1>2. (word \div ByteSize) % ByteSize \in Byte
  BY Constants, ModuloRange, Division DEF Byte
<1>3. ByteSize * ByteSize \in Int /\ ByteSize * ByteSize > 0
  BY Constants, Z3
<1>4. (word \div (ByteSize * ByteSize)) % ByteSize \in Byte
  BY <1>3, Constants, ModuloRange, Division DEF Byte
<1> QED BY <1>1, <1>2, <1>4 DEF ByteOf

(***************************************************************************)
(* The bytes of an address below ByteSize squared make the address again.  *)
(***************************************************************************)
LEMMA BytesOfAddress ==
    ASSUME NEW a \in Nat, a < ByteSize * ByteSize
    PROVE  /\ ByteOf(a, 0) + ByteSize * ByteOf(a, 1) = a
           /\ ByteOf(a, 2) = 0
<1>1. a \div ByteSize \in Nat /\ a \div ByteSize < ByteSize
  BY Constants, Division, SmallQuotient
<1>2. (a \div ByteSize) % ByteSize = a \div ByteSize
  BY <1>1, Constants, SmallModulo
<1>6. (a % ByteSize) + ByteSize * (a \div ByteSize) = a
  BY Constants, Division
<1>7. ByteSize * ByteSize \in Int /\ ByteSize * ByteSize > 0
  BY Constants, Z3
<1>8. a \div (ByteSize * ByteSize) = 0
  <2>1. a < (ByteSize * ByteSize) * 1
    BY <1>7
  <2>2. a \div (ByteSize * ByteSize) < 1
    BY <2>1, <1>7, SmallQuotient
  <2> QED BY <2>2, <1>7, Division
<1>9. 0 % ByteSize = 0
  BY Constants, SmallModulo
<1> QED BY <1>2, <1>6, <1>8, <1>9 DEF ByteOf

-----------------------------------------------------------------------------
(***************************************************************************)
(* The inductive invariant.  Contiguous speaks of neighbours; a store or a *)
(* push leaves all frames alone because they all lie above SP, and what a  *)
(* pop leaves lies above the new SP because each frame lies above all that *)
(* were pushed after it.  While runAVR has returned no error the pc is in  *)
(* the program, so that the addresses calls store fit in two bytes.        *)
(***************************************************************************)
Above ==
    ~derailed =>
        \A n \in 1 .. Len(frames) :
            /\ SP <= Below(frames[n])
            /\ \A m \in n + 1 .. Len(frames) : frames[m].at <= Below(frames[n])

PcInProgram == error = "none" => pc \in Program

StackInv == TypeOK /\ Contiguous /\ Above /\ PcInProgram

Frame == [kind : {"return", "saved"}, at : Cells]

LEMMA FrameFields ==
    ASSUME TypeOK, NEW n \in 1 .. Len(frames)
    PROVE  /\ frames[n] \in Frame
           /\ frames[n].kind \in {"return", "saved"} /\ frames[n].at \in Cells
           /\ Size(frames[n]) \in {1, 2, 3}
           /\ frames[n].at \in Int /\ Below(frames[n]) \in Int
           /\ Below(frames[n]) < frames[n].at
<1>1. frames \in Seq(Frame)
  BY DEF TypeOK, Frame
<1>2. frames[n] \in Frame
  BY <1>1
<1>3. frames[n].kind \in {"return", "saved"} /\ frames[n].at \in Cells
  BY <1>2 DEF Frame
<1>4. Size(frames[n]) \in {1, 2, 3}
  BY <1>3, Constants DEF Size, Width, TypeOK
<1>5. frames[n].at \in Int
  BY <1>3, Constants DEF Cells
<1>6. Below(frames[n]) \in Int /\ Below(frames[n]) < frames[n].at
  BY <1>4, <1>5 DEF Below
<1> QED BY <1>2, <1>3, <1>4, <1>5, <1>6

LEMMA InitStack == Init => StackInv
<1> SUFFICES ASSUME Init
             PROVE  StackInv
  OBVIOUS
<1>1. frames = <<>> /\ Len(frames) = 0 /\ frames \in Seq(Frame)
  BY DEF Init
<1>2. SP \in Floor - 1 .. Top + 2 /\ main_mem \in [Cells -> Byte] /\ pc \in Int
  BY Constants DEF Init, Byte
<1>3. TypeOK
  BY <1>1, <1>2 DEF Init, TypeOK, Frame
<1>4. Contiguous /\ Above
  BY <1>1 DEF Init, Contiguous, Above
<1>5. PcInProgram
  BY Constants DEF Init, PcInProgram, Program
<1> QED BY <1>3, <1>4, <1>5 DEF StackInv

(***************************************************************************)
(* The two sequence operations the frames go through.                      *)
(***************************************************************************)
LEMMA Pushed ==
    ASSUME TypeOK, NEW frame \in Frame, frames' = Append(frames, frame)
    PROVE  /\ frames' \in Seq(Frame) /\ Len(frames') = Len(frames) + 1
           /\ frames' # <<>>
           /\ frames'[Len(frames')] = frame
           /\ \A n \in 1 .. Len(frames) : frames'[n] = frames[n]
  BY DEF TypeOK, Frame

LEMMA PoppedFrames ==
    ASSUME TypeOK, frames # <<>>, frames' = Popped
    PROVE  /\ frames' \in Seq(Frame) /\ Len(frames') = Len(frames) - 1
           /\ Len(frames) \in 1 .. Len(frames)
           /\ \A n \in 1 .. Len(frames) - 1 : frames'[n] = frames[n]
<1>1. frames \in Seq(Frame) /\ Len(frames) \in Nat /\ Len(frames) # 0
  BY DEF TypeOK, Frame
<1>2. Len(frames) - 1 \in Nat /\ Len(frames) \in 1 .. Len(frames)
  BY <1>1
<1>3. frames' = SubSeq(frames, 1, Len(frames) - 1)
  BY DEF Popped
<1>4. \A n \in 1 .. Len(frames) - 1 : frames[n] \in Frame
  BY <1>1, <1>2
<1>5. /\ frames' \in Seq(Frame)
      /\ Len(frames') = IF 1 <= Len(frames) - 1 THEN Len(frames) - 1 - 1 + 1 ELSE 0
      /\ \A n \in 1 .. Len(frames) - 1 - 1 + 1 : frames'[n] = frames[1 + n - 1]
  <2> DEFINE rest == Len(frames) - 1
  <2>1. rest \in Int /\ \A n \in 1 .. rest : frames[n] \in Frame
    BY <1>2, <1>4
  <2> HIDE DEF rest
  <2>2. /\ SubSeq(frames, 1, rest) \in Seq(Frame)
        /\ Len(SubSeq(frames, 1, rest)) = IF 1 <= rest THEN rest - 1 + 1 ELSE 0
        /\ \A n \in 1 .. rest - 1 + 1 : SubSeq(frames, 1, rest)[n] = frames[1 + n - 1]
    BY <2>1, SubSeqProperties
  <2> QED BY <2>2, <1>3 DEF rest
<1>6. Len(frames') = Len(frames) - 1
  <2> DEFINE N == Len(frames)
  <2>1. N \in Int /\ N >= 1
    BY <1>1
  <2>2. Len(frames') = IF 1 <= N - 1 THEN N - 1 - 1 + 1 ELSE 0
    BY <1>5
  <2> HIDE DEF N
  <2>3. Len(frames') = N - 1
    BY <2>1, <2>2
  <2> QED BY <2>3 DEF N
<1>7. \A n \in 1 .. Len(frames) - 1 : frames'[n] = frames[n]
  BY <1>1, <1>2, <1>5
<1> QED BY <1>2, <1>5, <1>6, <1>7

(***************************************************************************)
(* What each of the three treatments of the stack preserves.               *)
(***************************************************************************)
LEMMA KeepKeepsFrames ==
    ASSUME StackInv, KeepStack
    PROVE  Contiguous' /\ Above'
<1>1. Contiguous /\ Above
  BY DEF StackInv
<1>2. Contiguous'
  BY <1>1 DEF KeepStack, Contiguous, LastFrame, Below, Size
<1>3. Above'
  BY <1>1 DEF KeepStack, Above, Below, Size
<1> QED BY <1>2, <1>3

LEMMA PushKeepsFrames ==
    ASSUME StackInv, ~derailed, NEW frame \in Frame, frame.at = SP,
           frames' = Append(frames, frame), SP' = SP - Size(frame),
           UNCHANGED <<pc_size, derailed>>
    PROVE  Contiguous' /\ Above'
<1>1. TypeOK /\ Contiguous /\ Above
  BY DEF StackInv
<1> DEFINE N == Len(frames)
<1>2. /\ Len(frames') = N + 1 /\ frames' # <<>> /\ frames'[N + 1] = frame
      /\ \A n \in 1 .. N : frames'[n] = frames[n]
  BY <1>1, Pushed
<1>3. N \in Nat /\ SP \in Int /\ Below(frame) = SP'
  BY <1>1, Constants DEF TypeOK, Below
<1>4. \A n \in 1 .. N : Below(frames[n])' = Below(frames[n])
  BY <1>2 DEF Below, Size
<1>5. Below(LastFrame)' = SP'
  BY <1>2, <1>3 DEF Below, Size, LastFrame
<1>6. SP = IF N = 0 THEN Top ELSE Below(frames[N])
  BY <1>1, <1>3 DEF Contiguous, LastFrame, TypeOK
<1>7. Contiguous'
  <2>1. SP' = IF frames' = <<>> THEN Top ELSE Below(LastFrame)'
    BY <1>2, <1>5
  <2>2. frames'[1].at = Top
    <3>1. CASE N = 0
      BY <3>1, <1>2, <1>6
    <3>2. CASE N # 0
      <4>1. 1 \in 1 .. N /\ frames # <<>>
        BY <3>2, <1>3
      <4> QED BY <4>1, <1>1, <1>2 DEF Contiguous
    <3> QED BY <3>1, <3>2
  <2>3. ASSUME NEW n \in 1 .. Len(frames') - 1
        PROVE  frames'[n + 1].at = Below(frames[n])'
    <3>1. n \in 1 .. N
      BY <1>2, <1>3
    <3>2. CASE n = N
      BY <3>1, <3>2, <1>2, <1>4, <1>6, <1>3
    <3>3. CASE n # N
      <4>1. n \in 1 .. N - 1 /\ n + 1 \in 1 .. N
        BY <3>1, <3>3, <1>3
      <4>2. frames[n + 1].at = Below(frames[n])
        BY <4>1, <1>1 DEF Contiguous
      <4> QED BY <3>1, <4>1, <4>2, <1>2, <1>4
    <3> QED BY <3>2, <3>3
  <2> QED BY <2>1, <2>2, <2>3 DEF Contiguous
<1>8. SP' <= SP
  BY <1>1, <1>3, Constants DEF Size, Width, Frame, TypeOK
<1>9. ASSUME NEW n \in 1 .. N
      PROVE  SP <= Below(frames[n]) /\ Below(frames[n]) \in Int
  BY <1>1, FrameFields DEF Above
<1>10. Above'
  <2>1. ASSUME NEW n \in 1 .. N + 1
        PROVE  SP' <= Below(frames[n])'
    <3>1. CASE n = N + 1
      <4>1. Below(frames[n])' = SP'
        BY <3>1, <1>2, <1>5 DEF LastFrame
      <4>2. SP' \in Int
        BY <1>1, <1>3, Constants DEF Size, Width, Frame, TypeOK
      <4> QED BY <4>1, <4>2
    <3>2. CASE n # N + 1
      <4>1. n \in 1 .. N
        BY <3>2, <1>3
      <4>2. SP' \in Int
        BY <1>1, <1>3, Constants DEF Size, Width, Frame, TypeOK
      <4> QED BY <4>1, <4>2, <1>3, <1>4, <1>8, <1>9
    <3> QED BY <3>1, <3>2
  <2>2. ASSUME NEW n \in 1 .. N + 1, NEW m \in n + 1 .. N + 1
        PROVE  frames'[m].at <= Below(frames[n])'
    <3>1. n \in 1 .. N /\ m \in Nat
      BY <1>3
    <3>2. CASE m = N + 1
      BY <3>1, <3>2, <1>2, <1>4, <1>9
    <3>3. CASE m # N + 1
      <4>1. m \in n + 1 .. N /\ m \in 1 .. N
        BY <3>1, <3>3, <1>3
      <4> QED BY <3>1, <4>1, <1>1, <1>2, <1>4 DEF Above
    <3> QED BY <3>2, <3>3
  <2> QED BY <2>1, <2>2, <1>2 DEF Above
<1> QED BY <1>7, <1>10

LEMMA PopKeepsFrames ==
    ASSUME StackInv, Running, frames # <<>>, frames' = Popped,
           ~derailed' => SP' = LastFrame.at, UNCHANGED pc_size
    PROVE  Contiguous' /\ Above'
<1>1. TypeOK /\ Contiguous /\ Above /\ ~derailed
  BY DEF StackInv, Running
<1> DEFINE N == Len(frames)
<1>2. /\ Len(frames') = N - 1 /\ N \in 1 .. N
      /\ \A n \in 1 .. N - 1 : frames'[n] = frames[n]
      /\ frames' \in Seq(Frame)
  BY <1>1, PoppedFrames
<1>3. N \in Nat
  BY <1>1 DEF TypeOK
<1>4. \A n \in 1 .. N - 1 : Below(frames[n])' = Below(frames[n])
  BY <1>2 DEF Below, Size
<1>5. SUFFICES ASSUME ~derailed', SP' = frames[N].at
               PROVE  Contiguous' /\ Above'
  BY DEF Contiguous, Above, LastFrame
<1>6. \A n \in 1 .. N - 1 : frames[n + 1].at = Below(frames[n])
  BY <1>1 DEF Contiguous
<1>7. Contiguous'
  <2>1. SP' = IF frames' = <<>> THEN Top ELSE Below(LastFrame)'
    <3>1. CASE N = 1
      <4>1. frames' = <<>>
        BY <3>1, <1>2, <1>3
      <4> QED BY <3>1, <4>1, <1>1, <1>5 DEF Contiguous
    <3>2. CASE N # 1
      <4>1. N - 1 \in 1 .. N - 1 /\ Len(frames') # 0 /\ (N - 1) + 1 = N
        BY <3>2, <1>2, <1>3
      <4>2. frames' # <<>>
        BY <4>1, <1>2
      <4>3. SP' = Below(frames[N - 1])
        BY <4>1, <1>5, <1>6
      <4>4. Below(LastFrame)' = Below(frames[N - 1])
        BY <4>1, <1>2, <1>4 DEF LastFrame
      <4> QED BY <4>2, <4>3, <4>4
    <3> QED BY <3>1, <3>2
  <2>2. frames' # <<>> => frames'[1].at = Top
    <3>1. ASSUME frames' # <<>> PROVE 1 \in 1 .. N - 1
      BY <3>1, <1>2, <1>3, EmptySeq
    <3> QED BY <3>1, <1>1, <1>2 DEF Contiguous
  <2>3. ASSUME NEW n \in 1 .. Len(frames') - 1
        PROVE  frames'[n + 1].at = Below(frames[n])'
    <3>1. n \in 1 .. N - 1 /\ n + 1 \in 1 .. N - 1
      BY <1>2, <1>3
    <3> QED BY <3>1, <1>2, <1>4, <1>6
  <2> QED BY <2>1, <2>2, <2>3 DEF Contiguous
<1>8. Above'
  <2>1. ASSUME NEW n \in 1 .. N - 1
        PROVE  /\ SP' <= Below(frames[n])'
               /\ \A m \in n + 1 .. N - 1 : frames'[m].at <= Below(frames[n])'
    <3>1. n \in 1 .. N /\ N \in n + 1 .. N
      BY <1>3
    <3>2. \A m \in n + 1 .. N : frames[m].at <= Below(frames[n])
      BY <3>1, <1>1 DEF Above
    <3>3. SP' <= Below(frames[n])'
      BY <3>1, <3>2, <1>4, <1>5
    <3>4. ASSUME NEW m \in n + 1 .. N - 1
          PROVE  frames'[m].at <= Below(frames[n])'
      <4>1. m \in n + 1 .. N /\ m \in 1 .. N - 1
        BY <1>3
      <4> QED BY <4>1, <3>2, <1>2, <1>4
    <3> QED BY <3>3, <3>4
  <2> QED BY <2>1, <1>2 DEF Above
<1> QED BY <1>7, <1>8

(***************************************************************************)
(* What is known of the registers while the program runs.                  *)
(***************************************************************************)
LEMMA TopFrame ==
    ASSUME StackInv, Running, frames # <<>>
    PROVE  /\ Len(frames) \in 1 .. Len(frames)
           /\ LastFrame \in Frame /\ LastFrame.at \in Cells
           /\ Size(LastFrame) \in {1, 2, 3}
           /\ SP + Size(LastFrame) = LastFrame.at
<1>1. TypeOK /\ Contiguous /\ ~derailed
  BY DEF StackInv, Running
<1>2. Len(frames) \in 1 .. Len(frames)
  BY <1>1, EmptySeq DEF TypeOK
<1>3. /\ LastFrame \in Frame /\ LastFrame.at \in Cells
      /\ Size(LastFrame) \in {1, 2, 3}
  BY <1>1, <1>2, FrameFields DEF LastFrame
<1>4. SP = LastFrame.at - Size(LastFrame)
  BY <1>1 DEF Contiguous, Below
<1> QED BY <1>2, <1>3, <1>4, Constants DEF Cells

LEMMA WhileRunning ==
    ASSUME StackInv, Running
    PROVE  /\ TypeOK /\ ~derailed
           /\ pc \in Program /\ pc \in Nat
           /\ SP \in Floor - 1 .. Top
           /\ pc_size \in {2, 3}
<1>1. TypeOK /\ ~derailed /\ pc \in Program
  BY DEF StackInv, Running, PcInProgram
<1>2. CASE frames = <<>>
  <2>1. SP = Top
    BY <1>1, <1>2 DEF StackInv, Contiguous
  <2> QED BY <1>1, <2>1, Constants DEF TypeOK, Program
<1>3. CASE frames # <<>>
  <2>1. SP <= Top
    BY <1>1, <1>3, TopFrame, Constants DEF Cells, TypeOK
  <2> QED BY <1>1, <2>1, Constants DEF TypeOK, Program
<1> QED BY <1>2, <1>3

LEMMA ContinueChecks ==
    ASSUME NEW next \in Int, Continue(next)
    PROVE  pc' \in Int /\ error' \in {"none", "PC_ERROR"} /\ PcInProgram'
  BY DEF Continue, PcInProgram, Program

LEMMA JumpChecks ==
    ASSUME NEW target \in Int, NEW tested, JumpTo(target, tested)
    PROVE  /\ pc' \in Int /\ PcInProgram'
           /\ error' \in {"none", "PROG_MEM_ERROR", "PC_ERROR"}
  BY DEF JumpTo, PcInProgram, Program

LEMMA WordType ==
    ASSUME NEW last \in Int, NEW mem \in [Floor .. last -> Byte],
           NEW a \in Int, NEW n \in {2, 3}, Floor <= a, a + n - 1 <= last
    PROVE  Word(mem, a, n) \in Nat
<1>1. a \in Floor .. last /\ a + 1 \in Floor .. last
      /\ (n = 3 => a + 2 \in Floor .. last)
  BY Constants
<1>2. mem[a] \in Nat /\ mem[a + 1] \in Nat /\ (n = 3 => mem[a + 2] \in Nat)
  BY <1>1, Constants DEF Byte
<1>3. ByteSize \in Nat /\ ByteSize * ByteSize \in Nat
  BY Constants
<1>4. ByteSize * mem[a + 1] \in Nat
  BY <1>2, <1>3
<1>5. n = 3 => ByteSize * ByteSize * mem[a + 2] \in Nat
  BY <1>2, <1>3
<1> QED BY <1>2, <1>4, <1>5 DEF Word

LEMMA ReturnedType ==
    ASSUME TypeOK, NEW word \in Nat
    PROVE  Returned(word) \in Nat
<1>1. CASE pc_size = 3
  BY <1>1, Constants, ModuloRange DEF Returned
<1>2. CASE pc_size # 3
  BY <1>2, Constants, ModuloRange DEF Returned
<1> QED BY <1>1, <1>2

LEMMA PushReturnKeeps ==
    ASSUME StackInv, Running, NEW address \in Nat, PushReturn(address)
    PROVE  /\ main_mem' \in [Cells -> Byte] /\ SP' \in Floor - 1 .. Top + 2
           /\ frames' \in Seq(Frame) /\ derailed' \in BOOLEAN
           /\ reg' \in Byte /\ pc_size' \in PcBytes
           /\ Contiguous' /\ Above'
<1>1. TypeOK /\ ~derailed /\ SP \in Floor - 1 .. Top /\ pc_size \in {2, 3}
  BY WhileRunning
<1> DEFINE frame == [kind |-> "return", at |-> SP]
<1>2. frame \in Frame /\ frame.at = SP /\ Size(frame) = pc_size
  BY <1>1, Constants DEF PushReturn, Frame, Cells, Size, Width
<1>3. Contiguous' /\ Above'
  BY <1>1, <1>2, PushKeepsFrames DEF PushReturn
<1>4. frames' \in Seq(Frame)
  BY <1>1, <1>2, Pushed DEF PushReturn
<1>5. main_mem' \in [Cells -> Byte]
  <2>1. ASSUME NEW cell \in Cells
        PROVE  ByteOf(address, cell - (SP - pc_size + 1)) \in Byte
    BY <1>1, Constants, ByteOfType DEF Cells
  <2> QED BY <2>1, <1>1 DEF PushReturn, WithReturn, TypeOK
<1>6. SP' \in Floor - 1 .. Top + 2
  BY <1>1, Constants DEF PushReturn
<1> QED BY <1>1, <1>3, <1>4, <1>5, <1>6 DEF PushReturn, TypeOK

LEMMA ReturnKeeps ==
    ASSUME StackInv, Running, frames # <<>>, NEW address \in Int,
           NEW top \in Floor - 1 .. Top + 2, ReturnTo(address, top)
    PROVE  StackInv'
<1>1. TypeOK /\ ~derailed
  BY WhileRunning
<1>2. pc' \in Int /\ error' \in {"none", "PC_ERROR"} /\ PcInProgram'
  BY ContinueChecks DEF ReturnTo
<1>3. frames' \in Seq(Frame)
  BY <1>1, PoppedFrames DEF ReturnTo
<1>4. ~derailed' => SP' = LastFrame.at
  BY DEF ReturnTo
<1>5. Contiguous' /\ Above'
  BY <1>4, PopKeepsFrames DEF ReturnTo
<1>6. TypeOK'
  BY <1>1, <1>2, <1>3 DEF ReturnTo, TypeOK, Frame
<1> QED BY <1>2, <1>5, <1>6 DEF StackInv

(***************************************************************************)
(* One step per instruction.                                               *)
(***************************************************************************)
LEMMA NextKeepsStack == StackInv /\ [Next]_vars => StackInv'
<1> SUFFICES ASSUME StackInv, [Next]_vars
             PROVE  StackInv'
  OBVIOUS
<1>1. TypeOK /\ Contiguous /\ Above /\ PcInProgram
  BY DEF StackInv
<1>2. CASE UNCHANGED vars
  <2>1. TypeOK'
    BY <1>1, <1>2 DEF TypeOK, vars
  <2>2. KeepStack
    BY <1>2 DEF KeepStack, vars
  <2>3. PcInProgram'
    BY <1>1, <1>2 DEF PcInProgram, vars
  <2> QED BY <2>1, <2>2, <2>3, KeepKeepsFrames DEF StackInv
<1>3. ASSUME Running, KeepStack, reg' \in Byte, pc' \in Int, PcInProgram',
             error' \in {"none", "PROG_MEM_ERROR", "PC_ERROR"}
      PROVE  StackInv'
  <2>1. TypeOK'
    BY <1>1, <1>3 DEF TypeOK, KeepStack
  <2> QED BY <1>3, <2>1, KeepKeepsFrames DEF StackInv
<1>4. ASSUME NEW wsize \in {1, 2}, Other(wsize)
      PROVE  StackInv'
  <2>1. Running /\ KeepStack /\ reg' \in Byte /\ Continue(pc + wsize)
    BY <1>4 DEF Other
  <2>2. pc + wsize \in Int
    BY <1>1 DEF TypeOK
  <2> QED BY <1>3, <2>1, <2>2, ContinueChecks
<1>5. ASSUME NEW cell \in Cells, NEW byte \in Byte, StoreBelow(cell, byte)
      PROVE  StackInv'
  <2>1. pc' \in Int /\ error' \in {"none", "PC_ERROR"} /\ PcInProgram'
    BY <1>1, <1>5, ContinueChecks DEF StoreBelow, TypeOK
  <2>2. TypeOK'
    BY <1>1, <1>5, <2>1 DEF StoreBelow, TypeOK
  <2>3. Contiguous'
    BY <1>1, <1>5 DEF StoreBelow, Contiguous, LastFrame, Below, Size
  <2>4. Above'
    BY <1>1, <1>5 DEF StoreBelow, Above, Below, Size
  <2> QED BY <2>1, <2>2, <2>3, <2>4 DEF StackInv
<1>6. ASSUME NEW k \in Offsets, RJMP(k)
      PROVE  StackInv'
  <2>1. Running /\ KeepStack /\ reg' \in Byte
    BY <1>1, <1>6 DEF RJMP, TypeOK
  <2>2. pc + k + 1 \in Int
    BY <1>1, ControlAssumption DEF TypeOK
  <2> QED BY <1>3, <1>6, <2>1, <2>2, JumpChecks DEF RJMP
<1>7. ASSUME NEW k \in Offsets, BRx(k)
      PROVE  StackInv'
  <2>1. Running /\ KeepStack /\ reg' \in Byte
    BY <1>1, <1>7 DEF BRx, TypeOK
  <2>2. PICK next \in Int : Continue(next)
    <3>1. PICK taken \in BOOLEAN : Continue(IF taken THEN pc + k + 2 ELSE pc + 1)
      BY <1>7 DEF BRx
    <3>2. (IF taken THEN pc + k + 2 ELSE pc + 1) \in Int
      BY <1>1, ControlAssumption DEF TypeOK
    <3> QED BY <3>1, <3>2
  <2> QED BY <1>3, <2>1, <2>2, ContinueChecks
<1>8. ASSUME NEW words \in Garbage, Skip(words)
      PROVE  StackInv'
  <2>1. Running /\ KeepStack /\ reg' \in Byte
    BY <1>1, <1>8 DEF Skip, TypeOK
  <2>2. PICK next \in Int : Continue(next)
    <3>1. PICK skips \in BOOLEAN :
              Continue(IF skips THEN pc + words + 1 ELSE pc + 1)
      BY <1>8 DEF Skip
    <3>2. (IF skips THEN pc + words + 1 ELSE pc + 1) \in Int
      BY <1>1, ControlAssumption DEF TypeOK
    <3> QED BY <3>1, <3>2
  <2> QED BY <1>3, <2>1, <2>2, ContinueChecks
<1>9. ASSUME NEW target \in Aim, JMP(target)
      PROVE  StackInv'
  <2>1. Running /\ KeepStack /\ reg' \in Byte /\ target \in Int
    BY <1>1, <1>9 DEF JMP, TypeOK, Aim
  <2> QED BY <1>3, <1>9, <2>1, JumpChecks DEF JMP
<1>10. ASSUME Running, NEW address \in Nat, PushReturn(address),
              NEW target \in Int, NEW tested, JumpTo(target, tested)
       PROVE  StackInv'
  <2>1. /\ pc' \in Int /\ PcInProgram'
        /\ error' \in {"none", "PROG_MEM_ERROR", "PC_ERROR"}
    BY <1>10, JumpChecks
  <2>2. /\ main_mem' \in [Cells -> Byte] /\ SP' \in Floor - 1 .. Top + 2
        /\ frames' \in Seq(Frame) /\ derailed' \in BOOLEAN
        /\ reg' \in Byte /\ pc_size' \in PcBytes
        /\ Contiguous' /\ Above'
    BY <1>10, PushReturnKeeps
  <2>3. TypeOK'
    BY <2>1, <2>2 DEF TypeOK, Frame
  <2> QED BY <2>1, <2>2, <2>3 DEF StackInv
<1>11. ASSUME Running
       PROVE  pc + 1 \in Nat /\ pc + 2 \in Nat
  BY <1>11, WhileRunning
<1>12. ASSUME NEW k \in Offsets, RCALL(k)
       PROVE  StackInv'
  <2>1. pc + 1 + k \in Int
    BY <1>1, ControlAssumption DEF TypeOK
  <2> QED BY <1>10, <1>11, <1>12, <2>1 DEF RCALL
<1>13. ASSUME NEW target \in Aim, ICALL(target) \/ CALL(target)
       PROVE  StackInv'
  <2>1. target \in Int
    BY DEF Aim
  <2>2. CASE ICALL(target)
    BY <1>10, <1>11, <2>1, <2>2 DEF ICALL
  <2>3. CASE CALL(target)
    BY <1>10, <1>11, <2>1, <2>3 DEF CALL
  <2> QED BY <1>13, <2>2, <2>3
<1>14. ASSUME AtReturn
       PROVE  /\ Running /\ frames # <<>> /\ pc_size \in {2, 3}
              /\ SP \in Floor - 1 .. Top /\ SP + pc_size \in Cells
  <2>1. Running /\ frames # <<>> /\ Size(LastFrame) = pc_size
    BY <1>14 DEF AtReturn, Size, Width
  <2> QED BY <2>1, WhileRunning, TopFrame
<1>15. CASE RET
  <2>1. AtReturn
    BY <1>15 DEF RET
  <2>2. Word(main_mem, SP + 1, pc_size) \in Nat
    BY <1>1, <1>14, <2>1, WordType, Constants DEF TypeOK, Cells
  <2>3. Returned(Word(main_mem, SP + 1, pc_size)) \in Int
    BY <1>1, <2>2, ReturnedType
  <2>4. SP + pc_size \in Floor - 1 .. Top + 2
    BY <1>14, <2>1, Constants DEF Cells
  <2> QED BY <1>14, <1>15, <2>1, <2>3, <2>4, ReturnKeeps DEF RET
<1>16. CASE RETI
  <2>1. AtReturn
    BY <1>16 DEF RETI
  <2>2. PICK above \in [Top + 1 .. Top + 2 -> Byte] :
           ReturnTo(Returned(Word([cell \in Floor .. Top + 2 |->
               IF cell > Top THEN above[cell] ELSE main_mem[cell]],
               SP + 3, pc_size)), SP + 2 + pc_size)
    BY <1>16 DEF RETI
  <2> DEFINE mem == [cell \in Floor .. Top + 2 |->
               IF cell > Top THEN above[cell] ELSE main_mem[cell]]
  <2>3. mem \in [Floor .. Top + 2 -> Byte]
    <3>1. ASSUME NEW cell \in Floor .. Top + 2
          PROVE  (IF cell > Top THEN above[cell] ELSE main_mem[cell]) \in Byte
      BY <1>1, Constants DEF TypeOK, Cells
    <3> QED BY <3>1
  <2> HIDE DEF mem
  <2>4. Top + 2 \in Int /\ SP + 3 \in Int /\ Floor <= SP + 3
        /\ SP + 3 + pc_size - 1 <= Top + 2
    BY <1>14, <2>1, Constants DEF Cells
  <2>5. Word(mem, SP + 3, pc_size) \in Nat
    BY <1>14, <2>1, <2>3, <2>4, WordType
  <2>6. Returned(Word(mem, SP + 3, pc_size)) \in Int
    BY <1>1, <2>5, ReturnedType
  <2>7. SP + 2 + pc_size \in Floor - 1 .. Top + 2
    BY <1>14, <2>1, Constants DEF Cells
  <2>8. ReturnTo(Returned(Word(mem, SP + 3, pc_size)), SP + 2 + pc_size)
    BY <2>2 DEF mem
  <2> QED BY <1>14, <2>1, <2>6, <2>7, <2>8, ReturnKeeps
<1>17. CASE PUSH
  <2>1. Running /\ Continue(pc + 1) /\ SP >= Floor
    BY <1>17 DEF PUSH
  <2>2. ~derailed /\ SP \in Cells
    BY <2>1, WhileRunning, Constants DEF Cells
  <2>3. pc' \in Int /\ error' \in {"none", "PC_ERROR"} /\ PcInProgram'
    BY <1>1, <2>1, ContinueChecks DEF TypeOK
  <2> DEFINE frame == [kind |-> "saved", at |-> SP]
  <2>4. frame \in Frame /\ frame.at = SP /\ Size(frame) = 1
    BY <2>2 DEF Frame, Size, Width
  <2>5. Contiguous' /\ Above'
    BY <1>17, <2>2, <2>4, PushKeepsFrames DEF PUSH
  <2>6. frames' \in Seq(Frame)
    BY <1>1, <1>17, <2>4, Pushed DEF PUSH
  <2>7. SP' \in Floor - 1 .. Top + 2
    BY <1>17, <2>2, Constants DEF PUSH, Cells
  <2>8. TypeOK'
    BY <1>1, <1>17, <2>3, <2>6, <2>7 DEF PUSH, TypeOK, Frame
  <2> QED BY <2>3, <2>5, <2>8 DEF StackInv
<1>18. CASE POP
  <2>1. Running /\ Continue(pc + 1) /\ frames # <<>> /\ Size(LastFrame) = 1
    BY <1>18 DEF POP, Size, Width
  <2>2. SP + 1 = LastFrame.at /\ LastFrame.at \in Cells
    BY <2>1, TopFrame
  <2>3. pc' \in Int /\ error' \in {"none", "PC_ERROR"} /\ PcInProgram'
    BY <1>1, <2>1, ContinueChecks DEF TypeOK
  <2>4. Contiguous' /\ Above'
    BY <1>18, <2>1, <2>2, PopKeepsFrames DEF POP
  <2>5. frames' \in Seq(Frame)
    BY <1>1, <1>18, <2>1, PoppedFrames DEF POP
  <2>6. SP' \in Floor - 1 .. Top + 2
    BY <1>18, <2>2, Constants DEF POP, Cells
  <2>7. reg' \in Byte
    BY <1>1, <1>18, <2>2 DEF POP, TypeOK
  <2>8. TypeOK'
    BY <1>1, <1>18, <2>3, <2>5, <2>6, <2>7 DEF POP, TypeOK, Frame
  <2> QED BY <2>3, <2>4, <2>8 DEF StackInv
<1>19. CASE Over
  BY <1>2, <1>19 DEF Over
<1> QED BY <1>2, <1>4, <1>5, <1>6, <1>7, <1>8, <1>9, <1>12, <1>13, <1>15,
           <1>16, <1>17, <1>18, <1>19 DEF Next

LEMMA StackInvariant == Spec => []StackInv
<1> QED BY InitStack, NextKeepsStack, PTL DEF Spec

(***************************************************************************)
(* The stack pointer stays within the cells of the stack, and memory,      *)
(* frames and registers keep their types, for every size of the memory.    *)
(***************************************************************************)
THEOREM ControlTypeCorrect == Spec => []TypeOK
<1>1. StackInv => TypeOK
  BY DEF StackInv
<1> QED BY <1>1, StackInvariant, PTL

(***************************************************************************)
(* PushReturn, RET, PUSH and POP keep the frames one under the other.      *)
(***************************************************************************)
THEOREM StackContiguous == Spec => []Contiguous
<1>1. StackInv => Contiguous
  BY DEF StackInv
<1> QED BY <1>1, StackInvariant, PTL

(***************************************************************************)
(* RET reads the frame on top: the word behind SP is what the frame holds. *)
(***************************************************************************)
LEMMA TopValue ==
    ASSUME StackInv, AtReturn
    PROVE  /\ SP + pc_size = LastFrame.at
           /\ Word(main_mem, SP + 1, pc_size) = Value(LastFrame)
           /\ Value(LastFrame) \in Nat
<1>1. Running /\ frames # <<>> /\ LastFrame.kind = "return" /\ Size(LastFrame) = pc_size
  BY DEF AtReturn, Size, Width
<1>2. TypeOK /\ pc_size \in {2, 3} /\ SP \in Floor - 1 .. Top
  BY <1>1, WhileRunning
<1>3. SP + pc_size = LastFrame.at /\ LastFrame.at \in Cells
  BY <1>1, TopFrame
<1>4. Below(LastFrame) = SP
  BY <1>1, <1>2, <1>3, Constants DEF Below, Cells
<1>5. Word(main_mem, SP + 1, pc_size) = Value(LastFrame)
  BY <1>1, <1>4 DEF Value
<1>6. Word(main_mem, SP + 1, pc_size) \in Nat
  BY <1>2, <1>3, WordType, Constants DEF TypeOK, Cells
<1> QED BY <1>3, <1>5, <1>6

LEMMA MaskKeeps ==
    ASSUME TypeOK, NEW word \in Nat
    PROVE  Returned(word) = word <=>
             word < IF pc_size = 3 THEN LongLimit ELSE ReturnLimit
<1>1. ASSUME NEW limit \in Nat, limit > 0
      PROVE  word % limit = word <=> word < limit
  <2>1. word % limit \in 0 .. limit - 1
    BY <1>1, ModuloRange
  <2>2. word < limit => word % limit = word
    BY <1>1, SmallModulo
  <2> QED BY <1>1, <2>1, <2>2
<1>2. LongLimit \in Nat /\ LongLimit > 0 /\ ReturnLimit \in Nat /\ ReturnLimit > 0
  BY ControlAssumption
<1> QED BY <1>1, <1>2 DEF Returned

(***************************************************************************)
(* RET_run goes astray by the bits of its mask and by nothing else, and    *)
(* RETI_run by two cells of the stack, for every size of the memory, the   *)
(* program and the masks and after any calls, pushes, pops and stores.     *)
(***************************************************************************)
THEOREM StraysAreKnown == Spec => StraysKnown
<1> DEFINE Known ==
        /\ RET => /\ SP' = LastFrame.at
                  /\ (pc' = Value(LastFrame)) <=>
                        (Value(LastFrame) < IF pc_size = 3 THEN LongLimit ELSE ReturnLimit)
        /\ RETI => SP' = LastFrame.at + 2
<1>1. StackInv => Known
  <2>1. ASSUME StackInv, RET
        PROVE  /\ SP' = LastFrame.at
               /\ (pc' = Value(LastFrame)) <=>
                     (Value(LastFrame) < IF pc_size = 3 THEN LongLimit ELSE ReturnLimit)
    <3>1. AtReturn /\ TypeOK
      BY <2>1 DEF RET, StackInv
    <3>2. SP' = SP + pc_size /\ pc' = Returned(Word(main_mem, SP + 1, pc_size))
      BY <2>1 DEF RET, ReturnTo, Continue
    <3>3. /\ SP + pc_size = LastFrame.at
          /\ Word(main_mem, SP + 1, pc_size) = Value(LastFrame)
          /\ Value(LastFrame) \in Nat
      BY <2>1, <3>1, TopValue
    <3>4. Returned(Value(LastFrame)) = Value(LastFrame) <=>
             Value(LastFrame) < IF pc_size = 3 THEN LongLimit ELSE ReturnLimit
      BY <3>1, <3>3, MaskKeeps
    <3> QED BY <3>2, <3>3, <3>4
  <2>2. ASSUME StackInv, RETI
        PROVE  SP' = LastFrame.at + 2
    <3>1. AtReturn
      BY <2>2 DEF RETI
    <3>2. SP' = SP + 2 + pc_size
      BY <2>2 DEF RETI, ReturnTo
    <3>3. SP + pc_size = LastFrame.at /\ SP \in Int /\ pc_size \in Int
      BY <2>2, <3>1, TopValue, WhileRunning, Constants DEF AtReturn
    <3> QED BY <3>2, <3>3
  <2> QED BY <2>1, <2>2
<1>2. StackInv /\ [Next]_vars => [Known]_vars
  BY <1>1
<1> QED BY <1>2, StackInvariant, PTL DEF Spec, StraysKnown

-----------------------------------------------------------------------------
(***************************************************************************)
(* Control implements CallStack.  The abstract stack is a function of the  *)
(* frames and of memory; it stays the same as long as no cell above SP     *)
(* changes.                                                                *)
(***************************************************************************)
AStack ==
    [i \in 1 .. Len(frames) |->
        [kind |-> frames[i].kind, value |-> Value(frames[i])]]

LEMMA FunctionIsSeq ==
    ASSUME NEW S, NEW n \in Nat, NEW f \in [1 .. n -> S]
    PROVE  f \in Seq(S) /\ Len(f) = n
<1>1. f \in Seq(S)
  BY SeqDef
<1>2. DOMAIN f = 1 .. n /\ DOMAIN f = 1 .. Len(f) /\ Len(f) \in Nat
  BY <1>1, LenProperties
<1> QED BY <1>1, <1>2

LEMMA AsFunction ==
    ASSUME NEW D, NEW f, f = [i \in D |-> f[i]], NEW S, \A i \in D : f[i] \in S
    PROVE  f \in [D -> S]
  OBVIOUS

LEMMA Extended ==
    ASSUME NEW S, NEW n \in Nat, NEW x \in S,
           NEW f \in [1 .. n -> S], NEW g \in [1 .. n + 1 -> S],
           \A i \in 1 .. n : g[i] = f[i], g[n + 1] = x
    PROVE  g = Append(f, x)
<1>1. f \in Seq(S) /\ Len(f) = n /\ g \in Seq(S) /\ Len(g) = n + 1
  BY FunctionIsSeq
<1> DEFINE h == Append(f, x)
<1>2. /\ h \in Seq(S) /\ Len(h) = n + 1
      /\ \A i \in 1 .. n : h[i] = f[i]
      /\ h[n + 1] = x
  BY <1>1, AppendProperties
<1> HIDE DEF h
<1>3. ASSUME NEW i \in 1 .. n + 1
      PROVE  g[i] = h[i]
  BY <1>2
<1> QED BY <1>1, <1>2, <1>3, SeqEqual DEF h

LEMMA Prefix ==
    ASSUME NEW S, NEW n \in Nat, NEW f, \A i \in 1 .. n : f[i] \in S
    PROVE  /\ SubSeq(f, 1, n) \in Seq(S) /\ Len(SubSeq(f, 1, n)) = n
           /\ \A i \in 1 .. n : SubSeq(f, 1, n)[i] = f[i]
<1>1. /\ SubSeq(f, 1, n) \in Seq(S)
      /\ Len(SubSeq(f, 1, n)) = IF 1 <= n THEN n - 1 + 1 ELSE 0
      /\ \A i \in 1 .. n - 1 + 1 : SubSeq(f, 1, n)[i] = f[1 + i - 1]
  BY SubSeqProperties
<1>2. n - 1 + 1 = n /\ \A i \in 1 .. n : 1 + i - 1 = i
  OBVIOUS
<1> QED BY <1>1, <1>2

LEMMA Shortened ==
    ASSUME NEW S, NEW n \in Nat,
           NEW f \in [1 .. n + 1 -> S], NEW g \in [1 .. n -> S],
           \A i \in 1 .. n : g[i] = f[i]
    PROVE  Len(f) = n + 1 /\ f # <<>> /\ g = SubSeq(f, 1, n)
<1>1. f \in Seq(S) /\ Len(f) = n + 1 /\ g \in Seq(S) /\ Len(g) = n
  BY FunctionIsSeq
<1>2. \A i \in 1 .. n : f[i] \in S
  OBVIOUS
<1> DEFINE h == SubSeq(f, 1, n)
<1>3. /\ h \in Seq(S) /\ Len(h) = n
      /\ \A i \in 1 .. n : h[i] = f[i]
  BY <1>2, Prefix
<1> HIDE DEF h
<1>4. g = h
  BY <1>1, <1>3, SeqEqual
<1>5. f # <<>>
  BY <1>1, EmptySeq
<1> QED BY <1>1, <1>4, <1>5 DEF h

\* Every cell above SP is as it was.
KeepsAbove == \A cell \in Cells : cell > SP => main_mem'[cell] = main_mem[cell]

LEMMA ValueKept ==
    ASSUME StackInv, ~derailed, KeepsAbove, UNCHANGED pc_size,
           NEW n \in 1 .. Len(frames), frames'[n] = frames[n]
    PROVE  /\ frames'[n].kind = frames[n].kind
           /\ Value(frames[n])' = Value(frames[n])
<1>1. TypeOK /\ SP <= Below(frames[n]) /\ SP \in Int /\ SP >= Floor - 1
  BY Constants DEF StackInv, Above, TypeOK
<1>2. /\ frames[n].kind \in {"return", "saved"} /\ frames[n].at \in Cells
      /\ Below(frames[n]) \in Int /\ Below(frames[n]) < frames[n].at
      /\ frames[n].at \in Int
  BY <1>1, FrameFields
<1>3. Below(frames[n])' = Below(frames[n])
  BY DEF Below, Size
<1>4. CASE frames[n].kind = "return"
  <2>1. Below(frames[n]) = frames[n].at - pc_size /\ pc_size \in {2, 3}
    BY <1>1, <1>4, Constants DEF Below, Size, Width, TypeOK
  <2> DEFINE a == Below(frames[n]) + 1
  <2>7. /\ a \in Int /\ a >= Floor /\ a > SP
        /\ a + 1 <= frames[n].at /\ (pc_size = 3 => a + 2 <= frames[n].at)
        /\ frames[n].at <= Top
    <3>1. PICK b \in Int : b = Below(frames[n])
      BY <1>2
    <3>2. PICK at \in Int : at = frames[n].at
      BY <1>2
    <3>3. b = at - pc_size /\ SP <= b /\ SP \in Int /\ SP >= Floor - 1
      BY <1>1, <2>1, <3>1, <3>2
    <3>4. at <= Top
      BY <1>2, <3>2, Constants DEF Cells
    <3>5. a = b + 1
      BY <3>1
    <3> HIDE DEF a
    <3>6. a \in Int /\ a >= Floor /\ a > SP
      BY <3>3, <3>5, Constants
    <3>7. a + 1 <= at
      BY <2>1, <3>3, <3>5
    <3>8. pc_size = 3 => a + 2 <= at
      BY <3>3, <3>5
    <3> QED BY <3>2, <3>4, <3>6, <3>7, <3>8
  <2> HIDE DEF a
  <2>2. /\ a \in Cells /\ a > SP
        /\ a + 1 \in Cells /\ a + 1 > SP
        /\ (pc_size = 3 => a + 2 \in Cells /\ a + 2 > SP)
    BY <1>1, <1>2, <2>7, Constants DEF Cells
  <2>3. /\ main_mem'[a] = main_mem[a] /\ main_mem'[a + 1] = main_mem[a + 1]
        /\ (pc_size = 3 => main_mem'[a + 2] = main_mem[a + 2])
    BY <2>2 DEF KeepsAbove
  <2>4. Word(main_mem', a, pc_size) = Word(main_mem, a, pc_size)
    BY <2>3 DEF Word
  <2>5. Value(frames[n]) = Word(main_mem, a, pc_size)
    BY <1>4 DEF Value, a
  <2>6. Value(frames[n])' = Word(main_mem', a, pc_size)
    BY <1>3, <1>4 DEF Value, a
  <2> QED BY <2>4, <2>5, <2>6
<1>5. CASE frames[n].kind # "return"
  <2>1. frames[n].at > SP
    BY <1>1, <1>2
  <2> QED BY <1>2, <1>5, <2>1 DEF Value, KeepsAbove
<1> QED BY <1>4, <1>5

LEMMA StackKept ==
    ASSUME StackInv, ~derailed, KeepsAbove, UNCHANGED <<pc_size, frames>>
    PROVE  AStack' = AStack
<1>1. \A n \in 1 .. Len(frames) :
        frames'[n].kind = frames[n].kind /\ Value(frames[n])' = Value(frames[n])
  BY ValueKept
<1> QED BY <1>1 DEF AStack

LEMMA StackPushed ==
    ASSUME StackInv, ~derailed, KeepsAbove, UNCHANGED pc_size,
           NEW frame \in Frame, frames' = Append(frames, frame)
    PROVE  AStack' = Append(AStack, [kind |-> frame.kind, value |-> Value(LastFrame)'])
<1> DEFINE N == Len(frames)
<1>1. TypeOK /\ N \in Nat
  BY DEF StackInv, TypeOK
<1>2. /\ Len(frames') = N + 1 /\ frames'[N + 1] = frame
      /\ \A n \in 1 .. N : frames'[n] = frames[n]
  BY <1>1, Pushed
<1>3. \A n \in 1 .. N :
        frames'[n].kind = frames[n].kind /\ Value(frames[n])' = Value(frames[n])
  BY <1>2, ValueKept
<1> DEFINE f == AStack
           g == AStack'
<1>4. f = [i \in 1 .. N |-> f[i]]
  BY DEF AStack
<1>5. g = [i \in 1 .. N + 1 |-> g[i]]
  BY <1>2 DEF AStack
<1>6. \A i \in 1 .. N : g[i] = f[i]
  BY <1>1, <1>2, <1>3 DEF AStack
<1> DEFINE x == [kind |-> frame.kind, value |-> Value(LastFrame)']
<1>7. g[N + 1] = x
  BY <1>1, <1>2 DEF AStack, LastFrame
<1>8. N \in Nat
  BY <1>1
<1> HIDE DEF f, g, N, x
<1> DEFINE S == {g[i] : i \in 1 .. N + 1}
<1>10. \A i \in 1 .. N + 1 : g[i] \in S
  OBVIOUS
<1> HIDE DEF S
<1>11. x \in S /\ \A i \in 1 .. N : f[i] \in S
  BY <1>6, <1>7, <1>8, <1>10
<1>12. f \in [1 .. N -> S] /\ g \in [1 .. N + 1 -> S]
  BY <1>4, <1>5, <1>10, <1>11, AsFunction
<1>13. g = Append(f, x)
  BY <1>6, <1>7, <1>8, <1>11, <1>12, Extended
<1> QED BY <1>13 DEF f, g, x

LEMMA StackPopped ==
    ASSUME StackInv, ~derailed, KeepsAbove, UNCHANGED pc_size,
           frames # <<>>, frames' = Popped
    PROVE  /\ AStack # <<>>
           /\ AStack[Len(AStack)] = [kind |-> LastFrame.kind, value |-> Value(LastFrame)]
           /\ AStack' = SubSeq(AStack, 1, Len(AStack) - 1)
<1> DEFINE N == Len(frames)
<1>1. TypeOK
  BY DEF StackInv
<1>2. /\ Len(frames') = N - 1 /\ N \in 1 .. N
      /\ \A n \in 1 .. N - 1 : frames'[n] = frames[n]
  BY <1>1, PoppedFrames
<1>3. N - 1 \in Nat /\ (N - 1) + 1 = N
  BY <1>1, <1>2 DEF TypeOK
<1>4. \A n \in 1 .. N - 1 :
        frames'[n].kind = frames[n].kind /\ Value(frames[n])' = Value(frames[n])
  BY <1>2, <1>3, ValueKept
<1> DEFINE f == AStack
           g == AStack'
<1>5. f = [i \in 1 .. N |-> f[i]]
  BY DEF AStack
<1>6. g = [i \in 1 .. N - 1 |-> g[i]]
  BY <1>2 DEF AStack
<1>7. \A i \in 1 .. N - 1 : g[i] = f[i]
  BY <1>2, <1>3, <1>4 DEF AStack
<1>8. f[N] = [kind |-> LastFrame.kind, value |-> Value(LastFrame)]
  BY <1>2 DEF AStack, LastFrame
<1> HIDE DEF f, g
<1> DEFINE S == {f[i] : i \in 1 .. N}
<1>9. \A i \in 1 .. N : f[i] \in S
  OBVIOUS
<1> HIDE DEF S, N
<1>10. \A i \in 1 .. N - 1 : g[i] \in S
  BY <1>3, <1>7, <1>9
<1>11. f \in [1 .. (N - 1) + 1 -> S] /\ g \in [1 .. N - 1 -> S]
  BY <1>3, <1>5, <1>6, <1>9, <1>10, AsFunction
<1>12. Len(f) = N /\ f # <<>> /\ g = SubSeq(f, 1, N - 1)
  BY <1>3, <1>7, <1>11, Shortened
<1> QED BY <1>8, <1>12 DEF f, g

(***************************************************************************)
(* What a call stores is the address it goes back to: the address is at    *)
(* most one past the program, and so fits in two bytes.                    *)
(***************************************************************************)
LEMMA ReturnPushed ==
    ASSUME StackInv, Running, NEW address \in Nat,
           address < ByteSize * ByteSize, PushReturn(address)
    PROVE  AStack' = Append(AStack, [kind |-> "return", value |-> address])
<1>1. TypeOK /\ ~derailed /\ SP \in Floor - 1 .. Top /\ pc_size \in {2, 3}
  BY WhileRunning
<1> DEFINE frame == [kind |-> "return", at |-> SP]
<1>2. /\ SP \in Cells /\ SP - pc_size + 1 \in Cells /\ SP - pc_size + 2 \in Cells
      /\ SP \in Int /\ SP - pc_size >= Floor - 1
  BY <1>1, Constants DEF PushReturn, Cells
<1>3. frame \in Frame /\ frames' = Append(frames, frame)
  BY <1>2 DEF Frame, PushReturn
<1>4. KeepsAbove
  BY <1>1, Constants DEF KeepsAbove, PushReturn, WithReturn, Cells
<1>5. Len(frames') = Len(frames) + 1 /\ frames'[Len(frames) + 1] = frame
  BY <1>1, <1>3, Pushed
<1>6. frames'[Len(frames')] = frame /\ pc_size' = pc_size
  BY <1>5 DEF PushReturn
<1> DEFINE a == SP - pc_size + 1
<1>7. Value(LastFrame)' = Word(main_mem', a, pc_size)
  BY <1>6 DEF Value, LastFrame, Below, Size, Width
<1>8. main_mem' = WithReturn(address)
  BY DEF PushReturn
<1>9. ASSUME NEW i \in 0 .. 2, i < pc_size
      PROVE  main_mem'[a + i] = ByteOf(address, i)
  <2>1. PICK c \in Int : c = a + i
    BY <1>1, <1>2
  <2>2. /\ c \in Cells /\ c \in SP - pc_size + 1 .. SP
        /\ c - (SP - pc_size + 1) = i
    BY <1>1, <1>2, <1>9, <2>1, Constants DEF Cells
  <2>3. main_mem'[c] = ByteOf(address, c - (SP - pc_size + 1))
    BY <1>8, <2>2 DEF WithReturn
  <2> QED BY <2>1, <2>2, <2>3
<1>10. main_mem'[a] = ByteOf(address, 0) /\ main_mem'[a + 1] = ByteOf(address, 1)
  <2>1. a + 0 = a
    BY <1>1, <1>2
  <2>2. main_mem'[a + 0] = ByteOf(address, 0) /\ main_mem'[a + 1] = ByteOf(address, 1)
    BY <1>1, <1>9
  <2> QED BY <2>1, <2>2
<1>11. pc_size = 3 => main_mem'[a + 2] = 0
  BY <1>9, BytesOfAddress
<1>12. Word(main_mem', a, pc_size) = address
  <2>1. ByteOf(address, 0) + ByteSize * ByteOf(address, 1) = address
    BY BytesOfAddress
  <2>2. ByteSize * ByteSize * 0 = 0
    BY Constants, Z3
  <2> QED BY <1>10, <1>11, <2>1, <2>2 DEF Word
<1>13. AStack' = Append(AStack, [kind |-> frame.kind, value |-> Value(LastFrame)'])
  BY <1>1, <1>3, <1>4, <1>6, StackPushed
<1> QED BY <1>7, <1>12, <1>13

LEMMA InitImplements == Init => Abstract!Init
<1> SUFFICES ASSUME Init PROVE Abstract!Init
  OBVIOUS
<1>1. Len(frames) = 0
  BY DEF Init
<1>2. AStack \in Seq({}) /\ Len(AStack) = 0
  <2>1. AStack \in [1 .. 0 -> {}]
    BY <1>1 DEF AStack
  <2> QED BY <2>1, FunctionIsSeq
<1>3. AStack = <<>>
  BY <1>2, EmptySeq
<1> QED BY <1>3 DEF Init, Abstract!Init, AStack

LEMMA NextImplements ==
    ASSUME StackInv, StackInv', [Next]_vars
    PROVE  [Abstract!Next]_(Abstract!vars)
<1>1. TypeOK /\ TypeOK'
  BY DEF StackInv
<1>2. CASE UNCHANGED vars
  <2>1. AStack' = AStack
    BY <1>2 DEF vars, AStack, Value, Below, Size
  <2> QED BY <1>2, <2>1 DEF vars, Abstract!vars, AStack
<1>3. ASSUME Running, KeepsAbove, UNCHANGED <<frames, derailed, pc_size>>
      PROVE  Abstract!Next
  <2>1. ~derailed
    BY <1>3 DEF Running
  <2>2. AStack' = AStack
    BY <1>3, <2>1, StackKept
  <2>3. pc' \in Int /\ reg' \in Byte
    BY <1>1 DEF TypeOK
  <2> QED BY <1>3, <2>2, <2>3 DEF Abstract!Next, Abstract!Go, AStack
<1>4. ASSUME NEW wsize \in {1, 2}, Other(wsize)
      PROVE  Abstract!Next
  BY <1>3, <1>4 DEF Other, KeepStack, KeepsAbove
<1>5. ASSUME NEW cell \in Cells, NEW byte \in Byte, StoreBelow(cell, byte)
      PROVE  Abstract!Next
  <2>1. KeepsAbove
    <3> SUFFICES ASSUME NEW c \in Cells, c > SP PROVE main_mem'[c] = main_mem[c]
      BY DEF KeepsAbove
    <3>1. c # cell
      BY <1>1, <1>5, Constants DEF StoreBelow, Cells, TypeOK
    <3> QED BY <1>1, <1>5, <3>1 DEF StoreBelow, TypeOK
  <2> QED BY <1>3, <1>5, <2>1 DEF StoreBelow
<1>6. ASSUME NEW k \in Offsets, RJMP(k) \/ BRx(k)
      PROVE  Abstract!Next
  BY <1>3, <1>6 DEF RJMP, BRx, KeepStack, KeepsAbove
<1>7. ASSUME NEW words \in Garbage, Skip(words)
      PROVE  Abstract!Next
  BY <1>3, <1>7 DEF Skip, KeepStack, KeepsAbove
<1>8. ASSUME NEW target \in Aim, JMP(target)
      PROVE  Abstract!Next
  BY <1>3, <1>8 DEF JMP, KeepStack, KeepsAbove
<1>9. ASSUME Running, NEW length \in {1, 2}, PushReturn(pc + length)
      PROVE  Abstract!Next
  <2>1. pc \in Program /\ pc \in Nat
    BY <1>9, WhileRunning
  <2>2. pc + length \in Nat /\ pc + length < ByteSize * ByteSize
    <3>1. pc + length <= ProgSize + 1
      BY <2>1, Constants DEF Program
    <3>2. ByteSize * ByteSize \in Int
      BY Constants, Z3
    <3> QED BY <2>1, <3>1, <3>2, Constants
  <2>3. AStack' = Append(AStack, [kind |-> "return", value |-> pc + length])
    BY <1>9, <2>2, ReturnPushed
  <2>4. pc' \in Int /\ reg' = reg /\ derailed' = derailed
    BY <1>1, <1>9 DEF TypeOK, PushReturn
  <2>5. Abstract!Call
    BY <2>3, <2>4 DEF Abstract!Call, Abstract!Return, AStack
  <2> QED BY <2>5 DEF Abstract!Next
<1>10. ASSUME NEW k \in Offsets, RCALL(k)
       PROVE  Abstract!Next
  BY <1>9, <1>10 DEF RCALL
<1>11. ASSUME NEW target \in Aim, ICALL(target) \/ CALL(target)
       PROVE  Abstract!Next
  BY <1>9, <1>11 DEF ICALL, CALL
<1>12. ASSUME AtReturn, NEW address, NEW top, ReturnTo(address, top)
       PROVE  Abstract!Next
  <2>1. CASE derailed'
    BY <2>1 DEF Abstract!Next, Abstract!Undefine
  <2>2. CASE ~derailed'
    <3>1. /\ Running /\ ~derailed /\ frames # <<>> /\ LastFrame.kind = "return"
      BY <1>12 DEF AtReturn, Running
    <3>2. KeepsAbove /\ UNCHANGED <<pc_size, reg>> /\ frames' = Popped
      BY <1>12 DEF KeepsAbove, ReturnTo
    <3>3. pc' = Value(LastFrame)
      BY <1>12, <2>2 DEF ReturnTo, Continue
    <3>4. /\ AStack # <<>>
          /\ AStack[Len(AStack)] = [kind |-> "return", value |-> Value(LastFrame)]
          /\ AStack' = SubSeq(AStack, 1, Len(AStack) - 1)
      BY <3>1, <3>2, StackPopped
    <3>5. derailed' = derailed
      BY <2>2, <3>1, <1>1 DEF TypeOK
    <3>6. /\ AStack[Len(AStack)].kind = "return"
          /\ pc' = AStack[Len(AStack)].value
      BY <3>3, <3>4
    <3>7. Abstract!Ret
      BY <3>2, <3>4, <3>5, <3>6, Zenon
         DEF Abstract!Ret, Abstract!OnTop, Abstract!Rest, AStack
    <3> QED BY <3>7 DEF Abstract!Next
  <2> QED BY <2>1, <2>2
<1>13. CASE RET
  BY <1>12, <1>13 DEF RET
<1>14. CASE RETI
  BY <1>12, <1>14 DEF RETI
<1>15. CASE PUSH
  <2>1. Running /\ ~derailed /\ SP \in Cells /\ SP \in Int
    <3>1. Running /\ SP >= Floor
      BY <1>15 DEF PUSH
    <3> QED BY <3>1, WhileRunning, Constants DEF Cells
  <2> DEFINE frame == [kind |-> "saved", at |-> SP]
  <2>2. frame \in Frame /\ frames' = Append(frames, frame) /\ pc_size' = pc_size
    BY <1>15, <2>1 DEF Frame, PUSH
  <2>3. KeepsAbove
    BY <1>1, <1>15, <2>1, Constants DEF KeepsAbove, PUSH, TypeOK, Cells
  <2>4. frames'[Len(frames')] = frame
    BY <1>1, <2>2, Pushed
  <2>5. Value(LastFrame)' = reg
    BY <1>1, <1>15, <2>1, <2>4 DEF Value, LastFrame, PUSH, TypeOK
  <2>6. AStack' = Append(AStack, [kind |-> "saved", value |-> reg])
    BY <2>1, <2>2, <2>3, <2>5, StackPushed
  <2>7. pc' \in Int /\ reg' = reg /\ derailed' = derailed
    BY <1>1, <1>15 DEF TypeOK, PUSH
  <2>8. Abstract!Push
    BY <2>6, <2>7 DEF Abstract!Push, Abstract!Saved, AStack
  <2> QED BY <2>8 DEF Abstract!Next
<1>16. CASE POP
  <2>1. /\ Running /\ ~derailed /\ frames # <<>> /\ LastFrame.kind = "saved"
        /\ frames' = Popped /\ pc_size' = pc_size /\ KeepsAbove
    BY <1>16 DEF POP, Running, KeepsAbove
  <2>2. SP + 1 = LastFrame.at
    BY <2>1, TopFrame DEF Size, Width
  <2>3. reg' = Value(LastFrame)
    BY <1>16, <2>1, <2>2 DEF POP, Value
  <2>4. /\ AStack # <<>>
        /\ AStack[Len(AStack)] = [kind |-> "saved", value |-> Value(LastFrame)]
        /\ AStack' = SubSeq(AStack, 1, Len(AStack) - 1)
    BY <2>1, StackPopped
  <2>5. pc' \in Int /\ derailed' = derailed
    BY <1>1, <1>16 DEF TypeOK, POP
  <2>6. /\ AStack[Len(AStack)].kind = "saved"
        /\ reg' = AStack[Len(AStack)].value
    BY <2>3, <2>4
  <2>7. Abstract!Pop
    BY <2>4, <2>5, <2>6, Zenon
       DEF Abstract!Pop, Abstract!OnTop, Abstract!Rest, AStack
  <2> QED BY <2>7 DEF Abstract!Next
<1>17. CASE Over
  BY <1>2, <1>17 DEF Over
<1> QED BY <1>2, <1>4, <1>5, <1>6, <1>7, <1>8, <1>10, <1>11, <1>13, <1>14,
           <1>15, <1>16, <1>17 DEF Next

(***************************************************************************)
(* As long as no return has gone astray, calls, returns, PUSH and POP are  *)
(* those of CallStack, for every program and every size of the stack.      *)
(***************************************************************************)
THEOREM ControlImplementsCallStack == Spec => ImplementsCallStack
<1>1. StackInv /\ StackInv' /\ [Next]_vars => [Abstract!Next]_(Abstract!vars)
  BY NextImplements
<1>2. Spec => []StackInv
  BY StackInvariant
<1>3. Spec => Abstract!Spec
  BY <1>1, <1>2, InitImplements, PTL DEF Spec, Abstract!Spec
<1> QED BY <1>3 DEF ImplementsCallStack
=============================================================================
