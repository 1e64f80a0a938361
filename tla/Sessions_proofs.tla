---------------------------- MODULE Sessions_proofs ----------------------------
(***************************************************************************)
(* Proofs about the simulator and its peripheral processes, for any number *)
(* of peripherals, any requests, pipes of any capacity and any set of      *)
(* peripherals that fail to launch, are missing or die.                    *)
(***************************************************************************)
EXTENDS Sessions, Listeners_proofs, SequenceTheorems

(***************************************************************************)
(* What the control of the simulator says of its table: entries before cur *)
(* have been dealt with, in whichever of the loops over the table it is.   *)
(***************************************************************************)
Talking == pc \in {"send", "read"}

OwedOwners ==
    /\ pc # "store" => owed = <<>>
    /\ \A i \in 1 .. Len(owed) : owed[i] \in launched /\ Owns(owed[i])

Positions ==
    /\ pc = "open" => during = "open" /\ \A p \in launched : p < cur
    /\ pc = "check" => during = "check"
    /\ Talking => cur \in launched /\ (during = "open" => \A p \in launched : p <= cur)
    /\ pc = "wait" => cur \in launched
    /\ OwedOwners

Rounds ==
    /\ during = "open" /\ (pc = "open" \/ Talking) =>
         \A p \in launched : p < cur /\ live[p] => p \in ready
    /\ during = "check" /\ (pc = "check" \/ Talking) =>
         \A p \in launched : p < cur /\ live[p] /\ can_write[p] => p \in ready
    /\ LiveMeansReady

Closed ==
    /\ pc \in {"close", "wait"} => \A p \in launched : p < cur => proc[p] = "exited"
    /\ NoOrphans

Idle == \A p \in Peripherals \ launched : proc[p] = "none" /\ down[p] = <<>> /\ up[p] = <<>>

(***************************************************************************)
(* The conversation with one peripheral, which is Framed and               *)
(* NoStrayRequest and why they hold: a START is the last message of its    *)
(* pipe and the simulator reads until it is answered, so that a peripheral *)
(* with a request out has an empty pipe, in which the reply comes first.   *)
(***************************************************************************)
Reading(p) == pc = "read" /\ cur = p

Stray(p) == up[p] # <<>> => Len(up[p]) = 1 /\ Reading(p)

RequestOut(p) == down[p] = <<>> /\ proc[p] \in Running /\ (proc[p] = "await" <=> up[p][1] = BREAK)

ReplyFirst(p) ==
    IF proc[p] \in {"reply", "final"}
    THEN /\ down[p] # <<>> /\ down[p][1] \in ReplyCodes
         /\ \A i \in 2 .. Len(down[p]) : down[p][i] \in Commands
    ELSE \A i \in 1 .. Len(down[p]) : down[p][i] \in Commands

StartIsLast(p) ==
    \A i \in 1 .. Len(down[p]) :
        down[p][i] = "START" => i = Len(down[p]) /\ Reading(p) /\ up[p] = <<>>

Alive(p) == proc[p] \notin {"failing", "exited"}

Talk(p) ==
    /\ Stray(p)
    /\ Alive(p) => (IF up[p] # <<>> THEN RequestOut(p) ELSE ReplyFirst(p)) /\ StartIsLast(p)

Talks == \A p \in Peripherals : Talk(p)

SimInv == Positions /\ Rounds /\ Closed /\ Idle /\ Talks

SessionInv == TypeOK /\ TablesInv /\ PolledExact /\ SimInv

LEMMA InitSession == Init => SessionInv
<1> SUFFICES ASSUME Init PROVE SessionInv
  OBVIOUS
<1> USE SessionAssumption DEF Init
<1>1. TablesInv /\ PolledExact
  BY InitTables DEF ListenersInit, PolledExact
<1>2. TypeOK
  <2>1. <<>> \in Seq(ReplyCodes \cup Commands) /\ <<>> \in Seq(Requests \cup {READY, TORN})
    OBVIOUS
  <2>2. down \in [Peripherals -> Seq(ReplyCodes \cup Commands)]
    BY <2>1
  <2>3. up \in [Peripherals -> Seq(Requests \cup {READY, TORN})]
    BY <2>1
  <2>4. \A p \in Peripherals : Len(down[p]) <= PipeCap
    OBVIOUS
  <2>5. proc \in [Peripherals -> Running \cup {"none", "forked", "failing", "exited"}]
    OBVIOUS
  <2>6. todo \in [Peripherals -> 0 .. MaxRequests] /\ cur \in 1 .. NumPerphs + 1
    OBVIOUS
  <2>7. owed \in Seq(Peripherals) /\ Len(owed) <= MaxNotes
    OBVIOUS
  <2> QED BY <1>1, <2>2, <2>3, <2>4, <2>5, <2>6, <2>7 DEF TypeOK, TablesInv
<1>3. Positions /\ Rounds /\ Closed /\ Idle
  BY DEF Positions, OwedOwners, Talking, Rounds, LiveMeansReady, Closed, NoOrphans, Idle
<1>4. Talks
  BY DEF Talks, Talk, Stray, Alive, ReplyFirst, StartIsLast
<1> QED BY <1>1, <1>2, <1>3, <1>4 DEF SessionInv, SimInv

-----------------------------------------------------------------------------
(***************************************************************************)
(* Every step is a request to the tables or leaves them alone.             *)
(***************************************************************************)
Messages == ReplyCodes \cup Commands

LEMMA RepliesToRequests ==
    ASSUME NEW p \in Peripherals, NEW req \in Requests \cup {READY, TORN}, NEW reply,
           ReplyTo(p, req, reply)
    PROVE  \/ UNCHANGED listenerVars
           \/ reply \in SetReplies /\ SetRequest(p, reply)
<1> USE DEF ReplyTo
<1>1. CASE req \in {"SETM", "CLAIM", "WRITEM"} \X Addrs
  <2>1. req[1] \in {"SETM", "CLAIM", "WRITEM"} /\ req[2] \in Addrs
    BY <1>1
  <2>2. setmHandler(p, req[2], reply) => reply \in SetReplies
    BY DEF setmHandler, SetReplies
  <2> QED BY <2>1, <2>2 DEF SetRequest, SetM, Claim
<1>2. CASE req \in {"SETP", "CLAIMP", "WRITEP"} \X (Ports \cup {NoPort})
  <2>1. req[1] \in {"SETP", "CLAIMP", "WRITEP"} /\ req[2] \in Ports \cup {NoPort}
    BY <1>2
  <2>2. setpHandler(p, req[2], reply) => reply \in SetReplies
    BY DEF setpHandler, SetReplies
  <2> QED BY <2>1, <2>2 DEF SetRequest, SetP, ClaimP
<1>3. CASE req \in {"SETPN", "CLAIMPN", "WRITEPN"} \X (Pins \cup {NoPin})
  <2>1. req[1] \in {"SETPN", "CLAIMPN", "WRITEPN"} /\ req[2] \in Pins \cup {NoPin}
    BY <1>3
  <2>2. setpnHandler(p, req[2], reply) => reply \in SetReplies
    BY DEF setpnHandler, SetReplies
  <2> QED BY <2>1, <2>2 DEF SetRequest, SetPn, ClaimPn
<1>4. CASE req \in {<<"PRINT">>, <<"BLANK">>, <<"SYNC">>, <<"UNSYNC">>, <<"CLK">>, BREAK, READY, TORN}
  <2>1. req[1] \in {"PRINT", "BLANK", "SYNC", "UNSYNC", "CLK", "BREAK", "READY", "TORN"}
    BY <1>4 DEF BREAK, READY, TORN
  <2> QED BY <2>1
<1> QED BY <1>1, <1>2, <1>3, <1>4, SessionAssumption DEF Protocol

LEMMA HeadOfRequest ==
    ASSUME TypeOK, NEW p \in Peripherals, up[p] # <<>>
    PROVE  Head(up[p]) \in Requests \cup {READY, TORN}
  BY HeadTailProperties DEF TypeOK

LEMMA ReadCommandAsks ==
    ASSUME TypeOK, cur \in Peripherals, ReadCommand
    PROVE  UNCHANGED listenerVars \/ \E reply \in SetReplies : SetRequest(cur, reply)
  BY HeadOfRequest, RepliesToRequests DEF ReadCommand, Handle

LEMMA StepUsesTables ==
    ASSUME TypeOK, Positions, [Next]_vars
    PROVE  [ListenersNext]_listenerVars
<1>1. CASE ReadCommand
  BY <1>1, ReadCommandAsks DEF ReadCommand, Positions, Talking, TypeOK, ListenersNext
<1>2. CASE ~ReadCommand
  BY <1>2 DEF Next, Simulator, Conversation, Shutdown, Process, Terminated, vars,
     Launch, RunProgram, SendStart, FoundDead, ReadEof, CheckPeripherals, CloseOne, WaitForExit,
     CloseNext, OpenFails, Execute, Notify, Executed, Terminal, AfterInstruction, Finish, Exec, ChildExits,
     TakeStart, TakeReply, TakeData, TakeKill, ExecFails, Dies
<1> QED BY <1>1, <1>2

(***************************************************************************)
(* Only the peripheral in conversation gets the right to be polled.        *)
(***************************************************************************)
LEMMA OthersKeepPolled ==
    ASSUME TypeOK, Positions, ReadCommand
    PROVE  \A q \in Peripherals \ {cur} : can_write'[q] = can_write[q]
<1>1. UNCHANGED listenerVars \/ \E reply \in SetReplies : SetRequest(cur, reply)
  BY ReadCommandAsks DEF ReadCommand, Positions, Talking, TypeOK
<1>2. UNCHANGED writers \/ \E reply : GrantWrite(cur, reply)
  BY <1>1, RequestShape DEF listenerVars
<1> QED BY <1>2 DEF GrantWrite, writers, TypeOK, ListenersTypeOK

-----------------------------------------------------------------------------
(***************************************************************************)
(* What sending does to the pipe, for the two ways it can end.             *)
(***************************************************************************)
LEMMA Sends ==
    ASSUME TypeOK, NEW p \in Peripherals, NEW msgs \in Seq(Messages), Send(p, msgs)
    PROVE  /\ down' \in [Peripherals -> Seq(Messages)]
           /\ \A q \in Peripherals : Len(down'[q]) <= PipeCap
           /\ live' \in [Peripherals -> BOOLEAN]
           /\ \A q \in Peripherals : live'[q] => live[q]
           /\ \A q \in Peripherals \ {p} : down'[q] = down[q]
           /\ proc[p] = "exited" => down'[p] = down[p] /\ ~live'[p]
           /\ proc[p] # "exited" => down'[p] = down[p] \o msgs
<1>1. /\ down \in [Peripherals -> Seq(Messages)] /\ live \in [Peripherals -> BOOLEAN]
      /\ \A q \in Peripherals : Len(down[q]) <= PipeCap
  BY DEF TypeOK, Messages
<1>2. CASE proc[p] = "exited"
  BY <1>1, <1>2 DEF Send
<1>3. CASE proc[p] # "exited"
  <2>1. down[p] \o msgs \in Seq(Messages) /\ Len(down[p] \o msgs) = Len(down[p]) + Len(msgs)
    BY <1>1, ConcatProperties
  <2>2. Len(down[p]) + Len(msgs) <= PipeCap /\ down' = [down EXCEPT ![p] = @ \o msgs] /\ live' = live
    BY <1>3 DEF Send
  <2> QED BY <1>1, <1>3, <2>1, <2>2
<1> QED BY <1>2, <1>3

LEMMA AnswerMessages ==
    ASSUME NEW req, NEW reply \in ReplyCodes
    PROVE  /\ Answer(req, reply) \in Seq(Messages)
           /\ Answer(req, reply) # <<>> /\ Answer(req, reply)[1] = reply
           /\ \A i \in 2 .. Len(Answer(req, reply)) : Answer(req, reply)[i] = "DATA"
<1>1. reply \in Messages /\ "DATA" \in Messages
  BY DEF Messages, Commands
<1>2. <<reply>> \in Seq(Messages) /\ <<reply, "DATA">> \in Seq(Messages)
  BY <1>1
<1> QED BY <1>2 DEF Answer

LEMMA Takes ==
    ASSUME TypeOK, NEW p \in Peripherals, down[p] # <<>>, Take(p)
    PROVE  /\ down' \in [Peripherals -> Seq(Messages)]
           /\ \A q \in Peripherals \ {p} : down'[q] = down[q]
           /\ \A q \in Peripherals : Len(down'[q]) <= PipeCap
           /\ down'[p] = Tail(down[p]) /\ Len(down'[p]) = Len(down[p]) - 1
           /\ \A i \in 1 .. Len(down'[p]) : down'[p][i] = down[p][i + 1]
<1>1. /\ down \in [Peripherals -> Seq(Messages)]
      /\ \A q \in Peripherals : Len(down[q]) \in Nat /\ Len(down[q]) <= PipeCap
  BY DEF TypeOK, Messages
<1>2. /\ Tail(down[p]) \in Seq(Messages) /\ Len(Tail(down[p])) = Len(down[p]) - 1
      /\ \A i \in 1 .. Len(Tail(down[p])) : Tail(down[p])[i] = down[p][i + 1]
  BY <1>1, HeadTailProperties
<1> QED BY <1>1, <1>2, SessionAssumption DEF Take

LEMMA Appends ==
    ASSUME TypeOK, NEW p \in Peripherals, NEW req \in Requests \cup {READY, TORN},
           up' = [up EXCEPT ![p] = Append(@, req)]
    PROVE  up' \in [Peripherals -> Seq(Requests \cup {READY, TORN})]
  BY AppendProperties DEF TypeOK

-----------------------------------------------------------------------------
(***************************************************************************)
(* Types, in three parts: where the simulator is, the processes, the pipes.*)
(***************************************************************************)
ControlTypes ==
    /\ pc \in {"open", "send", "read", "run", "store", "check", "close", "wait", "done", "aborted"}
    /\ cur \in 1 .. NumPerphs + 1
    /\ during \in {"open", "check"}
    /\ launched \subseteq Peripherals
    /\ owed \in Seq(Peripherals) /\ Len(owed) <= MaxNotes
    /\ break_now \in BOOLEAN
    /\ ready \subseteq launched

ProcessTypes ==
    /\ live \in [Peripherals -> BOOLEAN]
    /\ proc \in [Peripherals -> Running \cup {"none", "forked", "failing", "exited"}]
    /\ todo \in [Peripherals -> 0 .. MaxRequests]

PipeTypes ==
    /\ down \in [Peripherals -> Seq(Messages)]
    /\ \A p \in Peripherals : Len(down[p]) <= PipeCap
    /\ up \in [Peripherals -> Seq(Requests \cup {READY, TORN})]

LEMMA TypeParts == TypeOK <=> ListenersTypeOK /\ ControlTypes /\ ProcessTypes /\ PipeTypes
  BY DEF TypeOK, ControlTypes, ProcessTypes, PipeTypes, Messages

LEMMA SizeOfNotes ==
    ASSUME SessionAssumption, launched \subseteq Peripherals, Execute
    PROVE  /\ owed' \in Seq(Peripherals) /\ Len(owed') <= MaxNotes
           /\ \A n \in 0 .. MaxNotes :
                owed' \in [1 .. n -> {p \in launched : Owns(p)}] => Len(owed') = n
<1> DEFINE owners == {p \in launched : Owns(p)}
<1>1. owners \subseteq Peripherals
  OBVIOUS
<1>2. PICK m \in 0 .. MaxNotes : owed' \in [1 .. m -> owners]
  BY DEF Execute
<1>3. MaxNotes \in Nat
  BY DEF SessionAssumption
<1> HIDE DEF owners
<1>4. \A n \in 0 .. MaxNotes : owed' \in [1 .. n -> owners] => owed' \in [1 .. n -> Peripherals]
  BY <1>1
<1>5. \A n \in 0 .. MaxNotes : owed' \in [1 .. n -> Peripherals] => owed' \in Seq(Peripherals) /\ Len(owed') = n
  BY <1>3
<1>6. owed' \in Seq(Peripherals) /\ Len(owed') = m /\ m <= MaxNotes
  BY <1>2, <1>3, <1>4, <1>5
<1> QED BY <1>4, <1>5, <1>6 DEF owners

(***************************************************************************)
(* Control moves inside the table.                                         *)
(***************************************************************************)
LEMMA NextKeepsControlTypes ==
    ASSUME ControlTypes, Positions, [Next]_vars
    PROVE  ControlTypes'
<1> USE SessionAssumption DEF ControlTypes, Goto, Leave
<1>0. Talking \/ pc = "wait" => cur \in 1 .. NumPerphs /\ cur \in launched /\ cur + 1 \in 1 .. NumPerphs + 1
  BY DEF Positions
<1>1. CASE Launch
  BY <1>1 DEF Launch
<1>2. CASE RunProgram
  BY <1>2 DEF RunProgram, Positions
<1>3. CASE SendStart
  BY <1>3 DEF SendStart
<1>4. CASE FoundDead
  BY <1>0, <1>4 DEF FoundDead, Talking
<1>5. CASE ReadEof
  BY <1>0, <1>5 DEF ReadEof, Talking
<1>6. CASE ReadCommand
  BY <1>0, <1>6 DEF ReadCommand, Talking
<1>7. CASE CheckPeripherals
  BY <1>7 DEF CheckPeripherals
<1>8. CASE CloseOne
  <2>1. cur + 1 \in 1 .. NumPerphs + 1
    BY <1>8 DEF CloseOne
  <2> QED BY <1>8, <2>1 DEF CloseOne
<1>9. CASE WaitForExit
  BY <1>0, <1>9 DEF WaitForExit
<1>10. CASE CloseNext
  BY <1>10 DEF CloseNext
<1>11. CASE OpenFails
  BY <1>11 DEF OpenFails
<1>12. CASE Executed \/ Terminal
  <2>1. /\ pc' \in {"check", "run"} /\ cur' = 1 /\ during' = "check" /\ owed' = owed
        /\ ready' = {} /\ launched' = launched /\ break_now' \in {FALSE, break_now}
    BY <1>12 DEF Executed, Terminal, AfterInstruction
  <2>2. 1 \in 1 .. NumPerphs + 1
    OBVIOUS
  <2> QED BY <2>1, <2>2
<1>13. CASE Finish
  BY <1>13 DEF Finish
<1>14. CASE UNCHANGED simVars
  BY <1>14 DEF simVars
<1>15. (\E p \in Peripherals : Process(p) \/ ExecFails(p) \/ Dies(p)) => UNCHANGED simVars
  BY DEF Process, Exec, ChildExits, TakeStart, TakeReply, TakeData, TakeKill, ExecFails, Dies
<1>16. UNCHANGED vars => UNCHANGED simVars
  BY DEF vars
<1>17. CASE Execute
  <2>1. owed' \in Seq(Peripherals) /\ Len(owed') <= MaxNotes
    BY <1>17, SizeOfNotes
  <2> QED BY <1>17, <2>1 DEF Execute
<1>18. CASE Notify
  <2>1. owed' \in Seq(Peripherals) /\ Len(owed') <= MaxNotes
    BY <1>18, HeadTailProperties DEF Notify
  <2> QED BY <1>18, <2>1 DEF Notify
<1> QED BY <1>1, <1>2, <1>3, <1>4, <1>5, <1>6, <1>7, <1>8, <1>9, <1>10, <1>11, <1>12, <1>13,
           <1>14, <1>15, <1>16, <1>17, <1>18
        DEF Next, Simulator, Conversation, Shutdown, Terminated
(***************************************************************************)
(* Nothing but the steps below touches the processes or the pipes.         *)
(***************************************************************************)
SimulatorOnly == Launch \/ SendStart \/ ReadEof \/ ReadCommand \/ CloseOne \/ Notify

LEMMA OtherSteps ==
    ASSUME [Next]_vars, ~SimulatorOnly, ~\E p \in Peripherals : Process(p) \/ ExecFails(p) \/ Dies(p)
    PROVE  UNCHANGED <<listenerVars, live, proc, down, up, todo>>
  BY DEF Next, Simulator, SimulatorOnly, Conversation, Shutdown, Terminated, vars, pipeVars, RunProgram,
     FoundDead, CheckPeripherals, WaitForExit, CloseNext, OpenFails, Execute, Executed, Terminal,
     AfterInstruction, Finish

LEMMA Notifies ==
    ASSUME TypeOK, Positions, Notify
    PROVE  /\ Head(owed) \in launched /\ Owns(Head(owed)) /\ Head(owed) \in Peripherals
           /\ Send(Head(owed), <<"DATA">>)
           /\ <<"DATA">> \in Seq(Messages) /\ "DATA" \in Commands
           /\ pc = "store" /\ UNCHANGED <<pc, cur, launched, proc, up, todo>>
<1>1. owed \in Seq(Peripherals) /\ owed # <<>> /\ launched \subseteq Peripherals
  BY DEF Notify, TypeOK
<1>2. Head(owed) = owed[1] /\ 1 \in 1 .. Len(owed)
  BY <1>1, HeadTailProperties
<1>3. Head(owed) \in launched /\ Owns(Head(owed))
  BY <1>2 DEF Positions, OwedOwners
<1>4. <<"DATA">> \in Seq(Messages) /\ "DATA" \in Commands
  BY DEF Messages, Commands
<1> QED BY <1>1, <1>3, <1>4 DEF Notify

Asked(p) == UNCHANGED todo \/ (todo[p] > 0 /\ todo' = [todo EXCEPT ![p] = @ - 1])

LEMMA NextKeepsProcessTypes ==
    ASSUME TypeOK, Positions, [Next]_vars
    PROVE  ProcessTypes'
<1>0. ProcessTypes /\ PipeTypes /\ ControlTypes
  BY TypeParts
<1> USE SessionAssumption
<1>1. CASE Launch
  BY <1>0, <1>1 DEF Launch, ProcessTypes, ControlTypes
<1>2. CASE SendStart
  <2>1. <<"START">> \in Seq(Messages)
    BY DEF Messages, Commands
  <2>2. cur \in Peripherals
    BY <1>0, <1>2 DEF SendStart, Positions, Talking, ControlTypes
  <2> QED BY <1>0, <1>2, <2>1, <2>2, Sends DEF SendStart, ProcessTypes
<1>3. CASE ReadEof
  BY <1>0, <1>3 DEF ReadEof, ProcessTypes
<1>4. CASE ReadCommand
  <2>1. cur \in Peripherals
    BY <1>0, <1>4 DEF ReadCommand, Positions, Talking, ControlTypes
  <2>2. live' \in [Peripherals -> BOOLEAN]
    <3>1. CASE Handle(Head(up[cur]))
      <4>1. PICK reply \in ReplyCodes : Send(cur, Answer(Head(up[cur]), reply))
        BY <3>1 DEF Handle
      <4> QED BY <2>1, <4>1, AnswerMessages, Sends
    <3>2. CASE UNCHANGED live
      BY <1>0, <3>2 DEF ProcessTypes
    <3> QED BY <1>4, <3>1, <3>2 DEF ReadCommand
  <2> QED BY <1>0, <1>4, <2>2 DEF ReadCommand, ProcessTypes
<1>5. CASE CloseOne
  <2>1. <<"KILL">> \in Seq(Messages)
    BY DEF Messages, Commands
  <2>2. cur \in Peripherals
    BY <1>0, <1>5 DEF CloseOne, ControlTypes
  <2>3. CASE live[cur]
    BY <1>0, <1>5, <2>1, <2>2, <2>3, Sends DEF CloseOne, ProcessTypes
  <2>4. CASE ~live[cur]
    BY <1>0, <1>5, <2>4 DEF CloseOne, ProcessTypes
  <2> QED BY <2>3, <2>4
<1>6. CASE Notify
  <2>1. live' \in [Peripherals -> BOOLEAN] /\ UNCHANGED <<proc, todo>>
    BY <1>6, Notifies, Sends
  <2> QED BY <1>0, <2>1 DEF ProcessTypes
<1>7. ASSUME NEW p \in Peripherals, Process(p) \/ ExecFails(p) \/ Dies(p)
      PROVE  ProcessTypes'
  <2> DEFINE Changed == proc' = [proc EXCEPT ![p] = proc'[p]] /\ proc'[p] \in Running
  <2>a. Ask(p) => Asked(p)
    BY DEF Ask, Asked
  <2>0. Ask(p) => Changed
    <3>1. ASSUME NEW req \in Requests, Become(p, IF req = BREAK THEN "await" ELSE "reply")
          PROVE  Changed
      BY <1>0, <3>1 DEF Become, Running, ProcessTypes
    <3>2. Become(p, "final") => Changed
      BY <1>0 DEF Become, Running, ProcessTypes
    <3> HIDE DEF Changed
    <3> QED BY <3>1, <3>2 DEF Ask
  <2>1. \E what \in Running \cup {"failing", "exited"} : proc' = [proc EXCEPT ![p] = what]
    <3>1. CASE TakeStart(p)
      BY <2>0, <3>1 DEF TakeStart
    <3>2. CASE TakeData(p)
      BY <1>0, <3>2 DEF TakeData, Receives, ProcessTypes, Running
    <3> QED BY <1>7, <3>1, <3>2 DEF Process, Exec, ChildExits, TakeReply, TakeKill,
                                    ExecFails, Dies, Become, Running
  <2>2. proc' \in [Peripherals -> Running \cup {"none", "forked", "failing", "exited"}]
    BY <1>0, <2>1 DEF ProcessTypes
  <2>3. Asked(p)
    <3>1. UNCHANGED todo => Asked(p)
      BY DEF Asked
    <3> QED BY <1>7, <2>a, <3>1 DEF Process, Exec, ChildExits, TakeStart, TakeReply, TakeData, TakeKill,
                                    ExecFails, Dies, pipeVars
  <2>4. todo' \in [Peripherals -> 0 .. MaxRequests]
    BY <1>0, <2>3 DEF ProcessTypes, Asked
  <2>5. UNCHANGED live \/ live' = [live EXCEPT ![p] = FALSE]
    BY <1>7 DEF Process, Exec, ChildExits, TakeStart, TakeReply, TakeData, TakeKill, ExecFails, Dies
  <2>6. live' \in [Peripherals -> BOOLEAN]
    BY <1>0, <2>5 DEF ProcessTypes
  <2> QED BY <2>2, <2>4, <2>6 DEF ProcessTypes
<1>8. CASE UNCHANGED <<listenerVars, live, proc, down, up, todo>>
  BY <1>0, <1>8 DEF ProcessTypes
<1> QED BY <1>1, <1>2, <1>3, <1>4, <1>5, <1>6, <1>7, <1>8, OtherSteps DEF SimulatorOnly

LEMMA NextKeepsPipeTypes ==
    ASSUME TypeOK, Positions, [Next]_vars
    PROVE  PipeTypes'
<1>0. ProcessTypes /\ PipeTypes /\ ControlTypes
  BY TypeParts
<1> USE SessionAssumption
<1>1. CASE UNCHANGED <<down, up>>
  BY <1>0, <1>1 DEF PipeTypes
<1>2. CASE SendStart
  <2>1. <<"START">> \in Seq(Messages)
    BY DEF Messages, Commands
  <2>2. cur \in Peripherals
    BY <1>0, <1>2 DEF SendStart, Positions, Talking, ControlTypes
  <2> QED BY <1>0, <1>2, <2>1, <2>2, Sends DEF SendStart, PipeTypes
<1>3. CASE ReadCommand
  <2>1. cur \in Peripherals
    BY <1>0, <1>3 DEF ReadCommand, Positions, Talking, ControlTypes
  <2>2. /\ down' \in [Peripherals -> Seq(Messages)]
        /\ \A p \in Peripherals : Len(down'[p]) <= PipeCap
    <3>1. CASE Handle(Head(up[cur]))
      <4>1. PICK reply \in ReplyCodes : Send(cur, Answer(Head(up[cur]), reply))
        BY <3>1 DEF Handle
      <4> QED BY <2>1, <4>1, AnswerMessages, Sends
    <3>2. CASE UNCHANGED down
      BY <1>0, <3>2 DEF PipeTypes
    <3> QED BY <1>3, <3>1, <3>2 DEF ReadCommand
  <2>3. up' \in [Peripherals -> Seq(Requests \cup {READY, TORN})]
    BY <1>0, <1>3, <2>1, HeadTailProperties DEF ReadCommand, PipeTypes
  <2> QED BY <2>2, <2>3 DEF PipeTypes
<1>4. CASE CloseOne
  <2>1. <<"KILL">> \in Seq(Messages)
    BY DEF Messages, Commands
  <2>2. cur \in Peripherals
    BY <1>0, <1>4 DEF CloseOne, ControlTypes
  <2>3. CASE live[cur]
    BY <1>0, <1>4, <2>1, <2>2, <2>3, Sends DEF CloseOne, PipeTypes
  <2>4. CASE ~live[cur]
    BY <1>1, <1>4, <2>4 DEF CloseOne
  <2> QED BY <2>3, <2>4
<1>5. CASE Notify
  BY <1>0, <1>5, Notifies, Sends DEF PipeTypes
<1>6. ASSUME NEW p \in Peripherals, Receives(p, Running, Messages), Take(p),
             UNCHANGED up \/ \E req \in Requests \cup {READY, TORN} : up' = [up EXCEPT ![p] = Append(@, req)]
      PROVE  PipeTypes'
  <2>1. /\ down' \in [Peripherals -> Seq(Messages)]
        /\ \A q \in Peripherals : Len(down'[q]) <= PipeCap
    BY <1>6, Takes DEF Receives
  <2>2. up' \in [Peripherals -> Seq(Requests \cup {READY, TORN})]
    BY <1>0, <1>6, Appends DEF PipeTypes
  <2> QED BY <2>1, <2>2 DEF PipeTypes
<1>7. ASSUME NEW p \in Peripherals, Process(p) \/ ExecFails(p) \/ Dies(p)
      PROVE  PipeTypes'
  <2>1. \/ UNCHANGED <<down, up>>
        \/ /\ Receives(p, Running, Messages) /\ Take(p)
           /\ UNCHANGED up \/ \E req \in Requests \cup {READY, TORN} : up' = [up EXCEPT ![p] = Append(@, req)]
    BY <1>7 DEF Process, Exec, ChildExits, TakeStart, Ask, TakeReply, TakeData, TakeKill,
                ExecFails, Dies, Receives, Running, Messages, Commands, pipeVars
  <2> QED BY <1>1, <1>6, <1>7, <2>1
<1> QED BY <1>1, <1>2, <1>3, <1>4, <1>5, <1>7, OtherSteps DEF SimulatorOnly, Launch, ReadEof, pipeVars

LEMMA NextKeepsTypes ==
    ASSUME TypeOK, TablesInv, Positions, [Next]_vars
    PROVE  TypeOK'
<1>1. ControlTypes /\ ListenersTypeOK'
  BY StepUsesTables, NextKeepsTables, TypeParts DEF TablesInv
<1>2. ControlTypes' /\ ProcessTypes' /\ PipeTypes'
  BY <1>1, NextKeepsControlTypes, NextKeepsProcessTypes, NextKeepsPipeTypes
<1> QED BY <1>1, <1>2, TypeParts DEF TypeOK, ControlTypes, ProcessTypes, PipeTypes, Messages
-----------------------------------------------------------------------------
(***************************************************************************)
(* The processes change neither where the simulator is nor what it has     *)
(* seen, and a process that has exited stays so.                           *)
(***************************************************************************)
Processes == \E p \in Peripherals : Process(p) \/ ExecFails(p) \/ Dies(p)

LEMMA ProcessSteps ==
    ASSUME TypeOK, Processes
    PROVE  /\ UNCHANGED <<listenerVars, simVars>>
           /\ \A q \in Peripherals : live'[q] => live[q]
           /\ \A q \in Peripherals : proc[q] = "exited" => proc'[q] = "exited"
           /\ \A q \in Peripherals : proc[q] = "none" => proc'[q] = "none" /\ down'[q] = down[q] /\ up'[q] = up[q]
<1>0. ProcessTypes /\ PipeTypes
  BY TypeParts
<1>1. PICK p \in Peripherals : Process(p) \/ ExecFails(p) \/ Dies(p)
  BY DEF Processes
<1>2. UNCHANGED <<listenerVars, simVars>>
  BY <1>1 DEF Process, Exec, ChildExits, TakeStart, TakeReply, TakeData, TakeKill, ExecFails, Dies
<1>3. UNCHANGED live \/ live' = [live EXCEPT ![p] = FALSE]
  BY <1>1 DEF Process, Exec, ChildExits, TakeStart, TakeReply, TakeData, TakeKill, ExecFails, Dies
<1>4. proc[p] \notin {"exited", "none"}
  BY <1>1 DEF Process, Exec, ChildExits, TakeStart, TakeReply, TakeData, TakeKill,
              ExecFails, Dies, Receives, Running
<1>5. \A q \in Peripherals \ {p} : proc'[q] = proc[q]
  <2>1. \A what : Become(p, what) => \A q \in Peripherals \ {p} : proc'[q] = proc[q]
    BY <1>0 DEF Become, ProcessTypes
  <2>2. UNCHANGED proc \/ \E what : Become(p, what)
    BY <1>1 DEF Process, Exec, ChildExits, TakeStart, Ask, TakeReply, TakeData, TakeKill,
                ExecFails, Dies
  <2> QED BY <2>1, <2>2
<1>6. \A q \in Peripherals \ {p} : down'[q] = down[q]
  <2>1. Take(p) => \A q \in Peripherals \ {p} : down'[q] = down[q]
    BY <1>0 DEF Take, PipeTypes
  <2>2. UNCHANGED down \/ Take(p)
    BY <1>1 DEF Process, Exec, ChildExits, TakeStart, Ask, TakeReply, TakeData, TakeKill,
                ExecFails, Dies, pipeVars
  <2> QED BY <2>1, <2>2
<1>7. \A q \in Peripherals \ {p} : up'[q] = up[q]
  <2>1. \A req : up' = [up EXCEPT ![p] = Append(@, req)] => \A q \in Peripherals \ {p} : up'[q] = up[q]
    BY <1>0 DEF PipeTypes
  <2>2. UNCHANGED up \/ \E req : up' = [up EXCEPT ![p] = Append(@, req)]
    BY <1>1 DEF Process, Exec, ChildExits, TakeStart, Ask, TakeReply, TakeData, TakeKill,
                ExecFails, Dies, pipeVars
  <2> QED BY <2>1, <2>2
<1> QED BY <1>0, <1>2, <1>3, <1>4, <1>5, <1>6, <1>7 DEF ProcessTypes

(***************************************************************************)
(* No step of the simulator brings a peripheral back to life but Launch.   *)
(***************************************************************************)
LEMMA LiveFalls ==
    ASSUME TypeOK, Positions, [Next]_vars, ~Launch
    PROVE  \A q \in Peripherals : live'[q] => live[q]
<1>0. ProcessTypes /\ PipeTypes /\ ControlTypes
  BY TypeParts
<1>1. Talking => cur \in Peripherals
  BY <1>0 DEF Positions, ControlTypes
<1>2. CASE SendStart
  <2>1. <<"START">> \in Seq(Messages)
    BY DEF Messages, Commands
  <2> QED BY <1>1, <1>2, <2>1, Sends DEF SendStart, Talking
<1>3. CASE ReadEof
  BY <1>0, <1>3 DEF ReadEof, ProcessTypes
<1>4. CASE ReadCommand
  <2>1. CASE Handle(Head(up[cur]))
    <3>1. PICK reply \in ReplyCodes : Send(cur, Answer(Head(up[cur]), reply))
      BY <2>1 DEF Handle
    <3> QED BY <1>1, <1>4, <3>1, AnswerMessages, Sends DEF ReadCommand, Talking
  <2> QED BY <1>4, <2>1 DEF ReadCommand
<1>5. CASE CloseOne
  <2>1. <<"KILL">> \in Seq(Messages) /\ cur \in Peripherals
    BY <1>0, <1>5 DEF Messages, Commands, CloseOne, ControlTypes
  <2> QED BY <1>5, <2>1, Sends DEF CloseOne
<1>6. CASE Notify
  BY <1>6, Notifies, Sends
<1>7. CASE Processes
  BY <1>7, ProcessSteps
<1> QED BY <1>2, <1>3, <1>4, <1>5, <1>6, <1>7, OtherSteps DEF SimulatorOnly, Processes

-----------------------------------------------------------------------------
LEMMA NextKeepsPositions ==
    ASSUME TypeOK, Positions, [Next]_vars
    PROVE  Positions'
<1>0. ControlTypes
  BY TypeParts
<1>a. launched \subseteq Peripherals /\ \A p \in Peripherals : p \in Nat
  BY <1>0, SessionAssumption DEF ControlTypes
<1>b. OwedOwners'
  <2>1. OwedOwners
    BY DEF Positions
  <2>2. CASE Execute
    <3>1. PICK n \in 0 .. MaxNotes : owed' \in [1 .. n -> {p \in launched : Owns(p)}]
      BY <2>2 DEF Execute
    <3>2. Len(owed') = n
      BY <1>0, <2>2, <3>1, SizeOfNotes
    <3>3. \A i \in 1 .. Len(owed') : owed'[i] \in {p \in launched : Owns(p)}
      BY <3>1, <3>2
    <3>4. pc' = "store" /\ UNCHANGED <<listenerVars, launched>>
      BY <2>2 DEF Execute, Goto
    <3> QED BY <3>3, <3>4 DEF OwedOwners, Owns, listenerVars, tables, writers
  <2>3. CASE Notify
    <3>1. /\ Len(owed') = Len(owed) - 1 /\ Len(owed) \in Nat
          /\ \A i \in 1 .. Len(owed') : owed'[i] = owed[i + 1]
      BY <1>0, <2>3, HeadTailProperties DEF Notify, ControlTypes
    <3>2. \A i \in 1 .. Len(owed') : i + 1 \in 1 .. Len(owed)
      BY <3>1
    <3>3. pc' = "store" /\ UNCHANGED <<listenerVars, launched>>
      BY <2>3 DEF Notify
    <3> QED BY <2>1, <3>1, <3>2, <3>3 DEF OwedOwners, Owns, listenerVars, tables, writers
  <2>4. CASE ~Execute /\ ~Notify /\ pc = "store"
    <3>1. owed' = owed /\ launched' = launched /\ UNCHANGED listenerVars /\ (pc' = pc \/ owed = <<>>)
      BY <2>4, ProcessSteps DEF Next, Simulator, Conversation, Shutdown, Processes, Terminated, vars, simVars,
         Launch, RunProgram, SendStart, FoundDead, ReadEof, ReadCommand, CheckPeripherals, CloseOne,
         WaitForExit, CloseNext, OpenFails, Executed, Terminal, AfterInstruction, Finish
    <3> QED BY <2>1, <2>4, <3>1 DEF OwedOwners, Owns, listenerVars, tables, writers
  <2>5. CASE ~Execute /\ ~Notify /\ pc # "store"
    <3>1. owed' = owed
      BY <2>5, ProcessSteps DEF Next, Simulator, Conversation, Shutdown, Processes, Terminated, vars, simVars,
         Launch, RunProgram, SendStart, FoundDead, ReadEof, ReadCommand, CheckPeripherals, CloseOne,
         WaitForExit, CloseNext, OpenFails, Executed, Terminal, AfterInstruction, Finish
    <3>2. owed' = <<>> /\ Len(owed') = 0
      BY <2>1, <2>5, <3>1 DEF OwedOwners
    <3> QED BY <3>2 DEF OwedOwners
  <2> QED BY <2>2, <2>3, <2>4, <2>5
<1> USE <1>0, <1>a, <1>b, SessionAssumption DEF Positions, Talking, ControlTypes, Goto, Leave
<1>1. CASE Launch
  BY <1>1 DEF Launch
<1>2. CASE RunProgram
  BY <1>2 DEF RunProgram
<1>3. CASE SendStart
  BY <1>3 DEF SendStart
<1>4. CASE FoundDead
  BY <1>4 DEF FoundDead
<1>5. CASE ReadEof
  BY <1>5 DEF ReadEof
<1>6. CASE ReadCommand
  BY <1>6 DEF ReadCommand
<1>7. CASE CheckPeripherals
  BY <1>7 DEF CheckPeripherals, IsPolled
<1>8. CASE CloseOne
  BY <1>8 DEF CloseOne
<1>9. CASE WaitForExit
  BY <1>9 DEF WaitForExit
<1>10. CASE CloseNext
  BY <1>10 DEF CloseNext
<1>11. CASE OpenFails
  BY <1>11 DEF OpenFails
<1>12. CASE Executed \/ Terminal
  <2>1. pc' \in {"check", "run"} /\ during' = "check"
    BY <1>12 DEF Executed, Terminal, AfterInstruction
  <2> QED BY <2>1
<1>13. CASE Finish
  BY <1>13 DEF Finish
<1>14. CASE UNCHANGED simVars
  BY <1>14 DEF simVars
<1>15. Processes => UNCHANGED simVars
  BY ProcessSteps
<1>16. UNCHANGED vars => UNCHANGED simVars
  BY DEF vars
<1>17. CASE Execute \/ Notify
  <2>1. pc' = "store"
    BY <1>17 DEF Execute, Notify
  <2> QED BY <2>1
<1> QED BY <1>1, <1>2, <1>3, <1>4, <1>5, <1>6, <1>7, <1>8, <1>9, <1>10, <1>11, <1>12, <1>13,
           <1>14, <1>15, <1>16, <1>17
        DEF Next, Simulator, Conversation, Shutdown, Processes, Terminated

LEMMA NextKeepsRounds ==
    ASSUME TypeOK, PolledExact, Positions, Rounds, [Next]_vars
    PROVE  Rounds'
<1>0. ControlTypes /\ ProcessTypes
  BY TypeParts
<1>a. launched \subseteq Peripherals /\ \A p \in Peripherals : p \in Nat
  BY <1>0, SessionAssumption DEF ControlTypes
<1>b. can_write \in [Peripherals -> BOOLEAN]
  BY DEF TypeOK, ListenersTypeOK
<1>c. ~Launch => \A q \in Peripherals : live'[q] => live[q]
  BY LiveFalls
<1>d. UNCHANGED listenerVars => UNCHANGED can_write
  BY DEF listenerVars, writers
<1> USE <1>a, <1>d, SessionAssumption DEF Rounds, LiveMeansReady, Talking, Goto, Leave
<1>1. CASE Launch
  BY <1>0, <1>1 DEF Launch, Positions, ProcessTypes, ControlTypes
<1>2. CASE RunProgram
  BY <1>2 DEF RunProgram, Positions
<1>3. CASE SendStart
  BY <1>0, <1>3, <1>c DEF SendStart, Launch, ControlTypes
<1>4. CASE FoundDead
  BY <1>0, <1>4 DEF FoundDead, Positions, ControlTypes
<1>5. CASE ReadEof
  <2>1. ~live'[cur] /\ \A q \in Peripherals : live'[q] => live[q]
    BY <1>0, <1>5 DEF ReadEof, Positions, ProcessTypes, ControlTypes
  <2> QED BY <1>0, <1>5, <2>1 DEF ReadEof, Positions, ControlTypes
<1>6. CASE ReadCommand
  <2>1. \A q \in Peripherals \ {cur} : can_write'[q] = can_write[q]
    BY <1>6, OthersKeepPolled
  <2>2. /\ pc = "read" /\ UNCHANGED <<during, launched>> /\ ready \subseteq ready'
        /\ \/ pc' = during /\ cur' = cur + 1 /\ cur \in ready'
           \/ pc' = "send" /\ cur' = cur
    BY <1>6 DEF ReadCommand
  <2>3. \A q \in Peripherals : live'[q] => live[q]
    BY <1>6, <1>c DEF Launch, ReadCommand
  <2>4. cur \in launched /\ during \in {"open", "check"}
    BY <1>0, <2>2 DEF Positions, ControlTypes
  <2> QED BY <2>1, <2>2, <2>3, <2>4
<1>7. CASE CheckPeripherals
  BY <1>0, <1>7 DEF CheckPeripherals, IsPolled, Positions, ControlTypes
<1>8. CASE CloseOne \/ WaitForExit \/ CloseNext
  BY <1>8 DEF CloseOne, WaitForExit, CloseNext
<1>9. CASE OpenFails
  BY <1>0, <1>9 DEF OpenFails, Positions, ControlTypes
<1>10. CASE Executed \/ Terminal
  <2>1. /\ pc' = IF perph_write_flag THEN "check" ELSE "run"
        /\ cur' = 1 /\ during' = "check" /\ UNCHANGED can_write
    BY <1>10 DEF Executed, Terminal, AfterInstruction
  <2>2. launched' = launched
    BY <1>10 DEF Executed, Terminal, AfterInstruction
  <2>3. pc' = "run" => \A p \in launched : ~can_write[p]
    BY <2>1 DEF PolledExact
  <2>4. \A p \in launched : ~(p < cur')
    BY <2>1
  <2> QED BY <2>1, <2>2, <2>3, <2>4
<1>11. CASE Finish
  BY <1>11 DEF Finish
<1>12. CASE Processes
  BY <1>12, ProcessSteps DEF simVars
<1>13. CASE UNCHANGED vars
  BY <1>13 DEF vars, simVars
<1>14. CASE Execute \/ Notify
  <2>1. pc' = "store"
    BY <1>14 DEF Execute, Notify
  <2> QED BY <2>1
<1> QED BY <1>1, <1>2, <1>3, <1>4, <1>5, <1>6, <1>7, <1>8, <1>9, <1>10, <1>11, <1>12, <1>13, <1>14
        DEF Next, Simulator, Conversation, Shutdown, Processes, Terminated
LEMMA NextKeepsClosed ==
    ASSUME TypeOK, Positions, Closed, [Next]_vars
    PROVE  Closed'
<1>0. ControlTypes /\ ProcessTypes
  BY TypeParts
<1>a. launched \subseteq Peripherals /\ \A p \in Peripherals : p \in 1 .. NumPerphs
  BY <1>0, SessionAssumption DEF ControlTypes
<1> USE <1>a, SessionAssumption DEF Closed, NoOrphans, Goto, Leave
<1>1. CASE Launch \/ RunProgram \/ SendStart \/ OpenFails
  BY <1>1 DEF Launch, RunProgram, SendStart, OpenFails
<1>2. CASE FoundDead \/ ReadEof \/ ReadCommand
  BY <1>0, <1>2 DEF FoundDead, ReadEof, ReadCommand, ControlTypes
<1>3. CASE CheckPeripherals
  BY <1>3 DEF CheckPeripherals
<1>4. CASE CloseOne
  <2>1. CASE live[cur]
    BY <1>4, <2>1 DEF CloseOne
  <2>2. CASE ~live[cur]
    <3>1. /\ proc' = [proc EXCEPT ![cur] = "exited"] /\ launched' = launched
          /\ pc = "close" /\ pc' = "close" /\ cur' = cur + 1
      BY <1>4, <2>2 DEF CloseOne
    <3>2. \A p \in launched : p < cur + 1 => p < cur \/ p = cur
      BY <1>0 DEF ControlTypes
    <3>3. \A p \in launched : p < cur + 1 => proc'[p] = "exited"
      BY <1>0, <3>1, <3>2 DEF ProcessTypes
    <3> QED BY <3>1, <3>3
  <2> QED BY <2>1, <2>2
<1>5. CASE WaitForExit
  BY <1>0, <1>5 DEF WaitForExit, ControlTypes
<1>6. CASE CloseNext
  <2>1. /\ pc = "close" /\ cur \notin launched /\ UNCHANGED <<launched, proc>>
        /\ pc' = IF cur > NumPerphs THEN "done" ELSE "close"
        /\ cur' = IF cur > NumPerphs THEN 1 ELSE cur + 1
    BY <1>6 DEF CloseNext
  <2>2. \A p \in launched : p # cur /\ (cur > NumPerphs => p < cur) /\ (p < cur + 1 => p < cur)
    BY <1>0, <2>1 DEF ControlTypes
  <2> QED BY <2>1, <2>2
<1>7. CASE Execute \/ Notify \/ Executed \/ Terminal
  <2>1. pc' \in {"store", "check", "run"}
    BY <1>7 DEF Execute, Notify, Executed, Terminal, AfterInstruction
  <2> QED BY <2>1
<1>8. CASE Finish
  <2>1. pc' = "close" /\ cur' = 1 /\ launched' = launched
    BY <1>8 DEF Finish
  <2>2. \A p \in launched : ~(p < 1)
    OBVIOUS
  <2> QED BY <2>1, <2>2
<1>9. CASE Processes
  BY <1>9, ProcessSteps DEF simVars
<1>10. CASE UNCHANGED vars
  BY <1>10 DEF vars, simVars
<1> QED BY <1>1, <1>2, <1>3, <1>4, <1>5, <1>6, <1>7, <1>8, <1>9, <1>10
        DEF Next, Simulator, Conversation, Shutdown, Processes, Terminated

LEMMA NextKeepsIdle ==
    ASSUME TypeOK, Positions, Idle, [Next]_vars
    PROVE  Idle'
<1>0. ControlTypes /\ ProcessTypes /\ PipeTypes
  BY TypeParts
<1> SUFFICES ASSUME NEW q \in Peripherals, q \notin launched'
             PROVE  proc'[q] = "none" /\ down'[q] = <<>> /\ up'[q] = <<>>
  BY DEF Idle
<1>a. launched \subseteq launched'
  <2>1. CASE Launch
    BY <2>1 DEF Launch
  <2>2. CASE ~Launch
    BY <2>2, ProcessSteps DEF Next, Simulator, Conversation, Shutdown, Terminated, vars, RunProgram,
         SendStart, FoundDead, ReadEof, ReadCommand, CheckPeripherals, CloseOne, WaitForExit,
         CloseNext, OpenFails, Execute, Notify, Executed, Terminal, AfterInstruction, Finish, Processes, simVars
  <2> QED BY <2>1, <2>2
<1>b. q \notin launched /\ proc[q] = "none" /\ down[q] = <<>> /\ up[q] = <<>>
  BY <1>a DEF Idle
<1>c. Talking => q # cur /\ cur \in Peripherals
  BY <1>0, <1>b DEF Positions, ControlTypes
<1>1. CASE Launch
  BY <1>0, <1>1, <1>b DEF Launch, ProcessTypes, pipeVars
<1>2. CASE SendStart
  <2>1. <<"START">> \in Seq(Messages)
    BY DEF Messages, Commands
  <2> QED BY <1>2, <1>b, <1>c, <2>1, Sends DEF SendStart, Talking
<1>3. CASE ReadEof
  BY <1>3, <1>b DEF ReadEof, pipeVars
<1>4. CASE ReadCommand
  <2>1. down'[q] = down[q]
    <3>1. CASE Handle(Head(up[cur]))
      <4>1. PICK reply \in ReplyCodes : Send(cur, Answer(Head(up[cur]), reply))
        BY <3>1 DEF Handle
      <4> QED BY <1>4, <1>c, <4>1, AnswerMessages, Sends DEF ReadCommand, Talking
    <3> QED BY <1>4, <3>1 DEF ReadCommand
  <2>2. up'[q] = up[q]
    BY <1>0, <1>4, <1>c DEF ReadCommand, Talking, PipeTypes
  <2> QED BY <1>4, <1>b, <2>1, <2>2 DEF ReadCommand
<1>5. CASE CloseOne
  <2>1. <<"KILL">> \in Seq(Messages) /\ cur \in Peripherals /\ q # cur
    BY <1>0, <1>5, <1>b DEF Messages, Commands, CloseOne, ControlTypes
  <2>2. proc'[q] = proc[q]
    BY <1>0, <1>5, <2>1 DEF CloseOne, ProcessTypes
  <2>3. down'[q] = down[q]
    BY <1>5, <2>1, Sends DEF CloseOne
  <2> QED BY <1>5, <1>b, <2>2, <2>3 DEF CloseOne
<1>6. CASE Notify
  <2>1. q # Head(owed) /\ UNCHANGED <<proc, up>>
    BY <1>6, <1>b, Notifies
  <2> QED BY <1>6, <1>b, <2>1, Notifies, Sends
<1>7. CASE Processes
  BY <1>7, <1>b, ProcessSteps
<1> QED BY <1>1, <1>2, <1>3, <1>4, <1>5, <1>6, <1>7, <1>b, OtherSteps DEF SimulatorOnly, Processes
-----------------------------------------------------------------------------
(***************************************************************************)
(* The conversation.  A pair that a step does not touch keeps its place,   *)
(* and a command may be sent to a peripheral with which no conversation is *)
(* going on.                                                               *)
(***************************************************************************)
LEMMA TalkStays ==
    ASSUME NEW q, Talk(q), UNCHANGED <<proc[q], down[q], up[q]>>, Reading(q) => Reading(q)'
    PROVE  Talk(q)'
  BY DEF Talk, Stray, Alive, RequestOut, ReplyFirst, StartIsLast

LEMMA TalkEnds ==
    ASSUME NEW q, Talk(q), proc'[q] \in {"failing", "exited"}, UNCHANGED up[q],
           Reading(q) => Reading(q)'
    PROVE  Talk(q)'
  BY DEF Talk, Stray, Alive

LEMMA TalkAfterCommand ==
    ASSUME TypeOK, NEW q \in Peripherals, NEW cmd \in Commands, Talk(q), ~Reading(q),
           down'[q] = down[q] \o <<cmd>>, UNCHANGED <<proc[q], up[q]>>,
           cmd = "START" => Reading(q)'
    PROVE  Talk(q)'
<1>1. up[q] = <<>> /\ Alive(q)' = Alive(q)
  BY DEF Talk, Stray, Alive
<1>2. CASE ~Alive(q)
  BY <1>1, <1>2 DEF Talk, Stray
<1>3. CASE Alive(q)
  <2>1. /\ Len(down'[q]) = Len(down[q]) + 1 /\ Len(down[q]) \in Nat
        /\ \A i \in 1 .. Len(down[q]) : down'[q][i] = down[q][i]
        /\ down'[q][Len(down[q]) + 1] = cmd
    <3>1. down[q] \in Seq(Messages) /\ <<cmd>> \in Seq(Messages)
      BY DEF TypeOK, Messages
    <3> QED BY <3>1, ConcatProperties
  <2>2. \A i \in 1 .. Len(down[q]) : down[q][i] # "START"
    BY <1>3 DEF Talk, StartIsLast
  <2>3. StartIsLast(q)'
    BY <1>1, <2>1, <2>2 DEF StartIsLast
  <2>4. ReplyFirst(q)
    BY <1>1, <1>3 DEF Talk
  <2>5. CASE proc[q] \in {"reply", "final"}
    <3>1. Len(down[q]) >= 1
      BY <2>1, <2>4, <2>5, EmptySeq DEF ReplyFirst, TypeOK, Messages
    <3>2. down'[q] # <<>>
      BY <2>1
    <3> QED BY <1>1, <2>1, <2>3, <2>4, <2>5, <3>1, <3>2 DEF Talk, Stray, ReplyFirst
  <2>6. CASE proc[q] \notin {"reply", "final"}
    BY <1>1, <2>1, <2>3, <2>4, <2>6 DEF Talk, Stray, ReplyFirst
  <2> QED BY <2>5, <2>6
<1> QED BY <1>2, <1>3

(***************************************************************************)
(* Handling the request of a peripheral answers it, or takes a BREAK.      *)
(***************************************************************************)
LEMMA ReplyCodesAreNotCommands == ReplyCodes \cap Commands = {}
  BY DEF ReplyCodes, SetReplies, Commands

LEMMA TalkAfterRead ==
    ASSUME TypeOK, Positions, NEW q \in Peripherals, Talk(q), ReadCommand, q = cur
    PROVE  Talk(q)'
<1>0. ProcessTypes /\ PipeTypes
  BY TypeParts
<1>1. up[q] # <<>> /\ Len(up[q]) = 1 /\ proc'[q] = proc[q]
  BY DEF ReadCommand, Talk, Stray
<1>2. up'[q] = <<>> /\ Head(up[q]) = up[q][1]
  <2>1. Len(Tail(up[q])) = 0 /\ Tail(up[q]) \in Seq(Requests \cup {READY, TORN})
    BY <1>0, <1>1, HeadTailProperties DEF PipeTypes
  <2>2. Tail(up[q]) = <<>>
    BY <2>1, EmptySeq
  <2>3. up'[q] = Tail(up[q])
    BY <1>0 DEF ReadCommand, PipeTypes
  <2> QED BY <1>0, <1>1, <2>2, <2>3 DEF PipeTypes
<1>3. CASE ~Alive(q)
  BY <1>1, <1>2, <1>3 DEF Talk, Stray, Alive
<1>4. CASE Alive(q)
  <2>1. RequestOut(q)
    BY <1>1, <1>4 DEF Talk
  <2>2. CASE proc[q] = "await"
    <3>1. down'[q] = <<>>
      BY <1>2, <2>1, <2>2 DEF ReadCommand, RequestOut
    <3> QED BY <1>1, <1>2, <2>2, <3>1 DEF Talk, Stray, ReplyFirst, StartIsLast
  <2>3. CASE proc[q] \in {"reply", "final"}
    <3>1. PICK reply \in ReplyCodes : Send(q, Answer(Head(up[q]), reply))
      BY <1>2, <2>1, <2>3 DEF ReadCommand, Handle, RequestOut
    <3> DEFINE answer == Answer(Head(up[q]), reply)
    <3>2. /\ answer \in Seq(Messages) /\ answer # <<>> /\ answer[1] = reply
          /\ \A i \in 2 .. Len(answer) : answer[i] = "DATA"
      BY AnswerMessages
    <3>3. down'[q] = down[q] \o answer
      BY <2>3, <3>1, <3>2, Sends
    <3> HIDE DEF answer
    <3>4. down'[q] = answer
      BY <2>1, <3>2, <3>3 DEF RequestOut
    <3>5. \A i \in 1 .. Len(answer) : answer[i] # "START"
      <4>1. \A i \in 1 .. Len(answer) : i = 1 \/ i \in 2 .. Len(answer)
        BY <3>2
      <4>2. reply # "START"
        BY ReplyCodesAreNotCommands DEF Commands
      <4> QED BY <3>2, <4>1, <4>2
    <3>6. ReplyFirst(q)'
      BY <1>1, <2>3, <3>2, <3>4 DEF ReplyFirst, Commands
    <3> QED BY <1>2, <3>4, <3>5, <3>6 DEF Talk, Stray, StartIsLast
  <2> QED BY <2>1, <2>2, <2>3 DEF RequestOut, Running
<1> QED BY <1>3, <1>4

(***************************************************************************)
(* What the peripheral does with the messages it takes.                    *)
(***************************************************************************)
LEMMA TalkAfterTakeStart ==
    ASSUME TypeOK, NEW q \in Peripherals, Talk(q), Receives(q, {"await"}, {"START"}), Take(q)
    PROVE  Reading(q) /\ up[q] = <<>> /\ down'[q] = <<>>
<1>0. PipeTypes
  BY TypeParts
<1>1. proc[q] = "await" /\ down[q] # <<>> /\ down[q][1] = "START" /\ Len(down[q]) \in Nat \ {0}
  BY <1>0 DEF Receives, PipeTypes
<1>2. up[q] = <<>> /\ Reading(q) /\ Len(down[q]) = 1
  <2>1. (IF up[q] # <<>> THEN RequestOut(q) ELSE ReplyFirst(q)) /\ StartIsLast(q)
    BY <1>1 DEF Talk, Alive
  <2>2. 1 \in 1 .. Len(down[q])
    BY <1>1
  <2> QED BY <1>1, <2>1, <2>2 DEF RequestOut, StartIsLast
<1>3. down'[q] \in Seq(Messages) /\ Len(down'[q]) = 0
  BY <1>1, <1>2, Takes
<1> QED BY <1>2, <1>3

LEMMA TalkAfterTake ==
    ASSUME TypeOK, NEW q \in Peripherals, Talk(q), down[q] # <<>>, Alive(q), Take(q),
           proc'[q] = "await", UNCHANGED up, Reading(q) => Reading(q)'
    PROVE  Talk(q)'
<1>0. PipeTypes /\ Len(down[q]) \in Nat
  BY TypeParts DEF PipeTypes
<1>1. up[q] = <<>> /\ ReplyFirst(q) /\ StartIsLast(q)
  BY DEF Talk, RequestOut
<1>2. /\ Len(down'[q]) = Len(down[q]) - 1
      /\ \A i \in 1 .. Len(down'[q]) : down'[q][i] = down[q][i + 1]
  BY Takes
<1>3. \A i \in 1 .. Len(down'[q]) : down'[q][i] \in Commands
  BY <1>0, <1>1, <1>2 DEF ReplyFirst
<1>4. StartIsLast(q)'
  BY <1>0, <1>1, <1>2 DEF StartIsLast
<1> QED BY <1>1, <1>3, <1>4 DEF Talk, Stray, ReplyFirst
-----------------------------------------------------------------------------
LEMMA NextKeepsTalks ==
    ASSUME TypeOK, Positions, Idle, Talks, [Next]_vars
    PROVE  Talks'
<1>0. ControlTypes /\ ProcessTypes /\ PipeTypes
  BY TypeParts
<1> SUFFICES ASSUME NEW q \in Peripherals PROVE Talk(q)'
  BY DEF Talks
<1>a. Talk(q)
  BY DEF Talks
<1>b. Talking => cur \in launched /\ cur \in Peripherals
  BY <1>0 DEF Positions, ControlTypes
<1>1. CASE Launch
  <2>1. CASE q = cur
    <3>1. pc = "open" /\ ~Reading(q) /\ q \notin launched
      BY <1>0, <1>1, <2>1, SessionAssumption DEF Launch, Reading, Positions, ControlTypes
    <3>2. down'[q] = <<>> /\ up'[q] = <<>> /\ proc'[q] = "forked"
      BY <1>0, <1>1, <2>1, <3>1 DEF Launch, Idle, ProcessTypes, pipeVars
    <3> QED BY <3>2 DEF Talk, Stray, ReplyFirst, StartIsLast
  <2>2. CASE q # cur
    BY <1>0, <1>1, <1>a, <2>2, TalkStays DEF Launch, Reading, ProcessTypes, pipeVars
  <2> QED BY <2>1, <2>2
<1>2. CASE SendStart
  <2>1. <<"START">> \in Seq(Messages) /\ "START" \in Commands
    BY DEF Messages, Commands
  <2>2. /\ pc = "send" /\ pc' = "read" /\ cur' = cur /\ Send(cur, <<"START">>)
        /\ UNCHANGED <<proc, up>> /\ cur \in Peripherals /\ ~Reading(q)
    BY <1>2, <1>b DEF SendStart, Goto, Talking, Reading
  <2>3. CASE q # cur \/ proc[q] = "exited"
    <3>1. down'[q] = down[q]
      BY <2>1, <2>2, <2>3, Sends
    <3> QED BY <1>a, <2>2, <3>1, TalkStays
  <2>4. CASE q = cur /\ proc[q] # "exited"
    <3>1. down'[q] = down[q] \o <<"START">> /\ Reading(q)'
      BY <2>1, <2>2, <2>4, Sends DEF Reading
    <3> QED BY <1>a, <2>1, <2>2, <3>1, TalkAfterCommand
  <2> QED BY <2>3, <2>4
<1>3. CASE ReadEof
  <2>1. CASE q = cur
    BY <1>3, <2>1 DEF ReadEof, pipeVars, Talk, Stray, Alive
  <2>2. CASE q # cur
    BY <1>3, <1>a, <2>2, TalkStays DEF ReadEof, pipeVars, Reading
  <2> QED BY <2>1, <2>2
<1>4. CASE ReadCommand
  <2>1. CASE q = cur
    BY <1>4, <1>a, <2>1, TalkAfterRead
  <2>2. CASE q # cur
    <3>1. down'[q] = down[q]
      <4>1. CASE Handle(Head(up[cur]))
        <5>1. PICK reply \in ReplyCodes : Send(cur, Answer(Head(up[cur]), reply))
          BY <4>1 DEF Handle
        <5> QED BY <1>4, <1>b, <2>2, <5>1, AnswerMessages, Sends DEF ReadCommand, Talking
      <4> QED BY <1>4, <4>1 DEF ReadCommand
    <3>2. up'[q] = up[q]
      BY <1>0, <1>4, <1>b, <2>2 DEF ReadCommand, Talking, PipeTypes
    <3> QED BY <1>4, <1>a, <2>2, <3>1, <3>2, TalkStays DEF ReadCommand, Reading
  <2> QED BY <2>1, <2>2
<1>5. CASE CloseOne
  <2>1. /\ <<"KILL">> \in Seq(Messages) /\ "KILL" \in Commands /\ "KILL" # "START"
        /\ cur \in Peripherals /\ pc = "close" /\ ~Reading(q) /\ UNCHANGED up
    BY <1>0, <1>5 DEF Messages, Commands, CloseOne, Reading, ControlTypes
  <2>2. CASE live[cur]
    <3>1. Send(cur, <<"KILL">>) /\ UNCHANGED proc
      BY <1>5, <2>2 DEF CloseOne
    <3>2. CASE q # cur \/ proc[q] = "exited"
      <4>1. down'[q] = down[q]
        BY <2>1, <3>1, <3>2, Sends
      <4> QED BY <1>a, <2>1, <3>1, <4>1, TalkStays
    <3>3. CASE q = cur /\ proc[q] # "exited"
      <4>1. down'[q] = down[q] \o <<"KILL">>
        BY <2>1, <3>1, <3>3, Sends
      <4> QED BY <1>a, <2>1, <3>1, <4>1, TalkAfterCommand
    <3> QED BY <3>2, <3>3
  <2>3. CASE ~live[cur]
    <3>1. proc' = [proc EXCEPT ![cur] = "exited"] /\ UNCHANGED down
      BY <1>5, <2>3 DEF CloseOne
    <3>2. CASE q = cur
      <4>1. proc'[q] = "exited"
        BY <1>0, <3>1, <3>2 DEF ProcessTypes
      <4> QED BY <1>a, <2>1, <4>1, TalkEnds
    <3>3. CASE q # cur
      <4>1. proc'[q] = proc[q]
        BY <1>0, <3>1, <3>3 DEF ProcessTypes
      <4> QED BY <1>a, <2>1, <3>1, <4>1, TalkStays
    <3> QED BY <3>2, <3>3
  <2> QED BY <2>2, <2>3
<1>6. CASE Notify
  <2>1. /\ ~Reading(q) /\ UNCHANGED <<proc, up>> /\ Head(owed) \in Peripherals
        /\ Send(Head(owed), <<"DATA">>) /\ <<"DATA">> \in Seq(Messages) /\ "DATA" \in Commands
    BY <1>6, Notifies DEF Reading
  <2>2. CASE q # Head(owed) \/ proc[q] = "exited"
    <3>1. down'[q] = down[q]
      BY <2>1, <2>2, Sends
    <3> QED BY <1>a, <2>1, <3>1, TalkStays
  <2>3. CASE q = Head(owed) /\ proc[q] # "exited"
    <3>1. down'[q] = down[q] \o <<"DATA">> /\ "DATA" # "START"
      BY <2>1, <2>3, Sends
    <3> QED BY <1>a, <2>1, <3>1, TalkAfterCommand
  <2> QED BY <2>2, <2>3
<1>7. ASSUME NEW p \in Peripherals, Process(p) \/ ExecFails(p) \/ Dies(p)
      PROVE  Talk(q)'
  <2>0. /\ Reading(q) => Reading(q)'
        /\ \A what : Become(p, what) => proc'[p] = what /\ (q # p => proc'[q] = proc[q])
    <3>1. UNCHANGED <<pc, cur>>
      BY <1>7, ProcessSteps DEF Processes, simVars
    <3>2. \A what : Become(p, what) => proc'[p] = what /\ (q # p => proc'[q] = proc[q])
      BY <1>0 DEF Become, ProcessTypes
    <3> QED BY <3>1, <3>2 DEF Reading
  <2>1. CASE Exec(p)
    <3>1. UNCHANGED <<down, up>> /\ proc[p] = "forked" /\ proc'[p] = "await" /\ (q # p => proc'[q] = proc[q])
      BY <2>0, <2>1 DEF Exec, pipeVars
    <3>2. CASE q = p
      BY <1>a, <2>0, <3>1, <3>2 DEF Talk, Stray, Alive, RequestOut, ReplyFirst, StartIsLast, Running
    <3>3. CASE q # p
      BY <1>a, <2>0, <3>1, <3>3, TalkStays
    <3> QED BY <3>2, <3>3
  <2>2. CASE ChildExits(p) \/ ExecFails(p) \/ (Dies(p) /\ UNCHANGED pipeVars)
    <3>1. UNCHANGED <<down, up>> /\ proc'[p] \in {"failing", "exited"} /\ (q # p => proc'[q] = proc[q])
      BY <2>0, <2>2 DEF ChildExits, ExecFails, Dies, pipeVars
    <3> QED BY <1>a, <2>0, <3>1, TalkStays, TalkEnds
  <2>3. CASE TakeKill(p)
    <3>1. UNCHANGED up /\ proc'[p] = "exited" /\ (q # p => proc'[q] = proc[q])
      BY <2>0, <2>3 DEF TakeKill
    <3>2. q # p => down'[q] = down[q]
      BY <2>3, Takes DEF TakeKill, Receives
    <3> QED BY <1>a, <2>0, <3>1, <3>2, TalkStays, TalkEnds
  <2>4. CASE TakeReply(p) \/ TakeData(p)
    <3>1. UNCHANGED up /\ proc'[p] = "await" /\ (q # p => proc'[q] = proc[q])
      BY <2>0, <2>4 DEF TakeReply, TakeData, Receives
    <3>2. down[p] # <<>> /\ Take(p) /\ Alive(p)
      BY <2>4 DEF TakeReply, TakeData, Receives, Alive
    <3>3. CASE q = p
      BY <1>a, <2>0, <3>1, <3>2, <3>3, TalkAfterTake
    <3>4. CASE q # p
      BY <1>a, <2>0, <3>1, <3>2, <3>4, Takes, TalkStays
    <3> QED BY <3>3, <3>4
  <2>5. CASE TakeStart(p) \/ (Dies(p) /\ ~UNCHANGED pipeVars)
    <3>1. Receives(p, {"await"}, {"START"}) /\ Take(p) /\ down[p] # <<>>
      BY <2>5 DEF TakeStart, Dies, Receives, pipeVars
    <3>2. CASE q # p
      <4>1. proc'[q] = proc[q] /\ up'[q] = up[q]
        <5>1. \A req : up' = [up EXCEPT ![p] = Append(@, req)] => up'[q] = up[q]
          BY <1>0, <3>2 DEF PipeTypes
        <5> QED BY <2>0, <2>5, <3>2, <5>1 DEF TakeStart, Ask, Dies, pipeVars
      <4> QED BY <1>a, <2>0, <3>1, <3>2, <4>1, Takes, TalkStays
    <3>3. CASE q = p
      <4>1. Reading(q)' /\ up[q] = <<>> /\ down'[q] = <<>>
        BY <1>a, <2>0, <3>1, <3>3, TalkAfterTakeStart
      <4>2. \A req : up' = [up EXCEPT ![p] = Append(@, req)] => up'[q] = <<req>>
        BY <1>0, <3>3, <4>1 DEF PipeTypes
      <4>3. PICK req : /\ up' = [up EXCEPT ![p] = Append(@, req)]
                       /\ \/ proc'[p] = "exited"
                          \/ proc'[p] \in Running /\ (proc'[p] = "await" <=> req = BREAK)
        <5>1. BREAK # READY
          BY DEF BREAK, READY
        <5>2. CASE Dies(p) /\ ~UNCHANGED pipeVars
          BY <2>0, <5>2 DEF Dies, pipeVars
        <5>3. ASSUME NEW req, Become(p, IF req = BREAK THEN "await" ELSE "reply")
              PROVE  proc'[p] \in Running /\ (proc'[p] = "await" <=> req = BREAK)
          BY <2>0, <5>3 DEF Running
        <5>4. Become(p, "final") => proc'[p] \in Running /\ proc'[p] # "await"
          BY <2>0 DEF Running
        <5> QED BY <2>5, <5>1, <5>2, <5>3, <5>4 DEF TakeStart, Ask
      <4>4. up'[q] = <<req>>
        BY <4>2, <4>3
      <4>5. up'[q] # <<>> /\ Len(up'[q]) = 1 /\ up'[q][1] = req
        BY <4>4
      <4>6. Alive(q)' => RequestOut(q)' /\ StartIsLast(q)'
        BY <3>3, <4>1, <4>3, <4>5 DEF Alive, RequestOut, StartIsLast
      <4> QED BY <4>1, <4>5, <4>6 DEF Talk, Stray
    <3> QED BY <3>2, <3>3
  <2> QED BY <1>7, <2>1, <2>2, <2>3, <2>4, <2>5 DEF Process
<1>8. CASE ~SimulatorOnly /\ ~Processes
  <2>1. UNCHANGED <<proc, down, up>>
    BY <1>8, OtherSteps DEF Processes
  <2>2. pc = "read" => UNCHANGED <<pc, cur>>
    BY <1>8 DEF Next, Simulator, SimulatorOnly, Conversation, Shutdown, Processes, Terminated, vars, simVars,
       RunProgram, FoundDead, CheckPeripherals, WaitForExit, CloseNext, OpenFails, Execute, Executed, Terminal, Finish
  <2> QED BY <1>a, <2>1, <2>2, TalkStays DEF Reading
<1> QED BY <1>1, <1>2, <1>3, <1>4, <1>5, <1>6, <1>7, <1>8 DEF SimulatorOnly, Processes

-----------------------------------------------------------------------------
LEMMA NextKeepsSession == SessionInv /\ [Next]_vars => SessionInv'
<1> SUFFICES ASSUME SessionInv, [Next]_vars PROVE SessionInv'
  OBVIOUS
<1> USE DEF SessionInv, SimInv
<1>1. TypeOK' /\ TablesInv' /\ PolledExact'
  BY NextKeepsTypes, StepUsesTables, NextKeepsTables, NextKeepsPolled
<1>2. Positions' /\ Rounds' /\ Closed' /\ Idle' /\ Talks'
  BY NextKeepsPositions, NextKeepsRounds, NextKeepsClosed, NextKeepsIdle, NextKeepsTalks
<1> QED BY <1>1, <1>2

(***************************************************************************)
(* SessionInv always holds: the counterpart of TablesCorrect for the       *)
(* simulator and its processes together.                                   *)
(***************************************************************************)
THEOREM SessionsCorrect == Spec => []SessionInv
  BY InitSession, NextKeepsSession, PTL DEF Spec

(***************************************************************************)
(* Type correctness; in particular no pipe ever holds more than it can,    *)
(* for the simulator waits before it writes (sendMessage).                 *)
(***************************************************************************)
THEOREM SessionTypeCorrect == Spec => []TypeOK
<1>1. SessionInv => TypeOK
  BY DEF SessionInv
<1> QED BY <1>1, SessionsCorrect, PTL

(***************************************************************************)
(* Every message is taken for what it is: a peripheral that waits for a    *)
(* reply finds a reply at the head of its pipe, one that waits for a       *)
(* command finds START, KILL or a notification.                            *)
(***************************************************************************)
THEOREM MessagesFramed == Spec => []Framed
<1>1. SessionInv => Framed
  <2> SUFFICES ASSUME SessionInv, NEW p \in Peripherals, down[p] # <<>>
               PROVE  /\ proc[p] \in {"reply", "final"} => Head(down[p]) \in ReplyCodes
                      /\ proc[p] = "await" => Head(down[p]) \in Commands
    BY DEF Framed
  <2>1. Head(down[p]) = down[p][1] /\ 1 \in 1 .. Len(down[p])
    BY EmptySeq DEF SessionInv, TypeOK
  <2>2. Alive(p) => ReplyFirst(p)
    BY DEF SessionInv, SimInv, Talks, Talk, RequestOut
  <2> QED BY <2>1, <2>2 DEF Alive, ReplyFirst
<1> QED BY <1>1, SessionsCorrect, PTL

(***************************************************************************)
(* readCommand and startPeripheral leave no request behind: a request is   *)
(* in a pipe only while the simulator reads from that pipe.                *)
(***************************************************************************)
THEOREM NoRequestLeft == Spec => []NoStrayRequest
<1>1. SessionInv => NoStrayRequest
  BY DEF SessionInv, SimInv, Talks, Talk, Stray, Reading, NoStrayRequest
<1> QED BY <1>1, SessionsCorrect, PTL

(***************************************************************************)
(* No instruction runs before every peripheral it depends on has said      *)
(* READY or is known to be dead.                                           *)
(***************************************************************************)
THEOREM RunsWhenReady == Spec => []LiveMeansReady
<1>1. SessionInv => LiveMeansReady
  BY DEF SessionInv, SimInv, Rounds
<1> QED BY <1>1, SessionsCorrect, PTL

(***************************************************************************)
(* closePeripherals returns only when every launched process has exited.   *)
(***************************************************************************)
THEOREM LeavesNoOrphans == Spec => []NoOrphans
<1>1. SessionInv => NoOrphans
  BY DEF SessionInv, SimInv, Closed
<1> QED BY <1>1, SessionsCorrect, PTL

(***************************************************************************)
(* The composition uses the listener tables only through the handlers, so  *)
(* whatever the processes do, whichever of them die, the tables implement  *)
(* single ownership.                                                       *)
(***************************************************************************)
THEOREM SessionsUseTables == Spec => ListenersSpec
<1>1. Init => ListenersInit
  BY DEF Init
<1>2. SessionInv /\ [Next]_vars => [ListenersNext]_listenerVars
  BY StepUsesTables DEF SessionInv, SimInv
<1> QED BY <1>1, <1>2, SessionsCorrect, PTL DEF Spec, ListenersSpec
=============================================================================
