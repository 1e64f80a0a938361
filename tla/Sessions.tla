------------------------------- MODULE Sessions -------------------------------
(***************************************************************************)
(* The simulator and its peripheral processes (peripherals.c): launching,  *)
(* the START/READY conversation over two pipes per peripheral, polling     *)
(* while the program runs, notifications, death of a peripheral at any     *)
(* point, and shutdown.  Composed with Listeners, which decides who is     *)
(* granted what, who is notified and who is polled; the data that WRITE*   *)
(* requests and notifications carry is left to PortIO.                     *)
(*                                                                         *)
(* A message is one element of a pipe.  A request and its arguments are    *)
(* one element: peripherals flush them together, and the handlers read     *)
(* them before anything else happens on that pipe.                         *)
(***************************************************************************)
EXTENDS Listeners, Integers, Sequences

CONSTANTS
    NumPerphs,      \* the length of the -p list
    Requests,       \* the requests the peripherals may make: <<operation, argument>>
    MaxRequests,    \* bound: requests per peripheral
    PipeCap,        \* bound: messages a pipe to a peripheral holds
    MaxNotes,       \* bound: notifications an instruction sends
    Faulty,         \* peripherals whose program may be missing or may die
    Unlaunchable    \* peripherals for which pipe, mmap or fork may fail

(***************************************************************************)
(* The request codes of the protocol with the arguments they may carry, in *)
(* range or not; CLK and UNSYNC are handled as SYNC is, BLANK is a PRINT   *)
(* of no characters.                                                       *)
(***************************************************************************)
BREAK == <<"BREAK">>

Protocol ==
    ({"SETM", "CLAIM", "WRITEM"} \X Addrs)
    \cup ({"SETP", "CLAIMP", "WRITEP"} \X (Ports \cup {NoPort}))
    \cup ({"SETPN", "CLAIMPN", "WRITEPN"} \X (Pins \cup {NoPin}))
    \cup {<<"PRINT">>, <<"BLANK">>, <<"SYNC">>, <<"UNSYNC">>, <<"CLK">>, BREAK}

ASSUME SessionAssumption ==
    /\ Requests \subseteq Protocol
    /\ NumPerphs \in Nat
    /\ Peripherals = 1 .. NumPerphs
    /\ MaxRequests \in Nat
    /\ PipeCap \in Nat /\ PipeCap >= 2
    /\ MaxNotes \in Nat
    /\ Faulty \subseteq Peripherals
    /\ Unlaunchable \subseteq Peripherals

VARIABLES
    pc,         \* where the simulator's control is
    cur,        \* the loop index of the table or of the -p list
    during,     \* who called the conversation: "open" or "check"
    launched,   \* the peripherals in the table
    live,       \* Peripheral.live, in memory shared with the child
    proc,       \* what the peripheral process does
    down, up,   \* the pipes to and from each peripheral
    todo,       \* requests the peripheral may still make
    owed,       \* whom the instruction being executed has still to notify
    break_now,  \* enter the debug terminal before the next instruction
    ready       \* history: whose READY was handled in the latest round

simVars  == <<pc, cur, during, launched, owed, break_now, ready>>
pipeVars == <<down, up>>
vars == <<listenerVars, simVars, live, proc, pipeVars, todo>>

READY == <<"READY">>
TORN  == <<"TORN">>     \* a command byte whose arguments never came

ReplyCodes == SetReplies \cup {"BAD", "FORMAT", "VALUE"}
Commands   == {"START", "DATA", "KILL"}
Running    == {"await", "reply", "final"}

TypeOK ==
    /\ ListenersTypeOK
    /\ pc \in {"open", "send", "read", "run", "store", "check", "close", "wait", "done", "aborted"}
    /\ cur \in 1 .. NumPerphs + 1
    /\ during \in {"open", "check"}
    /\ launched \subseteq Peripherals
    /\ owed \in Seq(Peripherals) /\ Len(owed) <= MaxNotes
    /\ live \in [Peripherals -> BOOLEAN]
    /\ proc \in [Peripherals -> Running \cup {"none", "forked", "failing", "exited"}]
    /\ down \in [Peripherals -> Seq(ReplyCodes \cup Commands)]
    /\ \A p \in Peripherals : Len(down[p]) <= PipeCap
    /\ up \in [Peripherals -> Seq(Requests \cup {READY, TORN})]
    /\ todo \in [Peripherals -> 0 .. MaxRequests]
    /\ break_now \in BOOLEAN
    /\ ready \subseteq launched

Init ==
    /\ ListenersInit
    /\ pc = "open" /\ cur = 1 /\ during = "open"
    /\ launched = {} /\ owed = <<>> /\ ready = {}
    /\ live = [p \in Peripherals |-> FALSE]
    /\ proc = [p \in Peripherals |-> "none"]
    /\ down = [p \in Peripherals |-> <<>>]
    /\ up = [p \in Peripherals |-> <<>>]
    /\ todo = [p \in Peripherals |-> MaxRequests]
    /\ break_now = FALSE

(***************************************************************************)
(* sendMessage: the write fails when the reader is gone, and the           *)
(* peripheral is then taken for dead; it blocks while the pipe is full.    *)
(***************************************************************************)
SendNeverBlocks(p, msgs) ==
    IF proc[p] = "exited"
    THEN /\ live' = [live EXCEPT ![p] = FALSE]
         /\ UNCHANGED down
    ELSE /\ down' = [down EXCEPT ![p] = @ \o msgs]
         /\ UNCHANGED live

Send(p, msgs) ==
    IF proc[p] = "exited"
    THEN /\ live' = [live EXCEPT ![p] = FALSE]
         /\ UNCHANGED down
    ELSE /\ Len(down[p]) + Len(msgs) <= PipeCap
         /\ down' = [down EXCEPT ![p] = @ \o msgs]
         /\ UNCHANGED live

Goto(label, index) == pc' = label /\ cur' = index

-----------------------------------------------------------------------------
(***************************************************************************)
(* openPeripherals, one entry of the list after the other.  A failed pipe  *)
(* or mmap skips the entry.  A failed fork passes memory from mmap to      *)
(* free, which aborts the process or goes unnoticed.                       *)
(***************************************************************************)
OpenFails ==
    /\ pc = "open" /\ cur \in Unlaunchable
    /\ \/ Goto("open", cur + 1)
       \/ Goto("aborted", cur)
    /\ UNCHANGED <<listenerVars, during, launched, owed, break_now, ready, live, proc, pipeVars, todo>>

Launch ==
    /\ pc = "open" /\ cur <= NumPerphs
    /\ launched' = launched \cup {cur}
    /\ live' = [live EXCEPT ![cur] = TRUE]
    /\ proc' = [proc EXCEPT ![cur] = "forked"]
    /\ Goto("send", cur)
    /\ UNCHANGED <<listenerVars, during, owed, break_now, ready, pipeVars, todo>>

(***************************************************************************)
(* main calls runAVR, whose reset_run asks for the terminal first.         *)
(***************************************************************************)
RunProgram ==
    /\ pc = "open" /\ cur = NumPerphs + 1
    /\ Goto("run", 1)
    /\ break_now' = TRUE
    /\ UNCHANGED <<listenerVars, during, launched, owed, ready, live, proc, pipeVars, todo>>

-----------------------------------------------------------------------------
(***************************************************************************)
(* The loop shared by startPeripheral and readCommand:                     *)
(*    while (cmd != READY && live) { send START; read cmd; handle cmd }    *)
(***************************************************************************)
Leave == Goto(during, cur + 1)

SendStartOnly ==
    /\ pc = "send" /\ live[cur]
    /\ Send(cur, <<"START">>)
    /\ Leave
    /\ UNCHANGED <<listenerVars, during, launched, owed, break_now, ready, proc, up, todo>>

SendStart ==
    /\ pc = "send" /\ live[cur]
    /\ Send(cur, <<"START">>)
    /\ Goto("read", cur)
    /\ UNCHANGED <<listenerVars, during, launched, owed, break_now, ready, proc, up, todo>>

FoundDead ==
    /\ pc = "send" /\ ~live[cur]
    /\ Leave
    /\ UNCHANGED <<listenerVars, during, launched, owed, break_now, ready, live, proc, pipeVars, todo>>

ReadEofKeepsLive ==
    /\ pc = "read" /\ up[cur] = <<>> /\ proc[cur] = "exited"
    /\ Leave
    /\ UNCHANGED <<listenerVars, during, launched, owed, break_now, ready, live, proc, pipeVars, todo>>

ReadEof ==
    /\ pc = "read" /\ up[cur] = <<>> /\ proc[cur] = "exited"
    /\ live' = [live EXCEPT ![cur] = FALSE]
    /\ Leave
    /\ UNCHANGED <<listenerVars, during, launched, owed, break_now, ready, proc, pipeVars, todo>>

(***************************************************************************)
(* handleCommand: the table steps of Listeners, and the replies of the     *)
(* other handlers.  SYNC, UNSYNC, CLK and unknown codes are BAD.           *)
(***************************************************************************)
WriteReply(p, req) ==
    LET arg == req[2]
    IN  CASE req[1] = "WRITEM"  -> IF mem_listeners[arg] = p THEN "ACK" ELSE "TAKEN"
          [] req[1] = "WRITEP"  -> IF arg \notin Ports THEN "RANGE"
                                   ELSE IF port_listener[arg] = p THEN "ACK" ELSE "TAKEN"

\* Whether the state that WRITEPN carries is one is left open.
WritePinReplies(p, pin) ==
    IF pin \notin Pins THEN {"RANGE"}
    ELSE IF p \in {pin_listener[pin], port_listener[portOf[pin]]} THEN {"ACK", "VALUE"}
    ELSE {"TAKEN"}

ReplyTo(p, req, reply) ==
    \/ req[1] = "SETM"    /\ SetM(p, req[2], reply)
    \/ req[1] = "SETP"    /\ SetP(p, req[2], reply)
    \/ req[1] = "SETPN"   /\ SetPn(p, req[2], reply)
    \/ req[1] = "CLAIM"   /\ Claim(p, req[2], reply)
    \/ req[1] = "CLAIMP"  /\ ClaimP(p, req[2], reply)
    \/ req[1] = "CLAIMPN" /\ ClaimPn(p, req[2], reply)
    \/ /\ \/ req[1] \in {"WRITEM", "WRITEP"} /\ reply = WriteReply(p, req)
          \/ req[1] = "WRITEPN" /\ reply \in WritePinReplies(p, req[2])
          \/ req[1] \in {"READY", "PRINT"} /\ reply = "ACK"
          \/ req[1] \in {"TORN", "BLANK"} /\ reply = "FORMAT"
          \/ req[1] \in {"SYNC", "UNSYNC", "CLK"} /\ reply = "BAD"
       /\ UNCHANGED listenerVars

(***************************************************************************)
(* writepHandler also sends the new PINx to the peripheral that wrote it,  *)
(* right after the reply: it waits for the reply with an empty pipe, so    *)
(* that the second write does not block where the first did not.           *)
(***************************************************************************)
AnswerDataFirst(req, reply) ==
    IF req[1] = "WRITEP" /\ reply = "ACK" THEN <<"DATA", reply>> ELSE <<reply>>

Answer(req, reply) ==
    IF req[1] = "WRITEP" /\ reply = "ACK" THEN <<reply, "DATA">> ELSE <<reply>>

Handle(req) ==
    \E reply \in ReplyCodes :
        /\ ReplyTo(cur, req, reply)
        /\ Send(cur, Answer(req, reply))

ReadCommand ==
    /\ pc = "read" /\ up[cur] # <<>>
    /\ LET req == Head(up[cur])
       IN  /\ \/ req # BREAK /\ Handle(req) /\ UNCHANGED break_now
              \/ /\ req = BREAK     \* breakHandler sends no reply
                 /\ break_now' = TRUE
                 /\ UNCHANGED <<listenerVars, live, down>>
           /\ IF req = READY THEN Leave ELSE Goto("send", cur)
           /\ ready' = IF req = READY THEN ready \cup {cur} ELSE ready
    /\ up' = [up EXCEPT ![cur] = Tail(@)]
    /\ UNCHANGED <<during, launched, owed, proc, todo>>

-----------------------------------------------------------------------------
(***************************************************************************)
(* runAVR: an instruction, or the terminal when break_now is set, then     *)
(* checkPeripherals if any peripheral has a claim.  A store notifies the   *)
(* owners of what it changes, dead or alive, one write after the other,    *)
(* each of which waits when that owner's pipe is full; the same owner may  *)
(* be told of several pins, of their port and of the address.              *)
(***************************************************************************)
AfterInstruction ==
    /\ Goto(IF perph_write_flag THEN "check" ELSE "run", 1)
    /\ during' = "check"
    /\ ready' = {}
    /\ UNCHANGED <<listenerVars, launched, owed, proc, up, todo>>

Execute ==
    /\ pc = "run" /\ ~break_now
    /\ \E n \in 0 .. MaxNotes : owed' \in [1 .. n -> {p \in launched : Owns(p)}]
    /\ Goto("store", 1)
    /\ UNCHANGED <<listenerVars, during, launched, break_now, ready, live, proc, pipeVars, todo>>

Notify ==
    /\ pc = "store" /\ owed # <<>>
    /\ Send(Head(owed), <<"DATA">>)
    /\ owed' = Tail(owed)
    /\ UNCHANGED <<listenerVars, pc, cur, during, launched, break_now, ready, proc, up, todo>>

Executed ==
    /\ pc = "store" /\ owed = <<>>
    /\ AfterInstruction
    /\ UNCHANGED <<break_now, live, down>>

Terminal ==
    /\ pc = "run" /\ break_now
    /\ break_now' = FALSE
    /\ AfterInstruction
    /\ UNCHANGED <<live, down>>

(***************************************************************************)
(* An error of the program or quit in the terminal ends runAVR.            *)
(***************************************************************************)
Finish ==
    /\ pc = "run"
    /\ Goto("close", 1)
    /\ UNCHANGED <<listenerVars, during, launched, owed, break_now, ready, live, proc, pipeVars, todo>>

IsPolled(p) == p \in launched /\ live[p] /\ can_write[p]

CheckPeripheralsSpins ==
    /\ pc = "check"
    /\ IF cur > NumPerphs THEN Goto("run", 1)
       ELSE IF IsPolled(cur) THEN Goto("send", cur)
       ELSE Goto("check", cur)
    /\ UNCHANGED <<listenerVars, during, launched, owed, break_now, ready, live, proc, pipeVars, todo>>

CheckPeripherals ==
    /\ pc = "check"
    /\ IF cur > NumPerphs THEN Goto("run", 1)
       ELSE IF IsPolled(cur) THEN Goto("send", cur)
       ELSE Goto("check", cur + 1)
    /\ UNCHANGED <<listenerVars, during, launched, owed, break_now, ready, live, proc, pipeVars, todo>>

-----------------------------------------------------------------------------
(***************************************************************************)
(* closePeripherals: KILL and waitpid for a live one, SIGKILL for one that *)
(* was found dead.                                                         *)
(***************************************************************************)
CloseOne ==
    /\ pc = "close" /\ cur \in launched
    /\ \/ /\ live[cur]
          /\ Send(cur, <<"KILL">>)
          /\ Goto("wait", cur)
          /\ UNCHANGED proc
       \/ /\ ~live[cur]
          /\ proc' = [proc EXCEPT ![cur] = "exited"]
          /\ Goto("close", cur + 1)
          /\ UNCHANGED <<live, down>>
    /\ UNCHANGED <<listenerVars, during, launched, owed, break_now, ready, up, todo>>

WaitForNothing ==
    /\ pc = "wait"
    /\ Goto("close", cur + 1)
    /\ UNCHANGED <<listenerVars, during, launched, owed, break_now, ready, live, proc, pipeVars, todo>>

WaitForExit ==
    /\ pc = "wait" /\ proc[cur] = "exited"
    /\ Goto("close", cur + 1)
    /\ UNCHANGED <<listenerVars, during, launched, owed, break_now, ready, live, proc, pipeVars, todo>>

CloseNext ==
    /\ pc = "close" /\ cur \notin launched
    /\ IF cur > NumPerphs THEN Goto("done", 1) ELSE Goto("close", cur + 1)
    /\ UNCHANGED <<listenerVars, during, launched, owed, break_now, ready, live, proc, pipeVars, todo>>

-----------------------------------------------------------------------------
(***************************************************************************)
(* The peripheral processes.  The child executes the peripheral's program; *)
(* when there is none it clears live in the shared memory and exits.       *)
(***************************************************************************)
Become(p, what) == proc' = [proc EXCEPT ![p] = what]

Exec(p) ==
    /\ proc[p] = "forked"
    /\ Become(p, "await")
    /\ UNCHANGED <<listenerVars, simVars, live, pipeVars, todo>>

ExecFails(p) ==
    /\ proc[p] = "forked" /\ p \in Faulty
    /\ live' = [live EXCEPT ![p] = FALSE]
    /\ Become(p, "failing")
    /\ UNCHANGED <<listenerVars, simVars, pipeVars, todo>>

ChildExits(p) ==
    /\ proc[p] = "failing"
    /\ Become(p, "exited")
    /\ UNCHANGED <<listenerVars, simVars, live, pipeVars, todo>>

(***************************************************************************)
(* The program, as pin.py is written: it waits for a command, answers a    *)
(* START with one request or with READY, and takes the next message it     *)
(* reads for the reply, whatever it is.  It knows that BREAK has no reply. *)
(***************************************************************************)
Receives(p, states, msgs) == proc[p] \in states /\ down[p] # <<>> /\ Head(down[p]) \in msgs
Take(p) == down' = [down EXCEPT ![p] = Tail(@)]

Ask(p) ==
    \/ /\ todo[p] > 0
       /\ \E req \in Requests :
             /\ up' = [up EXCEPT ![p] = Append(@, req)]
             /\ Become(p, IF req = BREAK THEN "await" ELSE "reply")
       /\ todo' = [todo EXCEPT ![p] = @ - 1]
    \/ /\ up' = [up EXCEPT ![p] = Append(@, READY)]
       /\ Become(p, "final")
       /\ UNCHANGED todo

TakeStart(p) ==
    /\ Receives(p, {"await"}, {"START"})
    /\ Take(p)
    /\ Ask(p)
    /\ UNCHANGED <<listenerVars, simVars, live>>

TakeReply(p) ==
    /\ Receives(p, {"reply", "final"}, ReplyCodes \cup Commands)
    /\ Take(p)
    /\ Become(p, "await")
    /\ UNCHANGED <<listenerVars, simVars, live, up, todo>>

TakeData(p) ==
    /\ Receives(p, {"await"}, {"DATA"})
    /\ Take(p)
    /\ UNCHANGED <<listenerVars, simVars, live, proc, up, todo>>

TakeKill(p) ==
    /\ Receives(p, {"await"}, {"KILL"})
    /\ Take(p)
    /\ Become(p, "exited")
    /\ UNCHANGED <<listenerVars, simVars, live, up, todo>>

(***************************************************************************)
(* A faulty peripheral may die while it waits, or in the middle of a       *)
(* request, after the command byte.                                        *)
(***************************************************************************)
Dies(p) ==
    /\ p \in Faulty /\ proc[p] \in Running
    /\ Become(p, "exited")
    /\ \/ UNCHANGED <<pipeVars, todo>>
       \/ /\ Receives(p, {"await"}, {"START"})
          /\ Take(p)
          /\ up' = [up EXCEPT ![p] = Append(@, TORN)]
          /\ UNCHANGED todo
    /\ UNCHANGED <<listenerVars, simVars, live>>

-----------------------------------------------------------------------------
Conversation == SendStart \/ FoundDead \/ ReadEof \/ ReadCommand
Shutdown     == CloseOne \/ WaitForExit \/ CloseNext
Simulator    == Launch \/ RunProgram \/ Conversation \/ Notify \/ Executed \/ CheckPeripherals \/ Shutdown

Process(p) == Exec(p) \/ ChildExits(p) \/ TakeStart(p) \/ TakeReply(p) \/ TakeData(p) \/ TakeKill(p)

Terminated == pc \in {"done", "aborted"} /\ UNCHANGED vars

Next ==
    \/ Simulator
    \/ OpenFails \/ Execute \/ Terminal \/ Finish
    \/ \E p \in Peripherals : Process(p) \/ ExecFails(p) \/ Dies(p)
    \/ Terminated

(***************************************************************************)
(* The operating system schedules the simulator and every process that can *)
(* run.  Nothing is assumed of the program, of the user at the terminal or *)
(* of failures: Execute, Terminal, Finish, ExecFails and Dies are unfair.  *)
(***************************************************************************)
Fairness == WF_vars(Simulator) /\ \A p \in Peripherals : WF_vars(Process(p))

Spec == Init /\ [][Next]_vars /\ Fairness

-----------------------------------------------------------------------------
(***************************************************************************)
(* Neither side mistakes a message: what a peripheral that waits for a     *)
(* reply reads next is a reply, and what it reads otherwise is a command   *)
(* or a notification.  Notifications, replies and START share one pipe and *)
(* only their order tells them apart.                                      *)
(***************************************************************************)
Framed ==
    \A p \in Peripherals :
        down[p] # <<>> =>
            /\ proc[p] \in {"reply", "final"} => Head(down[p]) \in ReplyCodes
            /\ proc[p] = "await" => Head(down[p]) \in Commands

(***************************************************************************)
(* A request is in a pipe only while the simulator reads from that pipe:   *)
(* no request waits for a poll that may never come, and none is left to be *)
(* taken for the answer to a later START.                                  *)
(***************************************************************************)
NoStrayRequest ==
    \A p \in Peripherals :
        up[p] # <<>> => Len(up[p]) = 1 /\ pc = "read" /\ cur = p

(***************************************************************************)
(* The first instruction runs only when every peripheral has said READY or *)
(* is known to be dead, and each later one only when every polled          *)
(* peripheral has since the one before: neither the race between the child *)
(* clearing live and the parent reading it, nor a death between two        *)
(* messages, leaves a peripheral taken for live that never got ready.      *)
(***************************************************************************)
LiveMeansReady ==
    pc = "run" =>
        \A p \in launched : live[p] /\ (during = "open" \/ can_write[p]) => p \in ready

(***************************************************************************)
(* When the simulator exits no peripheral process is left behind.          *)
(***************************************************************************)
NoOrphans == pc = "done" => \A p \in launched : proc[p] = "exited"

(***************************************************************************)
(* The simulator never waits for ever on a peripheral: launching, polling  *)
(* and shutdown always come to an end, even when peripherals die at the    *)
(* worst moment.  From close the only one of these places left is done.   *)
(***************************************************************************)
NeverStuck == []<>(pc \in {"run", "done", "aborted"})
=============================================================================
