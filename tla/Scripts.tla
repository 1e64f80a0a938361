-------------------------------- MODULE Scripts --------------------------------
(***************************************************************************)
(* The three peripherals of the repository, pin.py, ear.py and             *)
(* helloWorld.py, as the processes of the simulator of Sessions.  Sessions *)
(* closes the simulator with peripherals that send one request for each    *)
(* START and wait for its reply; the scripts do not all keep to that, and  *)
(* this module says whether the simulator and they get along all the same. *)
(***************************************************************************)
EXTENDS Sessions

CONSTANTS
    Program,                        \* the script each peripheral runs
    pin4, pin27, portB, portE,      \* what pin.py claims and writes
    ear_addr                        \* 0x200, the address ear.py listens to

ASSUME ScriptAssumption ==
    /\ Program \in [Peripherals -> {"pin.py", "ear.py", "helloWorld.py"}]
    /\ {pin4, pin27} \subseteq Pins
    /\ {portB, portE} \subseteq Ports
    /\ ear_addr \in Addrs

VARIABLES
    state,      \* the script's variable of that name, or its exit code
    reads       \* what the script takes its next message for

scriptVars  == <<state, reads>>
allVars     == <<vars, scriptVars>>

Requested ==
    [PIN4   |-> <<"CLAIMPN", pin4>>,   PIN27   |-> <<"CLAIMPN", pin27>>,
     PORTB  |-> <<"CLAIMP", portB>>,   PORTE   |-> <<"CLAIMP", portE>>,
     READY  |-> READY,
     WRITE4 |-> <<"WRITEPN", pin4>>,   WRITE27 |-> <<"WRITEPN", pin27>>,
     WRITEB |-> <<"WRITEP", portB>>,   WRITEE  |-> <<"WRITEP", portE>>]

After ==
    [PIN4 |-> "PIN27", PIN27 |-> "PORTB", PORTB |-> "PORTE", PORTE |-> "READY",
     READY |-> "WRITE4", WRITE4 |-> "WRITE27", WRITE27 |-> "WRITEB",
     WRITEB |-> "WRITEE", WRITEE |-> "IDLE"]

Asking == DOMAIN Requested

(***************************************************************************)
(* What each script sends.  Requests, which Sessions takes from its        *)
(* environment, allows at least that.                                      *)
(***************************************************************************)
Says(p) ==
    CASE Program[p] = "pin.py"        -> {Requested[s] : s \in Asking}
      [] Program[p] = "ear.py"        -> {<<"SETM", ear_addr>>, READY}
      [] Program[p] = "helloWorld.py" -> {<<"PRINT">>, READY}

ASSUME SaysAssumption == \A p \in Peripherals : Says(p) \subseteq Requests \cup {READY}

(***************************************************************************)
(* A script sends only its own requests and has at most two messages out   *)
(* (helloWorld.py's PRINT and READY), and no pipe to a script holds more   *)
(* than its capacity.                                                      *)
(***************************************************************************)
ScriptsTypeOK ==
    /\ state \in [Peripherals -> Asking \cup {"START", "IDLE", "exit(0)", "exit(1)"}]
    /\ reads \in [Peripherals -> {"command", "answer"}]
    /\ \A p \in Peripherals : up[p] \in Seq(Says(p))
    /\ \A p \in Peripherals : Len(up[p]) <= 2 /\ Len(down[p]) <= PipeCap

ScriptsInit ==
    /\ Init
    /\ state = [p \in Peripherals |-> IF Program[p] = "pin.py" THEN "PIN4" ELSE "START"]
    /\ reads = [p \in Peripherals |-> "command"]

-----------------------------------------------------------------------------
(***************************************************************************)
(* A script takes a message for a command (one of msgs) or for the answer  *)
(* to its last request, sends requests, and then reads the next.  A        *)
(* notification is read with its arguments.  pin.py changes state after it *)
(* has read the answer, which nothing depends on.                          *)
(***************************************************************************)
TakesCommand(p, msgs) ==
    /\ proc[p] = "await" /\ reads[p] = "command"
    /\ down[p] # <<>> /\ Head(down[p]) \in msgs
    /\ Take(p)

TakesAnswer(p) ==
    /\ proc[p] = "await" /\ reads[p] = "answer"
    /\ down[p] # <<>>
    /\ Take(p)

Continues(p, next, sent, expected) ==
    /\ state' = [state EXCEPT ![p] = next]
    /\ up' = [up EXCEPT ![p] = @ \o sent]
    /\ reads' = [reads EXCEPT ![p] = expected]
    /\ UNCHANGED proc

Exits(p, code) ==
    /\ state' = [state EXCEPT ![p] = code]
    /\ Become(p, "exited")
    /\ UNCHANGED <<up, reads>>

Killed(p) == TakesCommand(p, {"KILL"}) /\ Exits(p, "exit(0)")

Commanded(p, msgs) == TakesCommand(p, (Commands \cup ReplyCodes) \ ({"KILL"} \cup msgs))

Answered(p) == TakesAnswer(p) /\ Continues(p, state[p], <<>>, "command")

(***************************************************************************)
(* pin.py: the notifications it knows first, then a START in each state    *)
(* before IDLE.  For the reply to its last request it does not wait, and   *)
(* IDLE ignores it.                                                        *)
(***************************************************************************)
noteWithoutPins == {}

note == {"DATA"}

PinNotes(p) == TakesCommand(p, note) /\ Continues(p, state[p], <<>>, "command")

PinAsksNext(p) ==
    Continues(p, After[state[p]], <<Requested[state[p]]>>,
              IF state[p] = "WRITEE" THEN "command" ELSE "answer")

PinAsksFallingThrough(p) ==
    /\ state[p] \in Asking
    /\ Commanded(p, note)
    /\ IF Head(down[p]) # "START" THEN Exits(p, "exit(1)")
       ELSE IF state[p] = "WRITEB"
       THEN Continues(p, "IDLE", <<Requested["WRITEB"], Requested["WRITEE"]>>, "answer")
       ELSE PinAsksNext(p)

PinAsks(p) ==
    /\ state[p] \in Asking
    /\ Commanded(p, note)
    /\ IF Head(down[p]) = "START" THEN PinAsksNext(p) ELSE Exits(p, "exit(1)")

PinIdlesSilently(p) ==
    /\ state[p] = "IDLE"
    /\ Commanded(p, note)
    /\ Continues(p, "IDLE", <<>>, "command")

PinIdles(p) ==
    /\ state[p] = "IDLE"
    /\ Commanded(p, note)
    /\ IF Head(down[p]) = "START"
       THEN Continues(p, "IDLE", <<READY>>, "answer")
       ELSE Continues(p, "IDLE", <<>>, "command")

Pin(p) == Killed(p) \/ PinNotes(p) \/ PinAsks(p) \/ PinIdles(p) \/ Answered(p)

(***************************************************************************)
(* ear.py: after its request and the reply it falls through to the next    *)
(* "if" with the START it has already answered, and says READY at once.    *)
(***************************************************************************)
EarStarts(p) ==
    /\ state[p] = "START"
    /\ \/ /\ Commanded(p, {})
          /\ IF Head(down[p]) = "START"
             THEN Continues(p, "START", <<<<"SETM", ear_addr>>>>, "answer")
             ELSE Exits(p, "exit(1)")
       \/ TakesAnswer(p) /\ Continues(p, "IDLE", <<READY>>, "answer")

EarIdles(p) ==
    /\ state[p] = "IDLE"
    /\ \/ /\ Commanded(p, {})
          /\ IF Head(down[p]) = "START"
             THEN Continues(p, "IDLE", <<READY>>, "answer")
             ELSE Continues(p, "IDLE", <<>>, "command")
       \/ Answered(p)

Ear(p) == Killed(p) \/ EarStarts(p) \/ EarIdles(p)

(***************************************************************************)
(* helloWorld.py sends PRINT and READY for its first START, and another    *)
(* READY for whatever it reads next.                                       *)
(***************************************************************************)
HelloStarts(p) ==
    /\ state[p] = "START"
    /\ Commanded(p, {})
    /\ IF Head(down[p]) = "START"
       THEN Continues(p, "READY", <<<<"PRINT">>, READY>>, "answer")
       ELSE Exits(p, "exit(1)")

HelloRepeats(p) ==
    /\ state[p] = "READY"
    /\ Commanded(p, {})
    /\ Continues(p, "READY", <<READY>>, "answer")

HelloWorld(p) == Killed(p) \/ HelloStarts(p) \/ HelloRepeats(p) \/ Answered(p)

(***************************************************************************)
(* A process may still fail to start or be killed from outside.  A script  *)
(* flushes each message at once, so none is torn; that helloWorld.py may   *)
(* be killed between its PRINT and its READY is left out.                  *)
(***************************************************************************)
Script(p) ==
    /\ \/ Program[p] = "pin.py" /\ Pin(p)
       \/ Program[p] = "ear.py" /\ Ear(p)
       \/ Program[p] = "helloWorld.py" /\ HelloWorld(p)
    /\ UNCHANGED <<listenerVars, simVars, live, todo>>

IsKilled(p) ==
    /\ p \in Faulty /\ proc[p] = "await"
    /\ Become(p, "exited")
    /\ UNCHANGED <<listenerVars, simVars, live, pipeVars, todo, scriptVars>>

-----------------------------------------------------------------------------
ScriptProcess(p) == Script(p) \/ ((Exec(p) \/ ChildExits(p)) /\ UNCHANGED scriptVars)

ScriptsNext ==
    \/ /\ Simulator \/ OpenFails \/ Execute \/ Terminal \/ Finish \/ Terminated
       /\ UNCHANGED scriptVars
    \/ \E p \in Peripherals : ScriptProcess(p) \/ IsKilled(p) \/ (ExecFails(p) /\ UNCHANGED scriptVars)

(***************************************************************************)
(* As in Sessions, the processes that can run are scheduled.               *)
(***************************************************************************)
ScriptsFairness ==
    /\ WF_allVars(Simulator /\ UNCHANGED scriptVars)
    /\ \A p \in Peripherals : WF_allVars(ScriptProcess(p))

ScriptsSpec == ScriptsInit /\ [][ScriptsNext]_allVars /\ ScriptsFairness

-----------------------------------------------------------------------------
(***************************************************************************)
(* No script gives up: exit(1) is what pin.py, ear.py and helloWorld.py do *)
(* when they read something else than the START they wait for, which a     *)
(* notification or a reply that was not read in time would be.             *)
(***************************************************************************)
NeverGivesUp == \A p \in Peripherals : state[p] # "exit(1)"

(***************************************************************************)
(* No notification is lost by being read where a script clears an ACK,     *)
(* although ear.py and helloWorld.py are one message out of step.          *)
(***************************************************************************)
NotesAreHeard ==
    \A p \in Peripherals :
        proc[p] = "await" /\ reads[p] = "answer" /\ down[p] # <<>> => Head(down[p]) # "DATA"

(***************************************************************************)
(* A request that nobody asked for (helloWorld.py's second READY) is left  *)
(* only in the pipe of a peripheral that is never polled: otherwise it     *)
(* would be taken for the answer to the next START, and the simulator      *)
(* would be one answer ahead of the peripheral for good.                   *)
(***************************************************************************)
StrayIsHarmless ==
    \A p \in Peripherals :
        up[p] # <<>> /\ ~(pc \in {"send", "read"} /\ cur = p) /\ proc[p] # "exited"
            => ~can_write[p] /\ up[p] = <<READY>>
=============================================================================
