----------------------------- MODULE Scripts_proofs -----------------------------
(***************************************************************************)
(* Proofs about pin.py, ear.py and helloWorld.py as the processes of the   *)
(* simulator: for any number of each, pipes of any capacity, and any set   *)
(* of peripherals that fail to launch, are missing or die.                 *)
(*                                                                         *)
(* Every step of the simulator is one of Sessions, so what Sessions_proofs *)
(* proves of them is used again.  What differs is the conversation: each   *)
(* script has its own, and the places it can be at are listed here.        *)
(***************************************************************************)
EXTENDS Scripts, Sessions_proofs

(***************************************************************************)
(* Where the simulator is with a peripheral: about to send it START,       *)
(* waiting for its request (Reading), or elsewhere, after its launch.      *)
(***************************************************************************)
Sending(p)   == pc = "send" /\ cur = p
Launching(p) == p \notin launched \/ Sending(p)
Away(p)      == p \in launched /\ ~Sending(p) /\ ~Reading(p)

(***************************************************************************)
(* The pipe to p holds the messages of s, and then only messages of rest.  *)
(***************************************************************************)
Finds(p, s, rest) ==
    /\ Len(s) <= Len(down[p])
    /\ \A i \in 1 .. Len(down[p]) :
         IF i <= Len(s) THEN down[p][i] = s[i] ELSE down[p][i] \in rest

Is(p, what, expected, sent) == state[p] = what /\ reads[p] = expected /\ up[p] = sent

SETM  == <<"SETM", ear_addr>>
PRINT == <<"PRINT">>

(***************************************************************************)
(* pin.py talks as the peripherals of Sessions do, until it is done with   *)
(* its requests: then its last reply may be read as a command.             *)
(***************************************************************************)
PinTalk(p) ==
    /\ state[p] \in Asking \cup {"IDLE"}
    /\ StartIsLast(p)
    /\ \/ /\ Len(up[p]) = 1 /\ Reading(p) /\ Finds(p, <<>>, {})
          /\ reads[p] = "answer" \/ state[p] = "IDLE"
       \/ /\ up[p] = <<>> /\ reads[p] = "answer"
          /\ \E reply \in ReplyCodes : Finds(p, <<reply>>, Commands)
       \/ /\ up[p] = <<>> /\ reads[p] = "command"
          /\ state[p] = "IDLE" \/ Finds(p, <<>>, Commands)

(***************************************************************************)
(* ear.py and helloWorld.py before their first START.                      *)
(***************************************************************************)
Starts(p) ==
    /\ Is(p, "START", "command", <<>>)
    /\ \/ Launching(p) /\ Finds(p, <<>>, {})
       \/ Reading(p) /\ Finds(p, <<"START">>, {})

(***************************************************************************)
(* ear.py is never polled: after its launch it finds at most the START     *)
(* that it has answered already, the ACK for its READY, and news.          *)
(***************************************************************************)
News == {"DATA", "KILL"}

EarTalk(p) ==
    \/ Starts(p)
    \/ Is(p, "START", "answer", <<SETM>>) /\ Reading(p) /\ Finds(p, <<>>, {})
    \/ /\ Is(p, "START", "answer", <<>>)
       /\ \E reply \in ReplyCodes :
            \/ Sending(p) /\ Finds(p, <<reply>>, {})
            \/ Reading(p) /\ Finds(p, <<reply, "START">>, {})
    \/ /\ Is(p, "IDLE", "answer", <<READY>>)
       /\ \/ Sending(p) /\ Finds(p, <<>>, {})
          \/ Reading(p) /\ Finds(p, <<"START">>, {})
    \/ Is(p, "IDLE", "command", <<READY>>) /\ Reading(p) /\ Finds(p, <<>>, {})
    \/ Is(p, "IDLE", "answer", <<>>) /\ Away(p) /\ Finds(p, <<"START", "ACK">>, News)
    \/ /\ Is(p, "IDLE", "command", <<>>) /\ Away(p)
       /\ Finds(p, <<"ACK">>, News) \/ Finds(p, <<>>, News)

(***************************************************************************)
(* helloWorld.py owns nothing: all it finds after its launch are the rest  *)
(* of that conversation and, once, KILL.                                   *)
(***************************************************************************)
HelloTalk(p) ==
    \/ Starts(p)
    \/ Is(p, "READY", "answer", <<PRINT, READY>>) /\ Reading(p) /\ Finds(p, <<>>, {})
    \/ /\ Is(p, "READY", "answer", <<READY>>)
       /\ \/ Sending(p) /\ Finds(p, <<"ACK">>, {})
          \/ Reading(p) /\ Finds(p, <<"ACK", "START">>, {})
          \/ Away(p) /\ Finds(p, <<"ACK">>, {"KILL"})
    \/ /\ Is(p, "READY", "command", <<READY>>)
       /\ \/ Sending(p) /\ Finds(p, <<>>, {})
          \/ Reading(p) /\ Finds(p, <<"START">>, {})
          \/ Away(p) /\ Finds(p, <<>>, {"KILL"})
    \/ Is(p, "READY", "answer", <<READY, READY>>) /\ Reading(p) /\ Finds(p, <<>>, {})
    \/ Is(p, "READY", "answer", <<>>) /\ Away(p) /\ Finds(p, <<"ACK", "START", "ACK">>, {"KILL"})
    \/ Is(p, "READY", "command", <<>>) /\ Away(p) /\ Finds(p, <<"START", "ACK">>, {"KILL"})

ScriptTalk(p) ==
    /\ Program[p] = "pin.py"        => PinTalk(p)
    /\ Program[p] = "ear.py"        => EarTalk(p)
    /\ Program[p] = "helloWorld.py" => HelloTalk(p)

(***************************************************************************)
(* ear.py and helloWorld.py never get the right to be polled, and          *)
(* helloWorld.py listens to nothing, dead or alive.                        *)
(***************************************************************************)
Unpolled ==
    \A p \in Peripherals :
        /\ Program[p] # "pin.py" => ~can_write[p]
        /\ Program[p] = "helloWorld.py" => ~Owns(p)

KnownAlive == \A p \in launched : Alive(p) => live[p]

ScriptTalks == \A p \in Peripherals : Alive(p) => ScriptTalk(p)

NothingSaid == \A p \in Peripherals : proc[p] \in {"forked", "failing"} => up[p] = <<>>

ScriptsInv ==
    /\ TypeOK /\ TablesInv /\ PolledExact
    /\ Positions /\ Rounds /\ Closed /\ Idle
    /\ ScriptsTypeOK /\ NeverGivesUp
    /\ Unpolled /\ KnownAlive /\ ScriptTalks /\ NothingSaid

-----------------------------------------------------------------------------
(***************************************************************************)
(* Short sequences.                                                        *)
(***************************************************************************)
LEMMA AppendToEmpty == \A a : Append(<<>>, a) = <<a>>
  OBVIOUS

LEMMA AppendToOne ==
    ASSUME NEW S, NEW a \in S, NEW b \in S
    PROVE  Append(<<a>>, b) = <<a, b>>
<1>1. /\ <<a>> \in Seq(S) /\ Len(<<a>>) = 1
      /\ <<a, b>> \in Seq(S) /\ Len(<<a, b>>) = 2
  OBVIOUS
<1>2. /\ Append(<<a>>, b) \in Seq(S) /\ Len(Append(<<a>>, b)) = 2
      /\ \A i \in 1 .. 2 : Append(<<a>>, b)[i] = <<a, b>>[i]
  BY <1>1, AppendProperties
<1> QED BY <1>1, <1>2, SeqEqual

LEMMA AppendToTwo ==
    ASSUME NEW S, NEW a \in S, NEW b \in S, NEW c \in S
    PROVE  Append(<<a, b>>, c) = <<a, b, c>>
<1>1. /\ <<a, b>> \in Seq(S) /\ Len(<<a, b>>) = 2
      /\ <<a, b, c>> \in Seq(S) /\ Len(<<a, b, c>>) = 3
  OBVIOUS
<1>2. /\ Append(<<a, b>>, c) \in Seq(S) /\ Len(Append(<<a, b>>, c)) = 3
      /\ \A i \in 1 .. 3 : Append(<<a, b>>, c)[i] = <<a, b, c>>[i]
  BY <1>1, AppendProperties
<1> QED BY <1>1, <1>2, SeqEqual

LEMMA TailOfTuple ==
    ASSUME NEW a, NEW b, NEW c
    PROVE  /\ Tail(<<a>>) = <<>>
           /\ Tail(<<a, b>>) = <<b>>
           /\ Tail(<<a, b, c>>) = <<b, c>>
  OBVIOUS

LEMMA ConcatOne ==
    ASSUME NEW S, NEW s \in Seq(S), NEW x \in S
    PROVE  s \o <<x>> = Append(s, x)
  BY ConcatProperties, AppendProperties

LEMMA ConcatTwo ==
    ASSUME NEW S, NEW s \in Seq(S), NEW x \in S, NEW y \in S
    PROVE  s \o <<x, y>> = Append(Append(s, x), y)
  BY ConcatProperties, AppendProperties

(***************************************************************************)
(* What becomes of what p finds when a message is added and when one is    *)
(* taken.                                                                  *)
(***************************************************************************)
LEMMA FindsMore ==
    ASSUME TypeOK, NEW p \in Peripherals, NEW s, NEW rest, Finds(p, s, {})
    PROVE  Finds(p, s, rest)
  BY DEF Finds

LEMMA FindsAdded ==
    ASSUME TypeOK, NEW p \in Peripherals, NEW m \in Messages, down'[p] = Append(down[p], m),
           NEW s, Len(s) \in Nat, NEW rest, Finds(p, s, rest), m \in rest
    PROVE  Finds(p, s, rest)'
<1>1. down[p] \in Seq(Messages)
  BY DEF TypeOK, Messages
<1>2. /\ Len(down'[p]) = Len(down[p]) + 1 /\ Len(down[p]) \in Nat
      /\ \A i \in 1 .. Len(down[p]) : down'[p][i] = down[p][i]
      /\ down'[p][Len(down[p]) + 1] = m
  BY <1>1, AppendProperties
<1> QED BY <1>2 DEF Finds

LEMMA FindsNext ==
    ASSUME TypeOK, NEW p \in Peripherals, NEW m \in Messages, down'[p] = Append(down[p], m),
           NEW S, NEW s \in Seq(S), m \in S, Finds(p, s, {})
    PROVE  Finds(p, Append(s, m), {})'
<1>1. down[p] \in Seq(Messages)
  BY DEF TypeOK, Messages
<1>2. /\ Len(down'[p]) = Len(down[p]) + 1 /\ Len(down[p]) \in Nat
      /\ \A i \in 1 .. Len(down[p]) : down'[p][i] = down[p][i]
      /\ down'[p][Len(down[p]) + 1] = m
  BY <1>1, AppendProperties
<1>3. /\ Len(Append(s, m)) = Len(s) + 1 /\ Len(s) \in Nat
      /\ \A i \in 1 .. Len(s) : Append(s, m)[i] = s[i]
      /\ Append(s, m)[Len(s) + 1] = m
  BY AppendProperties
<1>4. Len(s) = Len(down[p])
  <2>1. Len(down[p]) >= Len(s) /\ \A i \in 1 .. Len(down[p]) : i <= Len(s)
    BY DEF Finds
  <2> QED BY <1>2, <1>3, <2>1
<1> QED BY <1>2, <1>3, <1>4 DEF Finds

LEMMA FindsTaken ==
    ASSUME TypeOK, NEW p \in Peripherals, down[p] # <<>>, down'[p] = Tail(down[p]),
           NEW S, NEW s \in Seq(S), s # <<>>, NEW rest, Finds(p, s, rest)
    PROVE  Head(down[p]) = s[1] /\ Finds(p, Tail(s), rest)'
<1>1. down[p] \in Seq(Messages)
  BY DEF TypeOK, Messages
<1>2. /\ Len(down'[p]) = Len(down[p]) - 1 /\ Len(down[p]) \in Nat \ {0}
      /\ \A i \in 1 .. Len(down'[p]) : down'[p][i] = down[p][i + 1]
      /\ Head(down[p]) = down[p][1]
  BY <1>1, HeadTailProperties, EmptySeq
<1>3. /\ Len(Tail(s)) = Len(s) - 1 /\ Len(s) \in Nat \ {0}
      /\ \A i \in 1 .. Len(Tail(s)) : Tail(s)[i] = s[i + 1]
  BY HeadTailProperties, EmptySeq
<1>4. \A i \in 1 .. Len(down'[p]) : i + 1 \in 1 .. Len(down[p])
  BY <1>2
<1> QED BY <1>2, <1>3, <1>4 DEF Finds

LEMMA FindsRest ==
    ASSUME TypeOK, NEW p \in Peripherals, down[p] # <<>>, down'[p] = Tail(down[p]),
           NEW rest, Finds(p, <<>>, rest)
    PROVE  Head(down[p]) \in rest /\ Finds(p, <<>>, rest)'
<1>1. down[p] \in Seq(Messages)
  BY DEF TypeOK, Messages
<1>2. /\ Len(down'[p]) = Len(down[p]) - 1 /\ Len(down[p]) \in Nat \ {0}
      /\ \A i \in 1 .. Len(down'[p]) : down'[p][i] = down[p][i + 1]
      /\ Head(down[p]) = down[p][1]
  BY <1>1, HeadTailProperties, EmptySeq
<1>3. \A i \in 1 .. Len(down[p]) : down[p][i] \in rest
  BY <1>2 DEF Finds
<1> QED BY <1>2, <1>3 DEF Finds

LEMMA FindsNothing ==
    ASSUME TypeOK, NEW p \in Peripherals, Finds(p, <<>>, {})
    PROVE  down[p] = <<>>
<1>1. down[p] \in Seq(Messages)
  BY DEF TypeOK, Messages
<1>2. Len(down[p]) \in Nat /\ \A i \in 1 .. Len(down[p]) : FALSE
  BY <1>1, LenProperties DEF Finds
<1>3. Len(down[p]) = 0
  BY <1>2
<1> QED BY <1>1, <1>3, EmptySeq

-----------------------------------------------------------------------------
(***************************************************************************)
(* The simulator is at one place, and only with launched peripherals.      *)
(***************************************************************************)
LEMMA Places ==
    ASSUME Positions, NEW p
    PROVE  /\ Sending(p) => ~Reading(p) /\ ~Away(p) /\ p \in launched
           /\ Reading(p) => ~Sending(p) /\ ~Away(p) /\ ~Launching(p) /\ p \in launched
           /\ Away(p) => ~Launching(p) /\ p \in launched
  BY DEF Sending, Reading, Away, Launching, Positions, Talking

(***************************************************************************)
(* The steps that touch neither the script nor its pipes: a place in the   *)
(* conversation only depends on where the simulator is.                    *)
(***************************************************************************)
SameScript(p) == UNCHANGED <<state[p], reads[p]>>

LEMMA TalkKept ==
    ASSUME NEW p, ScriptTalk(p), SameScript(p), UNCHANGED <<up[p], down[p]>>,
           Sending(p) => Sending(p)', Reading(p) => Reading(p)',
           Launching(p) => Launching(p)', Away(p) => Away(p)'
    PROVE  ScriptTalk(p)'
<1> USE DEF SameScript
<1>1. /\ \A s, rest : Finds(p, s, rest) => Finds(p, s, rest)'
      /\ \A what, expected, sent : Is(p, what, expected, sent) => Is(p, what, expected, sent)'
      /\ StartIsLast(p) => StartIsLast(p)'
  BY DEF Finds, Is, StartIsLast
<1>2. PinTalk(p) => PinTalk(p)'
  BY <1>1 DEF PinTalk
<1>3. Starts(p) => Starts(p)'
  BY <1>1 DEF Starts
<1>4. EarTalk(p) => EarTalk(p)'
  BY <1>1, <1>3 DEF EarTalk
<1>5. HelloTalk(p) => HelloTalk(p)'
  BY <1>1, <1>3 DEF HelloTalk
<1> QED BY <1>2, <1>4, <1>5 DEF ScriptTalk

(***************************************************************************)
(* A message is sent to a script: START where its turn has come, news when *)
(* the simulator is elsewhere.                                             *)
(***************************************************************************)
LEMMA TalkAfterStart ==
    ASSUME TypeOK, Positions, NEW p \in Peripherals, ScriptTalk(p), SameScript(p), UNCHANGED up[p],
           Sending(p), Reading(p)', down'[p] = Append(down[p], "START")
    PROVE  ScriptTalk(p)'
<1> USE DEF SameScript
<1>1. ~Reading(p) /\ ~Away(p) /\ "START" \in Messages /\ "START" \in Commands
  BY Places DEF Messages, Commands
<1>2. \A s \in Seq(Messages) : Finds(p, s, {}) => Finds(p, Append(s, "START"), {})'
  BY <1>1, FindsNext
<1>3. \A what, expected, sent : Is(p, what, expected, sent) => Is(p, what, expected, sent)'
  BY DEF Is
<1>4. Starts(p) => Starts(p)'
  <2>1. <<>> \in Seq(Messages) /\ Append(<<>>, "START") = <<"START">>
    BY <1>1, AppendToEmpty, AppendToOne, AppendToTwo
  <2> QED BY <1>1, <1>2, <1>3, <2>1 DEF Starts
<1>5. PinTalk(p) => PinTalk(p)'
  <2> SUFFICES ASSUME PinTalk(p) PROVE PinTalk(p)'
    OBVIOUS
  <2>1. up[p] = <<>>
    BY <1>1 DEF PinTalk
  <2>2. /\ Len(down'[p]) = Len(down[p]) + 1 /\ Len(down[p]) \in Nat
        /\ \A i \in 1 .. Len(down[p]) : down'[p][i] = down[p][i] /\ down[p][i] # "START"
    <3>1. down[p] \in Seq(Messages)
      BY DEF TypeOK, Messages
    <3> QED BY <1>1, <3>1, AppendProperties DEF PinTalk, StartIsLast
  <2>3. StartIsLast(p)'
    BY <2>1, <2>2 DEF StartIsLast
  <2>4. \A reply \in ReplyCodes : Finds(p, <<reply>>, Commands) => Finds(p, <<reply>>, Commands)'
    BY <1>1, FindsAdded
  <2>5. Finds(p, <<>>, Commands) => Finds(p, <<>>, Commands)'
    BY <1>1, FindsAdded
  <2> QED BY <1>1, <2>1, <2>3, <2>4, <2>5 DEF PinTalk
<1>6. EarTalk(p) => EarTalk(p)'
  <2>1. ASSUME NEW reply \in ReplyCodes, Finds(p, <<reply>>, {})
        PROVE  Finds(p, <<reply, "START">>, {})'
    <3>1. reply \in Messages /\ <<reply>> \in Seq(Messages)
      BY DEF Messages
    <3> QED BY <1>1, <1>2, <2>1, <3>1, AppendToEmpty, AppendToOne, AppendToTwo
  <2>2. Finds(p, <<>>, {}) => Finds(p, <<"START">>, {})'
    <3>1. <<>> \in Seq(Messages) /\ Append(<<>>, "START") = <<"START">>
      BY <1>1, AppendToEmpty, AppendToOne, AppendToTwo
    <3> QED BY <1>2, <3>1
  <2> QED BY <1>1, <1>3, <1>4, <2>1, <2>2 DEF EarTalk
<1>7. HelloTalk(p) => HelloTalk(p)'
  <2>1. Finds(p, <<"ACK">>, {}) => Finds(p, <<"ACK", "START">>, {})'
    <3>1. "ACK" \in Messages /\ <<"ACK">> \in Seq(Messages)
      BY DEF Messages, ReplyCodes, SetReplies
    <3> QED BY <1>1, <1>2, <3>1, AppendToEmpty, AppendToOne, AppendToTwo
  <2>2. Finds(p, <<>>, {}) => Finds(p, <<"START">>, {})'
    <3>1. <<>> \in Seq(Messages) /\ Append(<<>>, "START") = <<"START">>
      BY <1>1, AppendToEmpty, AppendToOne, AppendToTwo
    <3> QED BY <1>2, <3>1
  <2> QED BY <1>1, <1>3, <1>4, <2>1, <2>2 DEF HelloTalk
<1> QED BY <1>5, <1>6, <1>7 DEF ScriptTalk

LEMMA TalkAfterNews ==
    ASSUME TypeOK, Positions, NEW p \in Peripherals, ScriptTalk(p), SameScript(p), UNCHANGED up[p],
           Away(p), Away(p)', NEW m \in News, down'[p] = Append(down[p], m),
           Program[p] = "helloWorld.py" => m = "KILL"
    PROVE  ScriptTalk(p)'
<1> USE DEF SameScript
<1>1. ~Reading(p) /\ ~Sending(p) /\ ~Launching(p) /\ m \in Messages /\ m \in Commands /\ m # "START"
  BY Places DEF Messages, Commands, News
<1>2. \A s, rest : Len(s) \in Nat /\ Finds(p, s, rest) /\ m \in rest => Finds(p, s, rest)'
  BY <1>1, FindsAdded
<1>3. \A what, expected, sent : Is(p, what, expected, sent) => Is(p, what, expected, sent)'
  BY DEF Is
<1>4. ~Starts(p)
  BY <1>1 DEF Starts
<1>5. PinTalk(p) => PinTalk(p)'
  <2> SUFFICES ASSUME PinTalk(p) PROVE PinTalk(p)'
    OBVIOUS
  <2>1. up[p] = <<>>
    BY <1>1 DEF PinTalk
  <2>2. /\ Len(down'[p]) = Len(down[p]) + 1 /\ Len(down[p]) \in Nat
        /\ \A i \in 1 .. Len(down[p]) : down'[p][i] = down[p][i] /\ down[p][i] # "START"
        /\ down'[p][Len(down[p]) + 1] = m
    <3>1. down[p] \in Seq(Messages)
      BY DEF TypeOK, Messages
    <3> QED BY <1>1, <3>1, AppendProperties DEF PinTalk, StartIsLast
  <2>3. StartIsLast(p)'
    BY <1>1, <2>2 DEF StartIsLast
  <2>4. \A reply \in ReplyCodes : Finds(p, <<reply>>, Commands) => Finds(p, <<reply>>, Commands)'
    BY <1>1, FindsAdded
  <2>5. Finds(p, <<>>, Commands) => Finds(p, <<>>, Commands)'
    BY <1>1, FindsAdded
  <2> QED BY <1>1, <2>1, <2>3, <2>4, <2>5 DEF PinTalk
<1>6. EarTalk(p) => EarTalk(p)'
  BY <1>1, <1>2, <1>3, <1>4 DEF EarTalk
<1>7. HelloTalk(p) /\ m = "KILL" => HelloTalk(p)'
  BY <1>1, <1>2, <1>3, <1>4 DEF HelloTalk
<1> QED BY <1>5, <1>6, <1>7 DEF ScriptTalk

-----------------------------------------------------------------------------
(***************************************************************************)
(* What the scripts send is never BREAK, so that it always gets a reply,   *)
(* and it asks nothing of the tables that its script does not.             *)
(***************************************************************************)
LEMMA Sayings ==
    ASSUME NEW p \in Peripherals
    PROVE  /\ Program[p] = "pin.py" \/ Program[p] = "ear.py" \/ Program[p] = "helloWorld.py"
           /\ Program[p] = "pin.py" => Says(p) = {Requested[s] : s \in Asking}
           /\ Program[p] = "ear.py" => Says(p) = {SETM, READY}
           /\ Program[p] = "helloWorld.py" => Says(p) = {PRINT, READY}
  BY ScriptAssumption DEF Says, SETM, PRINT

LEMMA PinStates == Asking = {"PIN4", "PIN27", "PORTB", "PORTE", "READY", "WRITE4", "WRITE27", "WRITEB", "WRITEE"}
  BY DEF Asking, Requested

LEMMA PinRequests ==
    ASSUME NEW s \in Asking
    PROVE  /\ Requested[s] = READY \/ Requested[s][1] \in {"CLAIMPN", "CLAIMP", "WRITEPN", "WRITEP"}
           /\ After[s] \in Asking \cup {"IDLE"}
           /\ After[s] = "IDLE" <=> s = "WRITEE"
           /\ After[s] \in Asking => s # "WRITEE"
  BY PinStates DEF Requested, After, READY

LEMMA NeverBreaks ==
    ASSUME NEW p \in Peripherals, NEW req \in Says(p)
    PROVE  req # BREAK
<1>1. /\ BREAK # READY /\ BREAK # SETM /\ BREAK # PRINT
      /\ BREAK[1] \notin {"CLAIMPN", "CLAIMP", "WRITEPN", "WRITEP"}
  BY DEF BREAK, READY, SETM, PRINT
<1> QED BY <1>1, Sayings, PinRequests

LEMMA ReadyAndPrint ==
    ASSUME NEW p, NEW reply, NEW req \in {READY, PRINT}, ReplyTo(p, req, reply)
    PROVE  reply = "ACK" /\ UNCHANGED listenerVars
<1>1. req[1] \in {"READY", "PRINT"}
  BY DEF READY, PRINT
<1> QED BY <1>1 DEF ReplyTo

LEMMA AnswersOnce ==
    ASSUME NEW req, NEW reply, req \in {READY, PRINT, SETM}
    PROVE  Answer(req, reply) = <<reply>>
<1>1. req[1] \in {"READY", "PRINT", "SETM"}
  BY DEF READY, PRINT, SETM
<1> QED BY <1>1 DEF Answer

(***************************************************************************)
(* The simulator reads the next request of p, and replies.                 *)
(***************************************************************************)
LEMMA ScriptIsAnswered ==
    ASSUME TypeOK, ScriptsTypeOK, Positions, NEW p \in Peripherals, Alive(p), ReadCommand, p = cur
    PROVE  /\ Reading(p) /\ up[p] # <<>> /\ Head(up[p]) \in Says(p) /\ up'[p] = Tail(up[p])
           /\ IF Head(up[p]) = READY THEN Away(p)' ELSE Sending(p)'
           /\ \E reply \in ReplyCodes :
                 /\ ReplyTo(p, Head(up[p]), reply)
                 /\ down'[p] = down[p] \o Answer(Head(up[p]), reply)
<1>1. Reading(p) /\ up[p] # <<>> /\ up'[p] = Tail(up[p])
  BY DEF ReadCommand, Reading, TypeOK
<1>2. Head(up[p]) \in Says(p)
  BY <1>1, HeadTailProperties DEF ScriptsTypeOK
<1>3. IF Head(up[p]) = READY THEN Away(p)' ELSE Sending(p)'
  <2>1. /\ p \in launched /\ launched' = launched
        /\ IF Head(up[p]) = READY THEN pc' = during /\ during \in {"open", "check"}
                                  ELSE pc' = "send" /\ cur' = cur
    BY <1>1 DEF ReadCommand, Leave, Goto, Positions, Talking, Reading, TypeOK
  <2> QED BY <2>1 DEF Away, Sending, Reading
<1>4. PICK reply \in ReplyCodes : ReplyTo(p, Head(up[p]), reply) /\ Send(p, Answer(Head(up[p]), reply))
  BY <1>2, NeverBreaks DEF ReadCommand, Handle
<1>5. down'[p] = down[p] \o Answer(Head(up[p]), reply)
  BY <1>4, AnswerMessages, Sends DEF Alive
<1> QED BY <1>1, <1>2, <1>3, <1>4, <1>5

LEMMA PinAfterRead ==
    ASSUME TypeOK, ScriptsTypeOK, Positions, NEW p \in Peripherals, Program[p] = "pin.py", PinTalk(p),
           SameScript(p), Alive(p), ReadCommand, p = cur
    PROVE  PinTalk(p)'
<1>1. /\ Reading(p) /\ up[p] # <<>> /\ Head(up[p]) \in Says(p) /\ up'[p] = Tail(up[p])
      /\ IF Head(up[p]) = READY THEN Away(p)' ELSE Sending(p)'
  BY ScriptIsAnswered
<1>2. PICK reply \in ReplyCodes : down'[p] = down[p] \o Answer(Head(up[p]), reply)
  BY ScriptIsAnswered
<1>3. /\ Len(up[p]) = 1 /\ Finds(p, <<>>, {}) /\ (reads[p] = "answer" \/ state[p] = "IDLE")
      /\ state[p] \in Asking \cup {"IDLE"}
  BY <1>1 DEF PinTalk
<1>4. up'[p] = <<>>
  <2>1. up[p] \in Seq(Says(p)) /\ Tail(up[p]) \in Seq(Says(p)) /\ Len(Tail(up[p])) = 0
    BY <1>1, <1>3, HeadTailProperties DEF ScriptsTypeOK
  <2> QED BY <1>1, <2>1, EmptySeq
<1> DEFINE answer == Answer(Head(up[p]), reply)
<1>5. /\ answer \in Seq(Messages) /\ answer # <<>> /\ answer[1] = reply
      /\ \A i \in 2 .. Len(answer) : answer[i] = "DATA"
  BY AnswerMessages
<1>6. down'[p] = down[p] \o answer
  BY <1>2
<1> HIDE DEF answer
<1>7. down'[p] = answer
  BY <1>3, <1>5, <1>6, FindsNothing, ConcatEmptySeq
<1>8. Len(answer) \in Nat \ {0} /\ \A i \in 1 .. Len(answer) : i = 1 \/ i \in 2 .. Len(answer)
  BY <1>5, EmptySeq
<1>9. reply # "START" /\ "DATA" # "START" /\ "DATA" \in Commands
  BY ReplyCodesAreNotCommands DEF Commands
<1>10. StartIsLast(p)'
  BY <1>5, <1>7, <1>8, <1>9 DEF StartIsLast
<1>11. Finds(p, <<reply>>, Commands)'
  BY <1>5, <1>7, <1>8, <1>9 DEF Finds
<1>12. reads[p] \in {"command", "answer"}
  BY DEF ScriptsTypeOK
<1> QED BY <1>3, <1>4, <1>10, <1>11, <1>12 DEF PinTalk, SameScript

(***************************************************************************)
(* ear.py and helloWorld.py ask for nothing that is answered by more than  *)
(* one message.                                                            *)
(***************************************************************************)
LEMMA OneReplyMore ==
    ASSUME TypeOK, NEW p \in Peripherals, NEW req \in {READY, PRINT, SETM}, NEW reply \in ReplyCodes,
           down'[p] = down[p] \o Answer(req, reply), NEW s \in Seq(Messages), Finds(p, s, {})
    PROVE  Finds(p, Append(s, reply), {})'
<1>1. reply \in Messages /\ down[p] \in Seq(Messages)
  BY DEF Messages, TypeOK
<1>2. down'[p] = Append(down[p], reply)
  <2>1. Answer(req, reply) = <<reply>>
    BY AnswersOnce
  <2>2. down[p] \o <<reply>> = Append(down[p], reply)
    BY <1>1, ConcatOne
  <2> QED BY <2>1, <2>2, Zenon
<1> QED BY <1>1, <1>2, FindsNext

LEMMA EarAfterRead ==
    ASSUME TypeOK, ScriptsTypeOK, Positions, NEW p \in Peripherals, Program[p] = "ear.py", EarTalk(p),
           SameScript(p), Alive(p), ReadCommand, p = cur
    PROVE  EarTalk(p)'
<1>1. /\ Reading(p) /\ ~Sending(p) /\ ~Away(p) /\ ~Launching(p)
      /\ up[p] # <<>> /\ up'[p] = Tail(up[p])
      /\ IF Head(up[p]) = READY THEN Away(p)' ELSE Sending(p)'
  BY ScriptIsAnswered, Places
<1>2. PICK reply \in ReplyCodes : /\ ReplyTo(p, Head(up[p]), reply)
                                  /\ down'[p] = down[p] \o Answer(Head(up[p]), reply)
  BY ScriptIsAnswered
<1>3. "START" \in Messages /\ "ACK" \in Messages /\ reply \in Messages
  BY DEF Messages, Commands, ReplyCodes, SetReplies
<1>4. READY # SETM
  BY DEF READY, SETM
<1>5. CASE Is(p, "START", "answer", <<SETM>>) /\ Finds(p, <<>>, {})
  <2>1. Head(up[p]) = SETM /\ up'[p] = <<>> /\ Sending(p)'
    BY <1>1, <1>4, <1>5, TailOfTuple DEF Is
  <2>2. <<>> \in Seq(Messages) /\ Append(<<>>, reply) = <<reply>>
    BY <1>3, AppendToEmpty, AppendToOne, AppendToTwo
  <2>3. Finds(p, <<reply>>, {})'
    BY <1>2, <1>5, <2>1, <2>2, OneReplyMore
  <2> QED BY <1>5, <2>1, <2>3 DEF EarTalk, Is, SameScript
<1>6. CASE Is(p, "IDLE", "answer", <<READY>>) /\ Finds(p, <<"START">>, {})
  <2>1. Head(up[p]) = READY /\ up'[p] = <<>> /\ Away(p)' /\ reply = "ACK"
    BY <1>1, <1>2, <1>6, TailOfTuple, ReadyAndPrint DEF Is
  <2>2. <<"START">> \in Seq(Messages) /\ Append(<<"START">>, "ACK") = <<"START", "ACK">>
    BY <1>3, AppendToEmpty, AppendToOne, AppendToTwo
  <2>3. Finds(p, <<"START", "ACK">>, {})'
    BY <1>2, <1>6, <2>1, <2>2, OneReplyMore
  <2>4. Finds(p, <<"START", "ACK">>, News)'
    BY <2>3 DEF Finds
  <2> QED BY <1>6, <2>1, <2>4 DEF EarTalk, Is, SameScript
<1>7. CASE Is(p, "IDLE", "command", <<READY>>) /\ Finds(p, <<>>, {})
  <2>1. Head(up[p]) = READY /\ up'[p] = <<>> /\ Away(p)' /\ reply = "ACK"
    BY <1>1, <1>2, <1>7, TailOfTuple, ReadyAndPrint DEF Is
  <2>2. <<>> \in Seq(Messages) /\ Append(<<>>, "ACK") = <<"ACK">>
    BY <1>3, AppendToEmpty, AppendToOne, AppendToTwo
  <2>3. Finds(p, <<"ACK">>, {})'
    BY <1>2, <1>7, <2>1, <2>2, OneReplyMore
  <2>4. Finds(p, <<"ACK">>, News)'
    BY <2>3 DEF Finds
  <2> QED BY <1>7, <2>1, <2>4 DEF EarTalk, Is, SameScript
<1> QED BY <1>1, <1>5, <1>6, <1>7 DEF EarTalk, Starts, Is

LEMMA HelloAfterRead ==
    ASSUME TypeOK, ScriptsTypeOK, Positions, NEW p \in Peripherals, Program[p] = "helloWorld.py",
           HelloTalk(p), SameScript(p), Alive(p), ReadCommand, p = cur
    PROVE  HelloTalk(p)'
<1>1. /\ Reading(p) /\ ~Sending(p) /\ ~Away(p) /\ ~Launching(p)
      /\ up[p] # <<>> /\ up'[p] = Tail(up[p]) /\ Head(up[p]) \in {READY, PRINT}
      /\ IF Head(up[p]) = READY THEN Away(p)' ELSE Sending(p)'
  BY ScriptIsAnswered, Places, Sayings
<1>2. down'[p] = down[p] \o Answer(Head(up[p]), "ACK")
  BY <1>1, ScriptIsAnswered, ReadyAndPrint
<1>3. "START" \in Messages /\ "ACK" \in Messages /\ "ACK" \in ReplyCodes
  BY DEF Messages, Commands, ReplyCodes, SetReplies
<1>4. READY # PRINT
  BY DEF READY, PRINT
<1>5. /\ Finds(p, <<>>, {}) => Finds(p, <<"ACK">>, {})'
      /\ Finds(p, <<"START">>, {}) => Finds(p, <<"START", "ACK">>, {})'
      /\ Finds(p, <<"ACK", "START">>, {}) => Finds(p, <<"ACK", "START", "ACK">>, {})'
  <2>1. /\ <<>> \in Seq(Messages) /\ <<"START">> \in Seq(Messages) /\ <<"ACK", "START">> \in Seq(Messages)
        /\ Append(<<>>, "ACK") = <<"ACK">> /\ Append(<<"START">>, "ACK") = <<"START", "ACK">>
        /\ Append(<<"ACK", "START">>, "ACK") = <<"ACK", "START", "ACK">>
    BY <1>3, AppendToEmpty, AppendToOne, AppendToTwo
  <2>2. \A s \in Seq(Messages) : Finds(p, s, {}) => Finds(p, Append(s, "ACK"), {})'
    BY <1>1, <1>2, <1>3, OneReplyMore
  <2> QED BY <2>1, <2>2
<1>6. \A s : Finds(p, s, {})' => Finds(p, s, {"KILL"})'
  BY DEF Finds
<1>7. CASE Is(p, "READY", "answer", <<PRINT, READY>>) /\ Finds(p, <<>>, {})
  <2>1. up'[p] = <<READY>> /\ Sending(p)'
    BY <1>1, <1>4, <1>7, TailOfTuple DEF Is
  <2> QED BY <1>5, <1>7, <2>1 DEF HelloTalk, Is, SameScript
<1>8. CASE Is(p, "READY", "answer", <<READY>>) /\ Finds(p, <<"ACK", "START">>, {})
  <2>1. up'[p] = <<>> /\ Away(p)'
    BY <1>1, <1>8, TailOfTuple DEF Is
  <2> QED BY <1>5, <1>6, <1>8, <2>1 DEF HelloTalk, Is, SameScript
<1>9. CASE Is(p, "READY", "command", <<READY>>) /\ Finds(p, <<"START">>, {})
  <2>1. up'[p] = <<>> /\ Away(p)'
    BY <1>1, <1>9, TailOfTuple DEF Is
  <2> QED BY <1>5, <1>6, <1>9, <2>1 DEF HelloTalk, Is, SameScript
<1>10. CASE Is(p, "READY", "answer", <<READY, READY>>) /\ Finds(p, <<>>, {})
  <2>1. up'[p] = <<READY>> /\ Away(p)'
    BY <1>1, <1>10, TailOfTuple DEF Is
  <2> QED BY <1>5, <1>6, <1>10, <2>1 DEF HelloTalk, Is, SameScript
<1> QED BY <1>1, <1>7, <1>8, <1>9, <1>10 DEF HelloTalk, Starts, Is

-----------------------------------------------------------------------------
(***************************************************************************)
(* The steps of the scripts.                                               *)
(***************************************************************************)
LEMMA ScriptTakes ==
    ASSUME TypeOK, NEW p \in Peripherals, down[p] # <<>>, Take(p)
    PROVE  down'[p] = Tail(down[p]) /\ down[p] \in Seq(Messages)
  BY Takes DEF TypeOK, Messages

LEMMA ContinuesAt ==
    ASSUME TypeOK, ScriptsTypeOK, NEW p \in Peripherals, NEW next, NEW sent, NEW expected,
           Continues(p, next, sent, expected)
    PROVE  state'[p] = next /\ reads'[p] = expected /\ up'[p] = up[p] \o sent
  BY DEF Continues, TypeOK, ScriptsTypeOK

LEMMA ExitsAt ==
    ASSUME TypeOK, ScriptsTypeOK, NEW p \in Peripherals, NEW code, Exits(p, code)
    PROVE  state'[p] = code /\ reads'[p] = reads[p] /\ up'[p] = up[p] /\ ~Alive(p)'
  BY DEF Exits, Become, TypeOK, ScriptsTypeOK, Alive

(***************************************************************************)
(* What a step of script p leads to.                                       *)
(***************************************************************************)
Continuing(p) ==
    /\ state'[p] \in Asking \cup {"START", "IDLE", "exit(0)"}
    /\ reads'[p] \in {"command", "answer"}
    /\ up'[p] \in Seq(Says(p)) /\ Len(up'[p]) <= 2

LEMMA SentOne ==
    ASSUME NEW p, NEW m \in Says(p), up[p] = <<>>, up'[p] = up[p] \o <<m>>
    PROVE  up'[p] = <<m>> /\ up'[p] \in Seq(Says(p)) /\ Len(up'[p]) = 1
<1>1. <<>> \in Seq(Says(p)) /\ Append(<<>>, m) = <<m>>
  BY AppendToEmpty
<1>2. <<>> \o <<m>> = <<m>>
  BY <1>1, ConcatOne
<1> QED BY <1>2

LEMMA SentNothing ==
    ASSUME ScriptsTypeOK, NEW p \in Peripherals, up'[p] = up[p] \o <<>>
    PROVE  up'[p] = up[p]
  BY ConcatEmptySeq DEF ScriptsTypeOK

(***************************************************************************)
(* A START is the last message pin.py reads before its request.            *)
(***************************************************************************)
LEMMA StartTaken ==
    ASSUME TypeOK, NEW p \in Peripherals, down[p] # <<>>, down'[p] = Tail(down[p]), StartIsLast(p),
           Head(down[p]) = "START"
    PROVE  Reading(p) /\ up[p] = <<>> /\ down'[p] = <<>> /\ Finds(p, <<>>, {})' /\ StartIsLast(p)'
<1>1. /\ down[p] \in Seq(Messages) /\ Len(down[p]) \in Nat \ {0} /\ down[p][1] = "START"
      /\ Tail(down[p]) \in Seq(Messages) /\ Len(Tail(down[p])) = Len(down[p]) - 1
  BY HeadTailProperties, EmptySeq DEF TypeOK, Messages
<1>2. Len(down[p]) = 1 /\ Reading(p) /\ up[p] = <<>>
  <2>1. 1 \in 1 .. Len(down[p])
    BY <1>1
  <2> QED BY <1>1, <2>1 DEF StartIsLast
<1>3. Tail(down[p]) = <<>>
  <2>1. Len(Tail(down[p])) = 0
    BY <1>1, <1>2
  <2> QED BY <1>1, <2>1, EmptySeq
<1>4. Len(down'[p]) = 0
  BY <1>3, EmptySeq
<1>5. Finds(p, <<>>, {})' /\ StartIsLast(p)'
  BY <1>4, EmptySeq DEF Finds, StartIsLast
<1> QED BY <1>2, <1>3, <1>5

LEMMA StartStaysLast ==
    ASSUME TypeOK, NEW p \in Peripherals, down[p] # <<>>, down'[p] = Tail(down[p]), StartIsLast(p),
           up'[p] = up[p], Reading(p) => Reading(p)'
    PROVE  StartIsLast(p)'
<1>1. /\ Len(down[p]) \in Nat \ {0} /\ Len(down'[p]) = Len(down[p]) - 1
      /\ \A i \in 1 .. Len(down'[p]) : down'[p][i] = down[p][i + 1]
  <2>1. down[p] \in Seq(Messages)
    BY DEF TypeOK, Messages
  <2> QED BY <2>1, HeadTailProperties, EmptySeq
<1> QED BY <1>1 DEF StartIsLast

LEMMA PinStep ==
    ASSUME TypeOK, ScriptsTypeOK, NEW p \in Peripherals, Program[p] = "pin.py", PinTalk(p), Pin(p),
           Reading(p) => Reading(p)'
    PROVE  Continuing(p) /\ (Alive(p)' => PinTalk(p)')
<1>1. up[p] \in Seq(Says(p)) /\ Says(p) = {Requested[s] : s \in Asking} /\ READY \in Says(p)
  BY Sayings, PinStates DEF ScriptsTypeOK, Requested
<1>2. Commands = {"START", "DATA", "KILL"}
  BY DEF Commands
<1>3. down[p] # <<>> /\ down'[p] = Tail(down[p]) /\ down[p] \in Seq(Messages)
  <2>1. down[p] # <<>> /\ Take(p)
    BY DEF Pin, Killed, PinNotes, PinAsks, PinIdles, Answered, Commanded, TakesCommand, TakesAnswer
  <2> QED BY <2>1, ScriptTakes
<1>4. /\ up[p] = <<>> /\ StartIsLast(p) /\ state[p] \in Asking \cup {"IDLE"}
      /\ \/ reads[p] = "answer" /\ \E reply \in ReplyCodes : Finds(p, <<reply>>, Commands)
         \/ reads[p] = "command" /\ (state[p] = "IDLE" \/ Finds(p, <<>>, Commands))
  BY <1>3, FindsNothing DEF PinTalk
<1>5. CASE Killed(p)
  BY <1>1, <1>4, <1>5, ExitsAt DEF Killed, Continuing, ScriptsTypeOK
<1>6. ASSUME state'[p] = state[p], reads'[p] = "command", up'[p] = up[p] \o <<>>,
             state[p] = "IDLE" \/ Finds(p, <<>>, Commands)'
      PROVE  Continuing(p) /\ PinTalk(p)'
  <2>1. up'[p] = <<>>
    BY <1>4, <1>6, SentNothing
  <2>2. StartIsLast(p)'
    BY <1>3, <1>4, <2>1, StartStaysLast
  <2> QED BY <1>1, <1>4, <1>6, <2>1, <2>2 DEF PinTalk, Continuing
<1>7. CASE PinNotes(p)
  <2>1. /\ reads[p] = "command" /\ state'[p] = state[p] /\ reads'[p] = "command"
        /\ up'[p] = up[p] \o <<>>
    BY <1>7, ContinuesAt DEF PinNotes, TakesCommand
  <2>2. Finds(p, <<>>, Commands) => Finds(p, <<>>, Commands)'
    BY <1>3, FindsRest
  <2> QED BY <1>4, <1>6, <2>1, <2>2
<1>8. CASE Answered(p)
  <2>1. /\ reads[p] = "answer" /\ state'[p] = state[p] /\ reads'[p] = "command"
        /\ up'[p] = up[p] \o <<>>
    BY <1>8, ContinuesAt DEF Answered, TakesAnswer
  <2>2. PICK reply \in ReplyCodes : Finds(p, <<reply>>, Commands)
    BY <1>4, <2>1
  <2>3. reply \in Messages /\ <<reply>> \in Seq(Messages) /\ <<reply>> # <<>> /\ Tail(<<reply>>) = <<>>
    BY TailOfTuple DEF Messages
  <2>4. Finds(p, <<>>, Commands)'
    BY <1>3, <2>2, <2>3, FindsTaken
  <2> QED BY <1>6, <2>1, <2>4
<1>9. ASSUME NEW next \in Asking \cup {"IDLE"}, NEW m \in Says(p), NEW expected \in {"command", "answer"},
             Continues(p, next, <<m>>, expected), Head(down[p]) = "START",
             expected = "answer" \/ next = "IDLE"
      PROVE  Continuing(p) /\ PinTalk(p)'
  <2>1. Reading(p) /\ Finds(p, <<>>, {})' /\ StartIsLast(p)'
    BY <1>3, <1>4, <1>9, StartTaken
  <2>2. state'[p] = next /\ reads'[p] = expected /\ up'[p] = up[p] \o <<m>>
    BY <1>9, ContinuesAt
  <2>3. up'[p] \in Seq(Says(p)) /\ Len(up'[p]) = 1
    BY <1>4, <2>2, SentOne
  <2> QED BY <1>9, <2>1, <2>2, <2>3 DEF Continuing, PinTalk
<1>10. CASE PinAsks(p)
  <2>1. reads[p] = "command" /\ state[p] \in Asking /\ Head(down[p]) \notin {"KILL", "DATA"}
    BY <1>10 DEF PinAsks, Commanded, TakesCommand, note
  <2>2. state[p] # "IDLE"
    BY <2>1, PinStates
  <2>3. Head(down[p]) \in Commands
    BY <1>3, <1>4, <2>1, <2>2, FindsRest
  <2>4. Head(down[p]) = "START"
    BY <1>2, <2>1, <2>3
  <2>5. Continues(p, After[state[p]], <<Requested[state[p]]>>, IF state[p] = "WRITEE" THEN "command" ELSE "answer")
    BY <1>10, <2>4 DEF PinAsks, PinAsksNext
  <2>6. Requested[state[p]] \in Says(p)
    BY <1>1, <2>1
  <2> QED BY <1>9, <2>1, <2>4, <2>5, <2>6, PinRequests
<1>11. CASE PinIdles(p)
  <2>1. reads[p] = "command" /\ state[p] = "IDLE"
    BY <1>11 DEF PinIdles, Commanded, TakesCommand
  <2>2. CASE Head(down[p]) = "START"
    BY <1>1, <1>9, <1>11, <2>2 DEF PinIdles
  <2>3. CASE Head(down[p]) # "START"
    <3>1. state'[p] = "IDLE" /\ reads'[p] = "command" /\ up'[p] = up[p] \o <<>>
      BY <1>11, <2>3, ContinuesAt DEF PinIdles
    <3> QED BY <1>6, <2>1, <3>1
  <2> QED BY <2>2, <2>3
<1> QED BY <1>5, <1>6, <1>7, <1>8, <1>10, <1>11 DEF Pin

(***************************************************************************)
(* The other two scripts know what they find.                              *)
(***************************************************************************)
LEMMA TakenFromTuple ==
    ASSUME TypeOK, NEW p \in Peripherals, down[p] # <<>>, down'[p] = Tail(down[p])
    PROVE  /\ \A rest : Finds(p, <<>>, rest) => Head(down[p]) \in rest /\ Finds(p, <<>>, rest)'
           /\ \A m \in Messages : \A rest :
                Finds(p, <<m>>, rest) => Head(down[p]) = m /\ Finds(p, <<>>, rest)'
           /\ \A m, n \in Messages : \A rest :
                Finds(p, <<m, n>>, rest) => Head(down[p]) = m /\ Finds(p, <<n>>, rest)'
           /\ \A l, m, n \in Messages : \A rest :
                Finds(p, <<l, m, n>>, rest) => Head(down[p]) = l /\ Finds(p, <<m, n>>, rest)'
<1>1. \A s \in Seq(Messages) : \A rest :
        s # <<>> /\ Finds(p, s, rest) => Head(down[p]) = s[1] /\ Finds(p, Tail(s), rest)'
  BY FindsTaken
<1>2. ASSUME NEW m \in Messages
      PROVE  <<m>> \in Seq(Messages) /\ <<m>> # <<>> /\ <<m>>[1] = m /\ Tail(<<m>>) = <<>>
  BY TailOfTuple
<1>3. ASSUME NEW m \in Messages, NEW n \in Messages
      PROVE  <<m, n>> \in Seq(Messages) /\ <<m, n>> # <<>> /\ <<m, n>>[1] = m /\ Tail(<<m, n>>) = <<n>>
  BY TailOfTuple
<1>4. ASSUME NEW l \in Messages, NEW m \in Messages, NEW n \in Messages
      PROVE  /\ <<l, m, n>> \in Seq(Messages) /\ <<l, m, n>> # <<>>
             /\ <<l, m, n>>[1] = l /\ Tail(<<l, m, n>>) = <<m, n>>
  BY TailOfTuple
<1>5. ASSUME NEW m \in Messages, NEW rest, Finds(p, <<m>>, rest)
      PROVE  Head(down[p]) = m /\ Finds(p, <<>>, rest)'
  BY <1>1, <1>2, <1>5
<1>6. ASSUME NEW m \in Messages, NEW n \in Messages, NEW rest, Finds(p, <<m, n>>, rest)
      PROVE  Head(down[p]) = m /\ Finds(p, <<n>>, rest)'
  BY <1>1, <1>3, <1>6
<1>7. ASSUME NEW l \in Messages, NEW m \in Messages, NEW n \in Messages, NEW rest,
             Finds(p, <<l, m, n>>, rest)
      PROVE  Head(down[p]) = l /\ Finds(p, <<m, n>>, rest)'
  <2> DEFINE s == <<l, m, n>>
  <2>1. s \in Seq(Messages) /\ s # <<>> /\ s[1] = l /\ Tail(s) = <<m, n>>
    BY <1>4
  <2>2. Finds(p, s, rest)
    BY <1>7
  <2> HIDE DEF s
  <2> QED BY <1>1, <2>1, <2>2
<1>8. \A rest : Finds(p, <<>>, rest) => Head(down[p]) \in rest /\ Finds(p, <<>>, rest)'
  BY FindsRest
<1> QED BY <1>5, <1>6, <1>7, <1>8

LEMMA EarStep ==
    ASSUME TypeOK, ScriptsTypeOK, Positions, NEW p \in Peripherals, Program[p] = "ear.py", EarTalk(p), Ear(p),
           UNCHANGED simVars
    PROVE  Continuing(p) /\ (Alive(p)' => EarTalk(p)')
<1>1. /\ up[p] \in Seq(Says(p)) /\ Len(up[p]) <= 2 /\ Says(p) = {SETM, READY}
      /\ state[p] \in Asking \cup {"START", "IDLE", "exit(0)", "exit(1)"} /\ reads[p] \in {"command", "answer"}
  BY Sayings DEF ScriptsTypeOK
<1>2. /\ Sending(p)' = Sending(p) /\ Reading(p)' = Reading(p) /\ Away(p)' = Away(p)
      /\ Launching(p)' = Launching(p)
  BY DEF Sending, Reading, Away, Launching, simVars
<1>3. down[p] # <<>> /\ down'[p] = Tail(down[p]) /\ down[p] \in Seq(Messages)
  <2>1. down[p] # <<>> /\ Take(p)
    BY DEF Ear, Killed, EarStarts, EarIdles, Answered, Commanded, TakesCommand, TakesAnswer
  <2> QED BY <2>1, ScriptTakes
<1>4. ~Finds(p, <<>>, {})
  BY <1>3, FindsNothing
<1>5. /\ "START" \in Messages /\ "ACK" \in Messages /\ ReplyCodes \subseteq Messages
      /\ \A rest : Finds(p, <<"START">>, rest) => Head(down[p]) = "START" /\ Finds(p, <<>>, rest)'
      /\ \A rest : Finds(p, <<"ACK">>, rest) => Head(down[p]) = "ACK" /\ Finds(p, <<>>, rest)'
      /\ \A rest : Finds(p, <<"START", "ACK">>, rest) => Head(down[p]) = "START" /\ Finds(p, <<"ACK">>, rest)'
      /\ \A rest : Finds(p, <<>>, rest) => Head(down[p]) \in rest /\ Finds(p, <<>>, rest)'
      /\ \A reply \in ReplyCodes : Finds(p, <<reply>>, {}) => Finds(p, <<>>, {})'
      /\ \A reply \in ReplyCodes : Finds(p, <<reply, "START">>, {}) => Finds(p, <<"START">>, {})'
  <2>1. "START" \in Messages /\ "ACK" \in Messages /\ ReplyCodes \subseteq Messages
    BY DEF Messages, Commands, ReplyCodes, SetReplies
  <2> QED BY <1>3, <2>1, TakenFromTuple
<1>6. CASE Killed(p)
  BY <1>1, <1>6, ExitsAt DEF Killed, Continuing
<1>7. CASE EarStarts(p)
  <2>1. state[p] = "START"
    BY <1>7 DEF EarStarts
  <2>2. CASE Commanded(p, {})
    <3>1. reads[p] = "command" /\ Reading(p) /\ up[p] = <<>> /\ Finds(p, <<"START">>, {})
      BY <1>4, <2>1, <2>2 DEF Commanded, TakesCommand, EarTalk, Starts, Is
    <3>2. Head(down[p]) = "START" /\ Finds(p, <<>>, {})'
      BY <1>5, <3>1
    <3>3. Continues(p, "START", <<SETM>>, "answer")
      BY <1>7, <2>1, <2>2, <3>1, <3>2 DEF EarStarts, SETM, TakesAnswer
    <3>4. state'[p] = "START" /\ reads'[p] = "answer" /\ up'[p] = up[p] \o <<SETM>>
      BY <3>3, ContinuesAt
    <3>5. up'[p] = <<SETM>> /\ up'[p] \in Seq(Says(p)) /\ Len(up'[p]) = 1
      BY <1>1, <3>1, <3>4, SentOne
    <3> QED BY <1>2, <3>1, <3>2, <3>4, <3>5 DEF EarTalk, Is, Continuing
  <2>3. CASE TakesAnswer(p)
    <3>1. PICK reply \in ReplyCodes :
            /\ up[p] = <<>>
            /\ \/ Sending(p) /\ Finds(p, <<reply>>, {})
               \/ Reading(p) /\ Finds(p, <<reply, "START">>, {})
      BY <1>4, <2>1, <2>3 DEF TakesAnswer, EarTalk, Starts, Is
    <3>2. Continues(p, "IDLE", <<READY>>, "answer")
      BY <1>7, <2>3 DEF EarStarts, Commanded, TakesCommand, TakesAnswer
    <3>3. state'[p] = "IDLE" /\ reads'[p] = "answer" /\ up'[p] = up[p] \o <<READY>>
      BY <3>2, ContinuesAt
    <3>4. up'[p] = <<READY>> /\ up'[p] \in Seq(Says(p)) /\ Len(up'[p]) = 1
      BY <1>1, <3>1, <3>3, SentOne
    <3> QED BY <1>2, <1>5, <3>1, <3>3, <3>4 DEF EarTalk, Is, Continuing
  <2> QED BY <1>7, <2>2, <2>3 DEF EarStarts
<1>8. CASE EarIdles(p)
  <2>1. state[p] = "IDLE"
    BY <1>8 DEF EarIdles
  <2>2. CASE Commanded(p, {})
    <3>1. /\ reads[p] = "command" /\ up[p] = <<>> /\ Away(p)
          /\ Finds(p, <<"ACK">>, News) \/ Finds(p, <<>>, News)
      BY <1>4, <2>1, <2>2 DEF Commanded, TakesCommand, EarTalk, Starts, Is
    <3>2. Head(down[p]) # "START" /\ Finds(p, <<>>, News)'
      BY <1>5, <3>1 DEF News
    <3>3. Continues(p, "IDLE", <<>>, "command")
      BY <1>8, <2>2, <3>1, <3>2 DEF EarIdles, Answered, TakesAnswer
    <3>4. state'[p] = "IDLE" /\ reads'[p] = "command" /\ up'[p] = <<>>
      BY <3>1, <3>3, ContinuesAt, SentNothing
    <3> QED BY <1>1, <1>2, <3>1, <3>2, <3>4 DEF EarTalk, Is, Continuing
  <2>3. CASE Answered(p)
    <3>1. state'[p] = "IDLE" /\ reads'[p] = "command" /\ up'[p] = up[p]
      BY <2>1, <2>3, ContinuesAt, SentNothing DEF Answered
    <3>2. \/ up[p] = <<READY>> /\ Reading(p) /\ Finds(p, <<"START">>, {})
          \/ up[p] = <<>> /\ Away(p) /\ Finds(p, <<"START", "ACK">>, News)
      BY <1>4, <2>1, <2>3 DEF Answered, TakesAnswer, EarTalk, Starts, Is
    <3> QED BY <1>1, <1>2, <1>5, <3>1, <3>2 DEF EarTalk, Is, Continuing
  <2> QED BY <1>8, <2>2, <2>3 DEF EarIdles
<1> QED BY <1>6, <1>7, <1>8 DEF Ear

LEMMA HelloStep ==
    ASSUME TypeOK, ScriptsTypeOK, Positions, NEW p \in Peripherals, Program[p] = "helloWorld.py",
           HelloTalk(p), HelloWorld(p), UNCHANGED simVars
    PROVE  Continuing(p) /\ (Alive(p)' => HelloTalk(p)')
<1>1. /\ up[p] \in Seq(Says(p)) /\ Len(up[p]) <= 2 /\ Says(p) = {PRINT, READY}
      /\ state[p] \in Asking \cup {"START", "IDLE", "exit(0)", "exit(1)"} /\ reads[p] \in {"command", "answer"}
      /\ "READY" \in Asking
  BY Sayings, PinStates DEF ScriptsTypeOK
<1>2. /\ Sending(p)' = Sending(p) /\ Reading(p)' = Reading(p) /\ Away(p)' = Away(p)
      /\ Launching(p)' = Launching(p)
  BY DEF Sending, Reading, Away, Launching, simVars
<1>3. down[p] # <<>> /\ down'[p] = Tail(down[p]) /\ down[p] \in Seq(Messages)
  <2>1. down[p] # <<>> /\ Take(p)
    BY DEF HelloWorld, Killed, HelloStarts, HelloRepeats, Answered, Commanded, TakesCommand, TakesAnswer
  <2> QED BY <2>1, ScriptTakes
<1>4. ~Finds(p, <<>>, {})
  BY <1>3, FindsNothing
<1>5. /\ Finds(p, <<"START">>, {}) => Head(down[p]) = "START" /\ Finds(p, <<>>, {})'
      /\ \A rest : Finds(p, <<"ACK">>, rest) => Finds(p, <<>>, rest)'
      /\ Finds(p, <<"ACK", "START">>, {}) => Finds(p, <<"START">>, {})'
      /\ \A rest : Finds(p, <<"START", "ACK">>, rest) => Head(down[p]) = "START" /\ Finds(p, <<"ACK">>, rest)'
      /\ \A rest : Finds(p, <<"ACK", "START", "ACK">>, rest) => Finds(p, <<"START", "ACK">>, rest)'
      /\ Finds(p, <<>>, {"KILL"}) => Head(down[p]) = "KILL"
  <2>1. "START" \in Messages /\ "ACK" \in Messages
    BY DEF Messages, Commands, ReplyCodes, SetReplies
  <2> QED BY <1>3, <2>1, TakenFromTuple
<1>6. CASE Killed(p)
  BY <1>1, <1>6, ExitsAt DEF Killed, Continuing
<1>7. CASE HelloStarts(p)
  <2>1. up[p] = <<>> /\ Reading(p) /\ Finds(p, <<"START">>, {})
    BY <1>4, <1>7 DEF HelloStarts, Commanded, TakesCommand, HelloTalk, Starts, Is
  <2>2. Continues(p, "READY", <<PRINT, READY>>, "answer")
    BY <1>5, <1>7, <2>1 DEF HelloStarts, PRINT
  <2>3. state'[p] = "READY" /\ reads'[p] = "answer" /\ up'[p] = up[p] \o <<PRINT, READY>>
    BY <2>2, ContinuesAt
  <2>4. up'[p] = <<PRINT, READY>>
    <3>1. <<>> \o <<PRINT, READY>> = <<PRINT, READY>>
      <4>1. <<PRINT, READY>> \in Seq(Says(p))
        BY <1>1
      <4> QED BY <4>1, ConcatEmptySeq
    <3> QED BY <2>1, <2>3, <3>1, Zenon
  <2>5. up'[p] \in Seq(Says(p)) /\ Len(up'[p]) = 2
    BY <1>1, <2>4
  <2> QED BY <1>1, <1>2, <1>5, <2>1, <2>3, <2>4, <2>5 DEF HelloTalk, Is, Continuing
<1>8. CASE HelloRepeats(p)
  <2>1. state'[p] = "READY" /\ reads'[p] = "answer" /\ up'[p] = up[p] \o <<READY>>
    BY <1>8, ContinuesAt DEF HelloRepeats
  <2>2. reads[p] = "command" /\ state[p] = "READY" /\ Head(down[p]) # "KILL"
    BY <1>8 DEF HelloRepeats, Commanded, TakesCommand
  <2>3. CASE up[p] = <<READY>> /\ Reading(p) /\ Finds(p, <<"START">>, {})
    <3>1. up'[p] = <<READY, READY>>
      <4>1. <<READY>> \o <<READY>> = <<READY, READY>>
        <5>1. READY \in Says(p) /\ <<READY>> \in Seq(Says(p))
          BY <1>1
        <5>2. Append(<<READY>>, READY) = <<READY, READY>>
          BY <5>1, AppendToOne
        <5>3. <<READY>> \o <<READY>> = Append(<<READY>>, READY)
          BY <5>1, ConcatOne
        <5> QED BY <5>2, <5>3, Zenon
      <4> QED BY <2>1, <2>3, <4>1, Zenon
    <3>2. up'[p] \in Seq(Says(p)) /\ Len(up'[p]) = 2
      BY <1>1, <3>1
    <3>3. Is(p, "READY", "answer", <<READY, READY>>)' /\ Reading(p)' /\ Finds(p, <<>>, {})'
      BY <1>2, <1>5, <2>1, <2>3, <3>1 DEF Is
    <3>4. HelloTalk(p)'
      BY <3>3 DEF HelloTalk
    <3> QED BY <1>1, <2>1, <3>2, <3>4 DEF Continuing
  <2>4. CASE up[p] = <<>> /\ Away(p) /\ Finds(p, <<"START", "ACK">>, {"KILL"})
    <3>1. up'[p] = <<READY>> /\ up'[p] \in Seq(Says(p)) /\ Len(up'[p]) = 1
      BY <1>1, <2>1, <2>4, SentOne
    <3> QED BY <1>1, <1>2, <1>5, <2>1, <2>4, <3>1 DEF HelloTalk, Is, Continuing
  <2> QED BY <1>4, <1>5, <2>2, <2>3, <2>4 DEF HelloTalk, Starts, Is
<1>9. CASE Answered(p)
  <2>1. state'[p] = state[p] /\ reads'[p] = "command" /\ up'[p] = up[p]
    BY <1>9, ContinuesAt, SentNothing DEF Answered
  <2>2. reads[p] = "answer"
    BY <1>9 DEF Answered, TakesAnswer
  <2>3. state[p] = "READY"
    BY <2>2 DEF HelloTalk, Starts, Is
  <2>4. CASE up[p] = <<READY>>
    <3>1. \/ Sending(p) /\ Finds(p, <<"ACK">>, {})
          \/ Reading(p) /\ Finds(p, <<"ACK", "START">>, {})
          \/ Away(p) /\ Finds(p, <<"ACK">>, {"KILL"})
      BY <1>4, <2>2, <2>4 DEF HelloTalk, Starts, Is
    <3> QED BY <1>1, <1>2, <1>5, <2>1, <2>3, <2>4, <3>1 DEF HelloTalk, Is, Continuing
  <2>5. CASE up[p] = <<>> /\ Away(p) /\ Finds(p, <<"ACK", "START", "ACK">>, {"KILL"})
    BY <1>1, <1>2, <1>5, <2>1, <2>3, <2>5 DEF HelloTalk, Is, Continuing
  <2> QED BY <1>4, <2>2, <2>4, <2>5 DEF HelloTalk, Starts, Is
<1> QED BY <1>6, <1>7, <1>8, <1>9 DEF HelloWorld

-----------------------------------------------------------------------------
(***************************************************************************)
(* Every step is one of Sessions that leaves the scripts alone, or a step  *)
(* of one script.                                                          *)
(***************************************************************************)
ProcessFails(p) == Exec(p) \/ ChildExits(p) \/ ExecFails(p) \/ IsKilled(p)

SessionStep ==
    /\ \/ Simulator \/ OpenFails \/ Execute \/ Terminal \/ Finish \/ UNCHANGED vars
       \/ \E p \in Peripherals : ProcessFails(p)
    /\ UNCHANGED scriptVars

LEMMA StepsOfScripts == [ScriptsNext]_allVars => SessionStep \/ \E p \in Peripherals : Script(p)
  BY DEF ScriptsNext, SessionStep, ScriptProcess, ProcessFails, IsKilled, Terminated, allVars

LEMMA SessionStepIsNext == SessionStep => [Next]_vars /\ UNCHANGED <<state, reads>>
<1>1. ASSUME NEW p \in Peripherals, IsKilled(p)
      PROVE  Dies(p)
  BY <1>1 DEF IsKilled, Dies, Running
<1> QED BY <1>1 DEF SessionStep, ProcessFails, Next, Process, scriptVars

(***************************************************************************)
(* A script leaves the simulator, the tables and the other scripts alone.  *)
(***************************************************************************)
LEMMA ScriptAlone ==
    ASSUME TypeOK, ScriptsTypeOK, NEW p \in Peripherals, Script(p)
    PROVE  /\ UNCHANGED <<listenerVars, simVars, live, todo>>
           /\ proc[p] = "await" /\ proc'[p] \in {"await", "exited"}
           /\ proc' \in [Peripherals -> Running \cup {"none", "forked", "failing", "exited"}]
           /\ down[p] # <<>> /\ Take(p)
           /\ up' = [up EXCEPT ![p] = up'[p]]
           /\ state' = [state EXCEPT ![p] = state'[p]]
           /\ reads' = [reads EXCEPT ![p] = reads'[p]]
           /\ \A q \in Peripherals \ {p} : UNCHANGED <<proc[q], down[q], up[q], state[q], reads[q]>>
<1>1. /\ proc[p] = "await" /\ down[p] # <<>> /\ Take(p)
      /\ \/ \E next, sent, expected : Continues(p, next, sent, expected)
         \/ \E code : Exits(p, code)
  BY DEF Script, Pin, Ear, HelloWorld, Killed, PinNotes, PinAsks, PinAsksNext, PinIdles, Answered,
         EarStarts, EarIdles, HelloStarts, HelloRepeats, Commanded, TakesCommand, TakesAnswer
<1>2. UNCHANGED <<listenerVars, simVars, live, todo>>
  BY DEF Script
<1>3. /\ proc \in [Peripherals -> Running \cup {"none", "forked", "failing", "exited"}]
      /\ up \in [Peripherals -> Seq(Requests \cup {READY, TORN})]
      /\ state \in [Peripherals -> Asking \cup {"START", "IDLE", "exit(0)", "exit(1)"}]
      /\ reads \in [Peripherals -> {"command", "answer"}]
  BY DEF TypeOK, ScriptsTypeOK
<1>4. \A q \in Peripherals \ {p} : down'[q] = down[q]
  BY <1>1, Takes
<1>5. CASE \E next, sent, expected : Continues(p, next, sent, expected)
  BY <1>1, <1>2, <1>3, <1>4, <1>5 DEF Continues
<1>6. CASE \E code : Exits(p, code)
  BY <1>1, <1>2, <1>3, <1>4, <1>6 DEF Exits, Become
<1> QED BY <1>1, <1>5, <1>6

LEMMA ScriptContinues ==
    ASSUME TypeOK, ScriptsTypeOK, Positions, NEW p \in Peripherals, ScriptTalk(p), Script(p)
    PROVE  Continuing(p) /\ (Alive(p)' => ScriptTalk(p)')
<1>1. UNCHANGED simVars
  BY DEF Script
<1>2. Reading(p) => Reading(p)'
  BY <1>1 DEF Reading, simVars
<1> QED BY <1>1, <1>2, PinStep, EarStep, HelloStep DEF Script, ScriptTalk

-----------------------------------------------------------------------------
LEMMA ScriptKeepsTypes ==
    ASSUME TypeOK, ScriptsTypeOK, NEW p \in Peripherals, Script(p), Continuing(p)
    PROVE  TypeOK' /\ ScriptsTypeOK'
<1>1. /\ UNCHANGED <<listenerVars, simVars, live, todo>> /\ down[p] # <<>> /\ Take(p)
      /\ proc' \in [Peripherals -> Running \cup {"none", "forked", "failing", "exited"}]
      /\ up' = [up EXCEPT ![p] = up'[p]]
      /\ state' = [state EXCEPT ![p] = state'[p]]
      /\ reads' = [reads EXCEPT ![p] = reads'[p]]
  BY ScriptAlone
<1>2. down' \in [Peripherals -> Seq(Messages)] /\ \A q \in Peripherals : Len(down'[q]) <= PipeCap
  BY <1>1, Takes
<1>3. up' \in [Peripherals -> Seq(Requests \cup {READY, TORN})]
  <2>1. up'[p] \in Seq(Requests \cup {READY, TORN})
    BY SaysAssumption, SeqMonotonic DEF Continuing
  <2> QED BY <1>1, <2>1 DEF TypeOK
<1>4. TypeOK'
  BY <1>1, <1>2, <1>3 DEF TypeOK, Messages, ListenersTypeOK, listenerVars, tables, writers, simVars
<1>5. /\ state' \in [Peripherals -> Asking \cup {"START", "IDLE", "exit(0)", "exit(1)"}]
      /\ reads' \in [Peripherals -> {"command", "answer"}]
  <2> DEFINE next == state'[p]
             expected == reads'[p]
  <2>1. next \in Asking \cup {"START", "IDLE", "exit(0)", "exit(1)"} /\ expected \in {"command", "answer"}
    BY DEF Continuing
  <2>2. state' = [state EXCEPT ![p] = next] /\ reads' = [reads EXCEPT ![p] = expected]
    BY <1>1
  <2> HIDE DEF next, expected
  <2> QED BY <2>1, <2>2 DEF ScriptsTypeOK
<1>6. \A q \in Peripherals : up'[q] \in Seq(Says(q)) /\ Len(up'[q]) <= 2
  BY ScriptAlone DEF Continuing, ScriptsTypeOK
<1> QED BY <1>2, <1>4, <1>5, <1>6 DEF ScriptsTypeOK

(***************************************************************************)
(* The simulator only takes messages out of the pipes it reads.            *)
(***************************************************************************)
LEMMA SessionStepReads ==
    ASSUME TypeOK, Positions, SessionStep
    PROVE  \A q \in Peripherals : up'[q] = up[q] \/ (up[q] # <<>> /\ up'[q] = Tail(up[q]))
<1>1. CASE ReadCommand
  BY <1>1 DEF ReadCommand, TypeOK
<1>2. UNCHANGED up \/ ReadCommand
  BY DEF SessionStep, Simulator, Conversation, Shutdown, ProcessFails, vars, pipeVars,
     Launch, RunProgram, SendStart, FoundDead, ReadEof, CheckPeripherals, CloseOne, WaitForExit,
     CloseNext, OpenFails, Execute, Notify, Executed, Terminal, AfterInstruction, Finish, Exec, ChildExits,
     ExecFails, IsKilled
<1> QED BY <1>1, <1>2

LEMMA SessionStepKeepsTypes ==
    ASSUME TypeOK, TablesInv, Positions, ScriptsTypeOK, SessionStep
    PROVE  TypeOK' /\ ScriptsTypeOK'
<1>1. TypeOK' /\ UNCHANGED <<state, reads>>
  BY SessionStepIsNext, NextKeepsTypes
<1>2. \A q \in Peripherals : up'[q] \in Seq(Says(q)) /\ Len(up'[q]) <= 2
  <2> SUFFICES ASSUME NEW q \in Peripherals PROVE up'[q] \in Seq(Says(q)) /\ Len(up'[q]) <= 2
    OBVIOUS
  <2>1. up[q] \in Seq(Says(q)) /\ Len(up[q]) <= 2
    BY DEF ScriptsTypeOK
  <2>2. up[q] # <<>> => Tail(up[q]) \in Seq(Says(q)) /\ Len(Tail(up[q])) <= 2
    BY <2>1, HeadTailProperties, LenProperties
  <2> QED BY <2>1, <2>2, SessionStepReads
<1> QED BY <1>1, <1>2 DEF ScriptsTypeOK, TypeOK

(***************************************************************************)
(* No request of ear.py gives it the right to be polled, and none of       *)
(* helloWorld.py gives it anything.                                        *)
(***************************************************************************)
LEMMA OthersKeepGrants ==
    ASSUME TypeOK, NEW p \in Peripherals, NEW reply, SetRequest(p, reply), NEW q \in Peripherals \ {p}
    PROVE  can_write'[q] = can_write[q] /\ (Owns(q)' => Owns(q))
<1>1. TableStep(p, reply) /\ (UNCHANGED writers \/ GrantWrite(p, reply))
  BY RequestShape
<1>2. can_write'[q] = can_write[q]
  BY <1>1 DEF GrantWrite, writers, TypeOK, ListenersTypeOK
<1>3. Owns(q)' => Owns(q)
  BY <1>1 DEF TableStep, setmHandler, setpHandler, setpnHandler, tables, Owns, TypeOK, ListenersTypeOK
<1> QED BY <1>2, <1>3

LEMMA UnpolledRequests ==
    ASSUME TypeOK, ScriptsTypeOK, Positions, Unpolled, ReadCommand
    PROVE  Unpolled'
<1> SUFFICES ASSUME NEW q \in Peripherals
             PROVE  /\ Program[q] # "pin.py" => ~can_write'[q]
                    /\ Program[q] = "helloWorld.py" => ~Owns(q)'
  BY DEF Unpolled
<1>1. cur \in Peripherals /\ up[cur] # <<>>
  BY DEF ReadCommand, Positions, Talking, TypeOK
<1>2. UNCHANGED listenerVars => can_write'[q] = can_write[q] /\ (Owns(q)' => Owns(q))
  BY DEF listenerVars, tables, writers, Owns
<1>3. CASE q # cur
  BY <1>1, <1>2, <1>3, ReadCommandAsks, OthersKeepGrants DEF Unpolled
<1>4. CASE q = cur /\ Program[q] # "pin.py"
  <2>1. Head(up[q]) \in Says(q)
    BY <1>1, <1>4, HeadTailProperties DEF ScriptsTypeOK
  <2>2. PICK reply : ReplyTo(q, Head(up[q]), reply)
    BY <1>1, <1>4, <2>1, NeverBreaks DEF ReadCommand, Handle
  <2>3. Head(up[q]) # SETM => UNCHANGED listenerVars
    BY <1>4, <2>1, <2>2, Sayings, ReadyAndPrint
  <2>4. Head(up[q]) = SETM => can_write'[q] = can_write[q] /\ Program[q] # "helloWorld.py"
    <3>1. SETM[1] = "SETM" /\ SETM # READY /\ SETM # PRINT
      BY DEF SETM, READY, PRINT
    <3>2. Head(up[q]) = SETM => UNCHANGED writers
      BY <2>2, <3>1 DEF ReplyTo, SetM
    <3> QED BY <2>1, <3>1, <3>2, Sayings DEF writers
  <2> QED BY <1>2, <2>3, <2>4 DEF Unpolled
<1> QED BY <1>3, <1>4

LEMMA SessionStepKeepsUnpolled ==
    ASSUME TypeOK, ScriptsTypeOK, Positions, Unpolled, SessionStep
    PROVE  Unpolled'
<1>1. UNCHANGED listenerVars => Unpolled'
  BY DEF Unpolled, Owns, listenerVars, tables, writers
<1>2. UNCHANGED listenerVars \/ ReadCommand
  BY DEF SessionStep, Simulator, Conversation, Shutdown, ProcessFails, vars,
     Launch, RunProgram, SendStart, FoundDead, ReadEof, CheckPeripherals, CloseOne, WaitForExit,
     CloseNext, OpenFails, Execute, Notify, Executed, Terminal, AfterInstruction, Finish, Exec, ChildExits,
     ExecFails, IsKilled
<1> QED BY <1>1, <1>2, UnpolledRequests

-----------------------------------------------------------------------------
(***************************************************************************)
(* What each step of the simulator does to the pair of a peripheral that   *)
(* is alive after it: nothing, or exactly one of these messages.           *)
(***************************************************************************)
Untouched(q) == UNCHANGED <<down[q], up[q], proc[q]>> /\ (q \in launched' => live'[q] = live[q])

Gets(q, m) == down'[q] = Append(down[q], m) /\ UNCHANGED <<up[q], proc[q]>> /\ live'[q] = live[q]

LEMMA SendToOne ==
    ASSUME TypeOK, NEW p \in Peripherals, NEW m \in Messages, Send(p, <<m>>), UNCHANGED <<proc, up>>,
           NEW q \in Peripherals, Alive(q)'
    PROVE  IF q = p THEN Gets(q, m) ELSE Untouched(q)
<1>1. <<m>> \in Seq(Messages) /\ down[p] \in Seq(Messages)
  BY DEF TypeOK, Messages
<1>2. CASE proc[p] = "exited"
  BY <1>2 DEF Send, Untouched, Alive, TypeOK
<1>3. CASE proc[p] # "exited"
  <2>1. down' = [down EXCEPT ![p] = @ \o <<m>>] /\ UNCHANGED live
    BY <1>3 DEF Send
  <2>2. down[p] \o <<m>> = Append(down[p], m)
    BY <1>1, ConcatOne
  <2>3. down'[p] = Append(down[p], m) /\ (q # p => down'[q] = down[q])
    <3>1. down'[p] = down[p] \o <<m>> /\ (q # p => down'[q] = down[q])
      BY <2>1 DEF TypeOK
    <3> QED BY <2>2, <3>1, Zenon
  <2> QED BY <2>1, <2>3 DEF Gets, Untouched
<1> QED BY <1>2, <1>3

LEMMA LaunchTouches ==
    ASSUME TypeOK, Launch, NEW q \in Peripherals
    PROVE  /\ UNCHANGED <<down[q], up[q]>>
           /\ q # cur => Untouched(q) /\ (q \in launched' <=> q \in launched)
           /\ q = cur => live'[q] /\ q \in launched'
  BY DEF Launch, Untouched, pipeVars, TypeOK

LEMMA ReadTouchesOthers ==
    ASSUME TypeOK, Positions, ReadCommand, NEW q \in Peripherals, q # cur
    PROVE  Untouched(q)
<1>1. cur \in Peripherals
  BY DEF ReadCommand, Positions, Talking, TypeOK
<1>2. up'[q] = up[q] /\ proc'[q] = proc[q]
  BY <1>1 DEF ReadCommand, TypeOK
<1>3. down'[q] = down[q] /\ live'[q] = live[q]
  <2>1. CASE Handle(Head(up[cur]))
    <3>1. PICK reply \in ReplyCodes : Send(cur, Answer(Head(up[cur]), reply))
      BY <2>1 DEF Handle
    <3> QED BY <1>1, <3>1 DEF Send, TypeOK
  <2>2. CASE UNCHANGED <<live, down>>
    BY <2>2
  <2> QED BY <2>1, <2>2 DEF ReadCommand
<1> QED BY <1>2, <1>3 DEF Untouched

LEMMA ReadKeepsLive ==
    ASSUME TypeOK, Positions, ReadCommand, Alive(cur)
    PROVE  live'[cur] = live[cur]
  BY DEF ReadCommand, Handle, Send, Alive

LEMMA NotifyTouches ==
    ASSUME TypeOK, Positions, Notify, NEW q \in Peripherals, Alive(q)'
    PROVE  \/ Untouched(q)
           \/ Gets(q, "DATA") /\ q \in launched /\ Owns(q)
<1>1. /\ Head(owed) \in launched /\ Owns(Head(owed)) /\ Head(owed) \in Peripherals
      /\ Send(Head(owed), <<"DATA">>) /\ UNCHANGED <<proc, up>>
  BY Notifies
<1>2. "DATA" \in Messages
  BY DEF Messages, Commands
<1> QED BY <1>1, <1>2, SendToOne

LEMMA CloseTouches ==
    ASSUME TypeOK, CloseOne, NEW q \in Peripherals, Alive(q)'
    PROVE  IF q = cur THEN Gets(q, "KILL") ELSE Untouched(q)
<1>1. cur \in Peripherals /\ "KILL" \in Messages
  BY DEF CloseOne, TypeOK, Messages, Commands
<1>2. CASE live[cur] /\ Send(cur, <<"KILL">>) /\ UNCHANGED proc
  BY <1>1, <1>2, SendToOne DEF CloseOne
<1>3. CASE ~live[cur] /\ proc' = [proc EXCEPT ![cur] = "exited"] /\ UNCHANGED <<live, down>>
  BY <1>1, <1>3 DEF CloseOne, Untouched, Alive, TypeOK
<1> QED BY <1>2, <1>3 DEF CloseOne

(***************************************************************************)
(* The processes themselves only begin and end.                            *)
(***************************************************************************)
LEMMA FailTouches ==
    ASSUME TypeOK, NEW p \in Peripherals, ProcessFails(p), NEW q \in Peripherals, Alive(q)'
    PROVE  /\ UNCHANGED <<simVars, listenerVars, down[q], up[q]>> /\ live'[q] = live[q] /\ Alive(q)
           /\ proc'[q] = proc[q] \/ (proc[q] = "forked" /\ proc'[q] = "await")
  BY DEF ProcessFails, Exec, ChildExits, ExecFails, IsKilled, Become, pipeVars, Alive, TypeOK

(***************************************************************************)
(* The conversation with q goes on through the steps in which the          *)
(* simulator has nothing to do with q.                                     *)
(***************************************************************************)
TalkingTo(q) == Talking /\ cur = q

LEMMA TalkElsewhere ==
    ASSUME NEW q, ScriptTalk(q), SameScript(q), UNCHANGED <<up[q], down[q]>>,
           q \in launched <=> q \in launched', ~TalkingTo(q), ~TalkingTo(q)'
    PROVE  ScriptTalk(q)'
<1>1. /\ ~Sending(q) /\ ~Reading(q) /\ (Launching(q) => Launching(q)') /\ (Away(q) => Away(q)')
  BY DEF TalkingTo, Talking, Sending, Reading, Launching, Away
<1> QED BY <1>1, TalkKept

LEMMA PinTalkKept ==
    ASSUME NEW p, PinTalk(p), SameScript(p), UNCHANGED <<up[p], down[p]>>, Reading(p) => Reading(p)'
    PROVE  PinTalk(p)'
<1>1. \A s, rest : Finds(p, s, rest) => Finds(p, s, rest)'
  BY DEF Finds
<1> QED BY <1>1 DEF PinTalk, SameScript, StartIsLast

(***************************************************************************)
(* A peripheral that is alive was so before, and the simulator knows it.   *)
(***************************************************************************)
LEMMA SessionStepKeepsKnownAlive ==
    ASSUME TypeOK, Positions, KnownAlive, SessionStep, NEW q \in Peripherals, Alive(q)'
    PROVE  q \in launched' => live'[q]
<1>1. q \in launched /\ Alive(q) => live[q]
  BY DEF KnownAlive
<1>2. CASE Launch
  BY <1>1, <1>2, LaunchTouches DEF Untouched, Alive
<1>3. CASE SendStart
  <2>1. /\ cur \in Peripherals /\ "START" \in Messages
        /\ Send(cur, <<"START">>) /\ UNCHANGED <<proc, up, launched>>
    BY <1>3 DEF SendStart, Positions, Talking, TypeOK, Messages, Commands
  <2> QED BY <1>1, <2>1, SendToOne DEF Gets, Untouched, Alive
<1>4. CASE ReadEof
  BY <1>1, <1>4 DEF ReadEof, Alive, TypeOK
<1>5. CASE ReadCommand
  <2>1. UNCHANGED <<launched, proc>>
    BY <1>5 DEF ReadCommand
  <2> QED BY <1>1, <1>5, <2>1, ReadTouchesOthers, ReadKeepsLive DEF Untouched, Alive
<1>6. CASE Notify
  <2>1. UNCHANGED <<launched, proc>>
    BY <1>6 DEF Notify
  <2> QED BY <1>1, <1>6, <2>1, NotifyTouches DEF Untouched, Gets, Alive
<1>7. CASE CloseOne
  <2>1. launched' = launched
    BY <1>7 DEF CloseOne
  <2> QED BY <1>1, <1>7, <2>1, CloseTouches DEF Untouched, Gets, Alive
<1>8. ASSUME NEW p \in Peripherals, ProcessFails(p)
      PROVE  q \in launched' => live'[q]
  BY <1>1, <1>8, FailTouches DEF simVars
<1>9. CASE UNCHANGED <<launched, live, proc>>
  BY <1>1, <1>9 DEF Alive
<1>10. CASE RunProgram \/ FoundDead \/ CheckPeripherals \/ WaitForExit \/ CloseNext \/ OpenFails
            \/ Execute \/ Executed \/ Terminal \/ Finish \/ UNCHANGED vars
  <2>1. UNCHANGED <<launched, live, proc>>
    BY <1>10 DEF RunProgram, FoundDead, CheckPeripherals, WaitForExit, CloseNext, OpenFails,
       Execute, Executed, Terminal, AfterInstruction, Finish, vars, simVars
  <2> QED BY <1>9, <2>1
<1> QED BY <1>2, <1>3, <1>4, <1>5, <1>6, <1>7, <1>8, <1>10
        DEF SessionStep, Simulator, Conversation, Shutdown

LEMMA StillAlive ==
    ASSUME TypeOK, Positions, Idle, SessionStep, NEW q \in Peripherals, Alive(q)'
    PROVE  Alive(q)
<1>1. CASE Launch
  <2>1. cur \in Peripherals /\ cur \notin launched
    BY <1>1, SessionAssumption DEF Launch, Positions, TypeOK
  <2> QED BY <1>1, <2>1 DEF Launch, Idle, Alive, TypeOK
<1>2. ASSUME NEW p \in Peripherals, ProcessFails(p)
      PROVE  Alive(q)
  BY <1>2, FailTouches
<1>3. CASE CloseOne
  BY <1>3 DEF CloseOne, Alive, TypeOK
<1>4. UNCHANGED proc \/ Launch \/ CloseOne \/ \E p \in Peripherals : ProcessFails(p)
  BY DEF SessionStep, Simulator, Conversation, Shutdown, vars,
     RunProgram, SendStart, FoundDead, ReadEof, ReadCommand, CheckPeripherals, WaitForExit,
     CloseNext, OpenFails, Execute, Notify, Executed, Terminal, AfterInstruction, Finish
<1> QED BY <1>1, <1>2, <1>3, <1>4 DEF Alive

LEMMA SessionStepKeepsTalks ==
    ASSUME TypeOK, ScriptsTypeOK, Positions, Idle, Unpolled, KnownAlive, SessionStep,
           NEW q \in Peripherals, ScriptTalk(q), Alive(q)'
    PROVE  ScriptTalk(q)'
<1>1. SameScript(q) /\ Alive(q)
  BY StillAlive DEF SessionStep, scriptVars, SameScript
<1>2. CASE Launch
  <2>1. /\ cur \notin launched /\ pc = "open" /\ pc' = "send" /\ cur' = cur
        /\ launched' = launched \cup {cur}
    BY <1>2, SessionAssumption DEF Launch, Goto, Positions, TypeOK
  <2>2. UNCHANGED <<up[q], down[q]>>
    BY <1>2, LaunchTouches
  <2>3. CASE q # cur
    BY <1>1, <2>1, <2>2, <2>3, TalkElsewhere DEF TalkingTo, Talking
  <2>4. CASE q = cur
    <3>1. ~Sending(q) /\ ~Reading(q) /\ ~Away(q) /\ Launching(q)'
      BY <2>1, <2>4 DEF Sending, Reading, Away, Launching
    <3> QED BY <1>1, <2>2, <3>1, TalkKept
  <2> QED BY <2>3, <2>4
<1>3. CASE SendStart
  <2>1. /\ cur \in Peripherals /\ "START" \in Messages
        /\ Send(cur, <<"START">>) /\ UNCHANGED <<proc, up, launched>>
        /\ pc = "send" /\ pc' = "read" /\ cur' = cur
    BY <1>3 DEF SendStart, Goto, Positions, Talking, TypeOK, Messages, Commands
  <2>2. CASE q = cur
    <3>1. down'[q] = Append(down[q], "START") /\ up'[q] = up[q]
      BY <2>1, <2>2, SendToOne DEF Gets
    <3>2. Sending(q) /\ Reading(q)'
      BY <2>1, <2>2 DEF Sending, Reading
    <3> QED BY <1>1, <3>1, <3>2, TalkAfterStart
  <2>3. CASE q # cur
    <3>1. UNCHANGED <<up[q], down[q]>>
      BY <2>1, <2>3, SendToOne DEF Untouched
    <3> QED BY <1>1, <2>1, <2>3, <3>1, TalkElsewhere DEF TalkingTo
  <2> QED BY <2>2, <2>3
<1>4. CASE FoundDead \/ ReadEof
  <2>1. /\ UNCHANGED <<up, down, launched>> /\ q # cur
        /\ pc' = during /\ during \in {"open", "check"}
    BY <1>1, <1>4 DEF FoundDead, ReadEof, Leave, Goto, KnownAlive, Positions, Talking, Alive, pipeVars, TypeOK
  <2> QED BY <1>1, <2>1, TalkElsewhere DEF TalkingTo, Talking
<1>5. CASE ReadCommand
  <2>1. CASE q = cur
    BY <1>1, <1>5, <2>1, PinAfterRead, EarAfterRead, HelloAfterRead DEF ScriptTalk
  <2>2. CASE q # cur
    <3>1. UNCHANGED <<up[q], down[q]>>
      BY <1>5, <2>2, ReadTouchesOthers DEF Untouched
    <3>2. launched' = launched /\ (cur' = cur \/ pc' \in {"open", "check"})
      BY <1>5 DEF ReadCommand, Leave, Goto, TypeOK
    <3> QED BY <1>1, <2>2, <3>1, <3>2, TalkElsewhere DEF TalkingTo, Talking
  <2> QED BY <2>1, <2>2
<1>6. CASE CheckPeripherals
  <2>1. /\ UNCHANGED <<up, down, launched>> /\ pc = "check"
        /\ pc' \in {"run", "check"} \/ (IsPolled(cur) /\ cur' = cur /\ pc' = "send")
    BY <1>6 DEF CheckPeripherals, Goto, pipeVars
  <2>2. CASE q = cur /\ IsPolled(cur)
    <3>1. Program[q] = "pin.py"
      BY <2>2 DEF Unpolled, IsPolled
    <3>2. PinTalk(q)
      BY <3>1 DEF ScriptTalk
    <3>3. PinTalk(q)'
      BY <1>1, <2>1, <3>2, PinTalkKept DEF Reading
    <3> QED BY <3>1, <3>3 DEF ScriptTalk
  <2>3. CASE ~(q = cur /\ IsPolled(cur))
    BY <1>1, <2>1, <2>3, TalkElsewhere DEF TalkingTo, Talking
  <2> QED BY <2>2, <2>3
<1>7. CASE Notify
  <2>1. pc = "store" /\ pc' = "store" /\ launched' = launched
    BY <1>7 DEF Notify
  <2>2. CASE Untouched(q)
    BY <1>1, <2>1, <2>2, TalkElsewhere DEF Untouched, TalkingTo, Talking
  <2>3. CASE Gets(q, "DATA") /\ q \in launched /\ Owns(q)
    <3>1. Away(q) /\ Away(q)' /\ "DATA" \in News
      BY <2>1, <2>3 DEF Away, Sending, Reading, News
    <3>2. Program[q] # "helloWorld.py"
      BY <2>3 DEF Unpolled
    <3> QED BY <1>1, <2>3, <3>1, <3>2, TalkAfterNews DEF Gets
  <2> QED BY <1>7, <2>2, <2>3, NotifyTouches
<1>8. CASE CloseOne
  <2>1. pc = "close" /\ pc' \in {"wait", "close"} /\ launched' = launched /\ cur \in launched
    BY <1>8 DEF CloseOne, Goto
  <2>2. CASE q = cur
    <3>1. Away(q) /\ Away(q)' /\ "KILL" \in News
      BY <2>1, <2>2 DEF Away, Sending, Reading, News
    <3>2. Gets(q, "KILL")
      BY <1>8, <2>2, CloseTouches
    <3> QED BY <1>1, <3>1, <3>2, TalkAfterNews DEF Gets
  <2>3. CASE q # cur
    <3>1. Untouched(q)
      BY <1>8, <2>3, CloseTouches
    <3> QED BY <1>1, <2>1, <3>1, TalkElsewhere DEF Untouched, TalkingTo, Talking
  <2> QED BY <2>2, <2>3
<1>9. CASE RunProgram \/ WaitForExit \/ CloseNext \/ OpenFails \/ Execute \/ Executed \/ Terminal
           \/ Finish
  <2>1. UNCHANGED <<up, down, launched>> /\ ~Talking /\ ~Talking'
    BY <1>9 DEF RunProgram, WaitForExit, CloseNext, OpenFails, Execute, Executed, Terminal,
       AfterInstruction, Finish,
       Goto, Talking, pipeVars
  <2> QED BY <1>1, <2>1, TalkElsewhere DEF TalkingTo
<1>10. ASSUME UNCHANGED <<simVars, up[q], down[q]>>
       PROVE  ScriptTalk(q)'
  <2>1. /\ Sending(q)' = Sending(q) /\ Reading(q)' = Reading(q) /\ Away(q)' = Away(q)
        /\ Launching(q)' = Launching(q)
    BY <1>10 DEF Sending, Reading, Away, Launching, simVars
  <2> QED BY <1>1, <1>10, <2>1, TalkKept
<1>11. ASSUME NEW p \in Peripherals, ProcessFails(p)
       PROVE  ScriptTalk(q)'
  BY <1>10, <1>11, FailTouches
<1>12. CASE UNCHANGED vars
  BY <1>10, <1>12 DEF vars, pipeVars
<1> QED BY <1>2, <1>3, <1>4, <1>5, <1>6, <1>7, <1>8, <1>9, <1>11, <1>12
        DEF SessionStep, Simulator, Conversation, Shutdown

LEMMA SessionStepKeepsNothingSaid ==
    ASSUME TypeOK, Positions, Idle, NothingSaid, SessionStep
    PROVE  NothingSaid'
<1> SUFFICES ASSUME NEW q \in Peripherals, proc'[q] \in {"forked", "failing"}
             PROVE  up'[q] = <<>>
  BY DEF NothingSaid
<1>1. up[q] = <<>> => up'[q] = <<>>
  BY SessionStepReads
<1>2. CASE Launch
  <2>1. cur \in Peripherals /\ cur \notin launched
    BY <1>2, SessionAssumption DEF Launch, Positions, TypeOK
  <2> QED BY <1>1, <1>2, <2>1 DEF Launch, Idle, NothingSaid, TypeOK
<1>3. ASSUME NEW p \in Peripherals, ProcessFails(p)
      PROVE  up'[q] = <<>>
  BY <1>1, <1>3 DEF ProcessFails, Exec, ChildExits, ExecFails, IsKilled, Become, NothingSaid, TypeOK
<1>4. CASE CloseOne
  BY <1>1, <1>4 DEF CloseOne, NothingSaid, TypeOK
<1>5. UNCHANGED proc \/ Launch \/ CloseOne \/ \E p \in Peripherals : ProcessFails(p)
  BY DEF SessionStep, Simulator, Conversation, Shutdown, vars,
     RunProgram, SendStart, FoundDead, ReadEof, ReadCommand, CheckPeripherals, WaitForExit,
     CloseNext, OpenFails, Execute, Notify, Executed, Terminal, AfterInstruction, Finish
<1> QED BY <1>1, <1>2, <1>3, <1>4, <1>5 DEF NothingSaid

LEMMA SessionStepKeepsScripts == ScriptsInv /\ SessionStep => ScriptsInv'
<1> SUFFICES ASSUME ScriptsInv, SessionStep PROVE ScriptsInv'
  OBVIOUS
<1> USE DEF ScriptsInv
<1>1. [Next]_vars /\ UNCHANGED <<state, reads>>
  BY SessionStepIsNext
<1>2. TypeOK' /\ ScriptsTypeOK' /\ Unpolled' /\ NothingSaid'
  BY SessionStepKeepsTypes, SessionStepKeepsUnpolled, SessionStepKeepsNothingSaid
<1>3. TablesInv' /\ PolledExact'
  BY <1>1, StepUsesTables, NextKeepsTables, NextKeepsPolled
<1>4. Positions' /\ Rounds' /\ Closed' /\ Idle'
  BY <1>1, NextKeepsPositions, NextKeepsRounds, NextKeepsClosed, NextKeepsIdle
<1>5. NeverGivesUp'
  BY <1>1 DEF NeverGivesUp
<1>6. KnownAlive'
  <2> SUFFICES ASSUME NEW q \in launched', Alive(q)' PROVE live'[q]
    BY DEF KnownAlive
  <2>1. q \in Peripherals
    BY <1>2 DEF TypeOK
  <2> QED BY <2>1, SessionStepKeepsKnownAlive
<1>7. ScriptTalks'
  <2> SUFFICES ASSUME NEW q \in Peripherals, Alive(q)' PROVE ScriptTalk(q)'
    BY DEF ScriptTalks
  <2>1. ScriptTalk(q)
    BY StillAlive DEF ScriptTalks
  <2> QED BY <2>1, SessionStepKeepsTalks
<1> QED BY <1>2, <1>3, <1>4, <1>5, <1>6, <1>7

(***************************************************************************)
(* A script changes its own place and its own pipes only.                  *)
(***************************************************************************)
LEMMA ScriptKeepsScripts ==
    ASSUME ScriptsInv, NEW p \in Peripherals, Script(p)
    PROVE  ScriptsInv'
<1> USE DEF ScriptsInv
<1>1. /\ UNCHANGED <<listenerVars, simVars, live, todo>>
      /\ proc[p] = "await" /\ proc'[p] \in {"await", "exited"}
      /\ \A q \in Peripherals \ {p} : UNCHANGED <<proc[q], down[q], up[q], state[q], reads[q]>>
  BY ScriptAlone
<1>2. Continuing(p) /\ (Alive(p)' => ScriptTalk(p)')
  BY <1>1, ScriptContinues DEF ScriptTalks, Alive
<1>3. TypeOK' /\ ScriptsTypeOK'
  BY <1>2, ScriptKeepsTypes
<1>4. p \in launched
  BY <1>1 DEF Idle
<1>5. UNCHANGED <<pc, cur, during, launched, owed, ready, live, can_write>>
  BY <1>1 DEF simVars, listenerVars, writers
<1>6. TablesInv' /\ PolledExact' /\ Unpolled'
  <2>1. TablesInv' /\ PolledExact'
    BY <1>1, NextKeepsTables, NextKeepsPolled
  <2>2. Unpolled'
    BY <1>1 DEF Unpolled, Owns, listenerVars, tables, writers
  <2> QED BY <2>1, <2>2
<1>7. Positions' /\ Rounds'
  <2>1. OwedOwners'
    BY <1>1, <1>5 DEF Positions, OwedOwners, Owns, listenerVars, tables
  <2> QED BY <1>5, <2>1 DEF Positions, Talking, Rounds, LiveMeansReady
<1>8. Closed'
  <2>1. \A q \in launched : proc[q] = "exited" => proc'[q] = "exited"
    BY <1>1 DEF TypeOK
  <2> QED BY <1>5, <2>1 DEF Closed, NoOrphans
<1>9. Idle' /\ NothingSaid' /\ KnownAlive'
  <2>1. Idle'
    BY <1>1, <1>4, <1>5 DEF Idle
  <2>2. NothingSaid'
    BY <1>1 DEF NothingSaid
  <2>3. KnownAlive'
    BY <1>1, <1>5 DEF KnownAlive, Alive, TypeOK
  <2> QED BY <2>1, <2>2, <2>3
<1>10. NeverGivesUp'
  <2>1. state'[p] # "exit(1)"
    BY <1>2, PinStates DEF Continuing
  <2> QED BY <1>1, <2>1 DEF NeverGivesUp
<1>11. ScriptTalks'
  <2> SUFFICES ASSUME NEW q \in Peripherals, Alive(q)' PROVE ScriptTalk(q)'
    BY DEF ScriptTalks
  <2>1. CASE q = p
    BY <1>2, <2>1
  <2>2. CASE q # p
    <3>1. SameScript(q) /\ UNCHANGED <<up[q], down[q]>> /\ ScriptTalk(q)
      BY <1>1, <2>2 DEF SameScript, ScriptTalks, Alive
    <3>2. /\ Sending(q)' = Sending(q) /\ Reading(q)' = Reading(q) /\ Away(q)' = Away(q)
          /\ Launching(q)' = Launching(q)
      BY <1>5 DEF Sending, Reading, Away, Launching
    <3> QED BY <3>1, <3>2, TalkKept
  <2> QED BY <2>1, <2>2
<1> QED BY <1>3, <1>6, <1>7, <1>8, <1>9, <1>10, <1>11

LEMMA NextKeepsScripts == ScriptsInv /\ [ScriptsNext]_allVars => ScriptsInv'
  BY StepsOfScripts, SessionStepKeepsScripts, ScriptKeepsScripts

LEMMA InitScripts == ScriptsInit => ScriptsInv
<1> SUFFICES ASSUME ScriptsInit PROVE ScriptsInv
  OBVIOUS
<1>1. /\ Init
      /\ state = [p \in Peripherals |-> IF Program[p] = "pin.py" THEN "PIN4" ELSE "START"]
      /\ reads = [p \in Peripherals |-> "command"]
  BY DEF ScriptsInit
<1>2. TypeOK /\ TablesInv /\ PolledExact /\ Positions /\ Rounds /\ Closed /\ Idle
  BY <1>1, InitSession DEF SessionInv, SimInv
<1>3. /\ \A p \in Peripherals : up[p] = <<>> /\ down[p] = <<>> /\ proc[p] = "none"
      /\ launched = {} /\ pc = "open"
  BY <1>1 DEF Init
<1>4. "PIN4" \in Asking /\ PipeCap \in Nat
  BY PinStates, SessionAssumption
<1>5. ScriptsTypeOK /\ NeverGivesUp
  <2>1. state \in [Peripherals -> Asking \cup {"START", "IDLE", "exit(0)", "exit(1)"}]
    BY <1>1, <1>4
  <2>2. reads \in [Peripherals -> {"command", "answer"}]
    BY <1>1
  <2>3. \A p \in Peripherals : up[p] \in Seq(Says(p)) /\ Len(up[p]) <= 2 /\ Len(down[p]) <= PipeCap
    <3> SUFFICES ASSUME NEW p \in Peripherals
                 PROVE  up[p] \in Seq(Says(p)) /\ Len(up[p]) <= 2 /\ Len(down[p]) <= PipeCap
      OBVIOUS
    <3>1. <<>> \in Seq(Says(p)) /\ Len(<<>>) = 0
      BY EmptySeq
    <3>2. up[p] = <<>> /\ down[p] = <<>>
      BY <1>3
    <3>3. 0 <= 2 /\ 0 <= PipeCap
      BY <1>4
    <3> QED BY <3>1, <3>2, <3>3, Zenon
  <2>4. NeverGivesUp
    BY <1>1 DEF NeverGivesUp
  <2> QED BY <2>1, <2>2, <2>3, <2>4 DEF ScriptsTypeOK
<1>6. Unpolled /\ KnownAlive /\ NothingSaid
  <2>1. \A p \in Peripherals : ~can_write[p] /\ ~Owns(p)
    BY <1>1, DeviceAssumption DEF Init, ListenersInit, Owns
  <2> QED BY <1>3, <2>1 DEF Unpolled, KnownAlive, NothingSaid
<1>7. ASSUME NEW p \in Peripherals
      PROVE  ScriptTalk(p)
  <2>1. Launching(p) /\ Finds(p, <<>>, {}) /\ Finds(p, <<>>, Commands) /\ StartIsLast(p)
    BY <1>3 DEF Launching, Finds, StartIsLast
  <2>2. Program[p] = "pin.py" => PinTalk(p)
    BY <1>1, <1>3, <1>4, <2>1 DEF PinTalk
  <2>3. Program[p] # "pin.py" => Starts(p)
    BY <1>1, <1>3, <2>1 DEF Starts, Is
  <2> QED BY <2>2, <2>3 DEF ScriptTalk, EarTalk, HelloTalk
<1> QED BY <1>2, <1>5, <1>6, <1>7 DEF ScriptsInv, ScriptTalks

-----------------------------------------------------------------------------
(***************************************************************************)
(* ScriptsInv always holds: whatever dies or is missing, each script is at *)
(* one of the listed places of its conversation.                           *)
(***************************************************************************)
THEOREM ScriptsCorrect == ScriptsSpec => []ScriptsInv
  BY InitScripts, NextKeepsScripts, PTL DEF ScriptsSpec

(***************************************************************************)
(* Type correctness of the scripts: each sends only its own requests, has  *)
(* at most two of them out, and no pipe to it ever overflows.              *)
(***************************************************************************)
THEOREM ScriptsTypeCorrect == ScriptsSpec => []ScriptsTypeOK
<1>1. ScriptsInv => ScriptsTypeOK
  BY DEF ScriptsInv
<1> QED BY <1>1, ScriptsCorrect, PTL

(***************************************************************************)
(* The simulator never makes pin.py, ear.py or helloWorld.py take their    *)
(* exit(1): what they read in place of a START is always a START.          *)
(***************************************************************************)
THEOREM NoScriptGivesUp == ScriptsSpec => []NeverGivesUp
<1>1. ScriptsInv => NeverGivesUp
  BY DEF ScriptsInv
<1> QED BY <1>1, ScriptsCorrect, PTL

(***************************************************************************)
(* No script throws a notification away as the answer to a request,        *)
(* although ear.py and helloWorld.py are a message out of step.            *)
(***************************************************************************)
THEOREM NotesHeard == ScriptsSpec => []NotesAreHeard
<1>1. ScriptsInv => NotesAreHeard
  <2> SUFFICES ASSUME ScriptsInv, NEW p \in Peripherals,
                      proc[p] = "await", reads[p] = "answer", down[p] # <<>>
               PROVE  Head(down[p]) # "DATA"
    BY DEF NotesAreHeard
  <2>1. TypeOK /\ ScriptTalk(p)
    BY DEF ScriptsInv, ScriptTalks, Alive
  <2>2. ~Finds(p, <<>>, {})
    BY <2>1, FindsNothing
  <2>3. /\ "START" # "DATA" /\ "ACK" # "DATA" /\ \A reply \in ReplyCodes : reply # "DATA"
        /\ Head(down[p]) = down[p][1] /\ 1 \in 1 .. Len(down[p])
    BY <2>1, EmptySeq DEF ReplyCodes, SetReplies, TypeOK
  <2>4. \A s, rest : Len(s) \in Nat \ {0} /\ Finds(p, s, rest) => Head(down[p]) = s[1]
    BY <2>3 DEF Finds
  <2>5. CASE Program[p] = "pin.py"
    <3>1. PICK reply \in ReplyCodes : Finds(p, <<reply>>, Commands)
      BY <2>1, <2>2, <2>5 DEF ScriptTalk, PinTalk
    <3>2. <<reply>>[1] = reply /\ Len(<<reply>>) = 1
      OBVIOUS
    <3>3. Head(down[p]) = reply
      BY <2>4, <3>1, <3>2
    <3> QED BY <2>3, <3>3
  <2>6. CASE Program[p] = "ear.py"
    <3>1. \/ \E reply \in ReplyCodes :
               Finds(p, <<reply>>, {}) \/ Finds(p, <<reply, "START">>, {})
          \/ Finds(p, <<"START">>, {})
          \/ Finds(p, <<"START", "ACK">>, News)
      <4>1. EarTalk(p) /\ reads[p] # "command"
        BY <2>1, <2>6 DEF ScriptTalk
      <4> QED BY <2>2, <4>1 DEF EarTalk, Starts, Is
    <3>2. ASSUME NEW reply, NEW rest, Finds(p, <<reply>>, rest) \/ Finds(p, <<reply, "START">>, rest)
          PROVE  Head(down[p]) = reply
      <4>1. <<reply>>[1] = reply /\ Len(<<reply>>) = 1
        OBVIOUS
      <4>2. <<reply, "START">>[1] = reply /\ Len(<<reply, "START">>) = 2
        OBVIOUS
      <4> QED BY <2>4, <3>2, <4>1, <4>2
    <3>3. Finds(p, <<"START", "ACK">>, News) => Head(down[p]) = "START"
      <4>1. <<"START", "ACK">>[1] = "START" /\ Len(<<"START", "ACK">>) = 2
        OBVIOUS
      <4> QED BY <2>4, <4>1
    <3> QED BY <2>3, <3>1, <3>2, <3>3
  <2>7. CASE Program[p] = "helloWorld.py"
    BY <2>1, <2>2, <2>3, <2>4, <2>7 DEF ScriptTalk, HelloTalk, Starts, Is
  <2> QED BY <2>5, <2>6, <2>7, Sayings
<1> QED BY <1>1, ScriptsCorrect, PTL

(***************************************************************************)
(* helloWorld.py's second READY is the only request left in a pipe, and    *)
(* the simulator never polls that peripheral and so never takes it for the *)
(* answer to a later START.                                                *)
(***************************************************************************)
THEOREM StraysHarmless == ScriptsSpec => []StrayIsHarmless
<1>1. ScriptsInv => StrayIsHarmless
  <2> SUFFICES ASSUME ScriptsInv, NEW p \in Peripherals, up[p] # <<>>, proc[p] # "exited",
                      ~(pc \in {"send", "read"} /\ cur = p)
               PROVE  ~can_write[p] /\ up[p] = <<READY>>
    BY DEF StrayIsHarmless
  <2>1. ~Sending(p) /\ ~Reading(p)
    BY DEF Sending, Reading
  <2>2. Alive(p)
    BY DEF ScriptsInv, NothingSaid, Alive
  <2>3. ScriptTalk(p) /\ (Program[p] # "pin.py" => ~can_write[p])
    BY <2>2 DEF ScriptsInv, ScriptTalks, Unpolled
  <2>4. Program[p] # "pin.py"
    BY <2>1, <2>3 DEF ScriptTalk, PinTalk
  <2>5. up[p] = <<READY>>
    BY <2>1, <2>3, <2>4, Sayings DEF ScriptTalk, EarTalk, HelloTalk, Starts, Is
  <2> QED BY <2>3, <2>4, <2>5
<1> QED BY <1>1, ScriptsCorrect, PTL

(***************************************************************************)
(* With these scripts as with the peripherals of Sessions, no instruction  *)
(* runs before every peripheral it depends on is ready or known to be      *)
(* dead.                                                                   *)
(***************************************************************************)
THEOREM ScriptsRunWhenReady == ScriptsSpec => []LiveMeansReady
<1>1. ScriptsInv => LiveMeansReady
  BY DEF ScriptsInv, Rounds
<1> QED BY <1>1, ScriptsCorrect, PTL

(***************************************************************************)
(* And closePeripherals leaves none of the scripts running.                *)
(***************************************************************************)
THEOREM ScriptsLeaveNoOrphans == ScriptsSpec => []NoOrphans
<1>1. ScriptsInv => NoOrphans
  BY DEF ScriptsInv, Closed
<1> QED BY <1>1, ScriptsCorrect, PTL

(***************************************************************************)
(* The scripts reach the tables only through the handlers, so that single  *)
(* ownership holds for them too.                                           *)
(***************************************************************************)
THEOREM ScriptsUseTables == ScriptsSpec => ListenersSpec
<1>1. ScriptsInit => ListenersInit
  BY DEF ScriptsInit, Init
<1>2. ScriptsInv /\ [ScriptsNext]_allVars => [ListenersNext]_listenerVars
  <2> SUFFICES ASSUME ScriptsInv, [ScriptsNext]_allVars PROVE [ListenersNext]_listenerVars
    OBVIOUS
  <2>1. CASE SessionStep
    BY <2>1, SessionStepIsNext, StepUsesTables DEF ScriptsInv
  <2>2. ASSUME NEW p \in Peripherals, Script(p)
        PROVE  UNCHANGED listenerVars
    BY <2>2 DEF Script
  <2> QED BY <2>1, <2>2, StepsOfScripts
<1> QED BY <1>1, <1>2, ScriptsCorrect, PTL DEF ScriptsSpec, ListenersSpec
=============================================================================
