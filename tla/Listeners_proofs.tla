--------------------------- MODULE Listeners_proofs ---------------------------
(***************************************************************************)
(* Proofs about the listener tables, for any number of peripherals,        *)
(* addresses, ports and pins.                                              *)
(***************************************************************************)
EXTENDS Listeners, TLAPS

(***************************************************************************)
(* The inductive invariant.  PortPinExclusive alone is not inductive:      *)
(* setpHandler does not look at the pins but at the flag that stands for   *)
(* them, so the proof needs the flag to be exact.                          *)
(***************************************************************************)
TablesInv == ListenersTypeOK /\ PortPinExclusive /\ PinFlagExact

LEMMA InitTables == ListenersInit => TablesInv
  BY DEF ListenersInit, TablesInv, ListenersTypeOK, PortPinExclusive, PinFlagExact, PinsOf

(***************************************************************************)
(* Each of the three set handlers keeps the tables well formed, for any    *)
(* argument the peripheral may send and any answer it gets.                *)
(***************************************************************************)
TablesTypeOK ==
    /\ mem_listeners \in [Addrs -> Peripherals \cup {NULL}]
    /\ port_listener \in [Ports -> Peripherals \cup {NULL}]
    /\ port_pin_listener \in [Ports -> BOOLEAN]
    /\ pin_listener \in [Pins -> Peripherals \cup {NULL}]

TablesOK == TablesTypeOK /\ PortPinExclusive /\ PinFlagExact

LEMMA SetmKeepsTables ==
    ASSUME TablesOK, NEW perph \in Peripherals, NEW addr \in Addrs, NEW reply,
           setmHandler(perph, addr, reply)
    PROVE  TablesOK'
  BY DEF TablesOK, TablesTypeOK, PortPinExclusive, PinFlagExact, PinsOf, setmHandler, tables

LEMMA SetpKeepsTables ==
    ASSUME TablesOK, NEW perph \in Peripherals, NEW port, NEW reply,
           setpHandler(perph, port, reply)
    PROVE  TablesOK'
<1>1. CASE UNCHANGED tables
  BY <1>1 DEF TablesOK, TablesTypeOK, PortPinExclusive, PinFlagExact, PinsOf, tables
<1>2. CASE /\ port \in Ports
           /\ ~PortTaken(port)
           /\ port_listener' = [port_listener EXCEPT ![port] = perph]
           /\ UNCHANGED <<mem_listeners, port_pin_listener, pin_listener>>
  <2>1. TablesTypeOK'
    BY <1>2 DEF TablesOK, TablesTypeOK
  <2>2. \A pin \in PinsOf(port) : pin_listener[pin] = NULL
    BY <1>2 DEF TablesOK, PinFlagExact, PortTaken, PinsOf
  <2>3. PortPinExclusive'
    BY <1>2, <2>2, DeviceAssumption DEF TablesOK, TablesTypeOK, PortPinExclusive, PinsOf
  <2>4. PinFlagExact'
    BY <1>2 DEF TablesOK, PinFlagExact, PinsOf
  <2> QED BY <2>1, <2>3, <2>4 DEF TablesOK
<1> QED BY <1>1, <1>2 DEF setpHandler

LEMMA SetpnKeepsTables ==
    ASSUME TablesOK, NEW perph \in Peripherals, NEW pin, NEW reply,
           setpnHandler(perph, pin, reply)
    PROVE  TablesOK'
<1>1. CASE UNCHANGED tables
  BY <1>1 DEF TablesOK, TablesTypeOK, PortPinExclusive, PinFlagExact, PinsOf, tables
<1>2. CASE /\ pin \in Pins
           /\ ~PinTaken(pin)
           /\ pin_listener' = [pin_listener EXCEPT ![pin] = perph]
           /\ port_pin_listener' = [port_pin_listener EXCEPT ![portOf[pin]] = TRUE]
           /\ UNCHANGED <<mem_listeners, port_listener>>
  <2>1. TablesTypeOK'
    BY <1>2, DeviceAssumption DEF TablesOK, TablesTypeOK
  <2>2. port_listener[portOf[pin]] = NULL
    BY <1>2 DEF PinTaken
  <2>3. PortPinExclusive'
    BY <1>2, <2>2 DEF TablesOK, TablesTypeOK, PortPinExclusive
  <2>4. PinFlagExact'
    <3> SUFFICES ASSUME NEW port \in Ports
                 PROVE  port_pin_listener'[port] <=>
                          \E q \in PinsOf(port) : pin_listener'[q] # NULL
      BY DEF PinFlagExact, PinsOf
    <3>1. CASE port = portOf[pin]
      <4>1. pin \in PinsOf(port) /\ pin_listener'[pin] = perph /\ perph # NULL
        BY <1>2, <3>1, DeviceAssumption DEF TablesOK, TablesTypeOK, PinsOf
      <4> QED BY <1>2, <3>1, <4>1 DEF TablesOK, TablesTypeOK
    <3>2. CASE port # portOf[pin]
      <4>1. \A q \in PinsOf(port) : pin_listener'[q] = pin_listener[q]
        BY <1>2, <3>2 DEF TablesOK, TablesTypeOK, PinsOf
      <4>2. port_pin_listener'[port] = port_pin_listener[port]
        BY <1>2, <3>2 DEF TablesOK, TablesTypeOK
      <4> QED BY <4>1, <4>2 DEF TablesOK, PinFlagExact
    <3> QED BY <3>1, <3>2
  <2> QED BY <2>1, <2>3, <2>4 DEF TablesOK
<1> QED BY <1>1, <1>2 DEF setpnHandler

(***************************************************************************)
(* Every request is one of the three handlers on the tables, followed by a *)
(* step of the writer flags that depends on the reply only.                *)
(***************************************************************************)
TableStep(perph, reply) ==
    \/ \E addr \in Addrs : setmHandler(perph, addr, reply)
    \/ \E port \in Ports \cup {NoPort} : setpHandler(perph, port, reply)
    \/ \E pin \in Pins \cup {NoPin} : setpnHandler(perph, pin, reply)

LEMMA RequestShape ==
    ASSUME NEW perph, NEW reply, SetRequest(perph, reply)
    PROVE  TableStep(perph, reply) /\ (UNCHANGED writers \/ GrantWrite(perph, reply))
  BY DEF SetRequest, TableStep, SetM, SetP, SetPn, Claim, ClaimP, ClaimPn

LEMMA TableStepKeepsTables ==
    ASSUME TablesOK, NEW perph \in Peripherals, NEW reply, TableStep(perph, reply)
    PROVE  TablesOK'
<1>1. CASE \E addr \in Addrs : setmHandler(perph, addr, reply)
  BY <1>1, SetmKeepsTables
<1>2. CASE \E port \in Ports \cup {NoPort} : setpHandler(perph, port, reply)
  BY <1>2, SetpKeepsTables
<1>3. CASE \E pin \in Pins \cup {NoPin} : setpnHandler(perph, pin, reply)
  BY <1>3, SetpnKeepsTables
<1> QED BY <1>1, <1>2, <1>3 DEF TableStep

LEMMA NextKeepsTables == TablesInv /\ [ListenersNext]_listenerVars => TablesInv'
<1> SUFFICES ASSUME TablesInv, [ListenersNext]_listenerVars
             PROVE  TablesInv'
  OBVIOUS
<1>0. TablesOK /\ can_write \in [Peripherals -> BOOLEAN] /\ perph_write_flag \in BOOLEAN
  BY DEF TablesInv, TablesOK, TablesTypeOK, ListenersTypeOK
<1>1. CASE UNCHANGED listenerVars
  BY <1>1 DEF TablesInv, ListenersTypeOK, PortPinExclusive, PinFlagExact, PinsOf,
              listenerVars, tables, writers
<1>2. ASSUME NEW perph \in Peripherals, NEW reply \in SetReplies, SetRequest(perph, reply)
      PROVE  TablesInv'
  <2>1. TableStep(perph, reply) /\ (UNCHANGED writers \/ GrantWrite(perph, reply))
    BY <1>2, RequestShape
  <2>2. TablesOK'
    BY <1>0, <2>1, TableStepKeepsTables
  <2>3. can_write' \in [Peripherals -> BOOLEAN] /\ perph_write_flag' \in BOOLEAN
    BY <1>0, <2>1 DEF GrantWrite, writers
  <2> QED BY <2>2, <2>3 DEF TablesInv, TablesOK, TablesTypeOK, ListenersTypeOK
<1> QED BY <1>1, <1>2 DEF ListenersNext

(***************************************************************************)
(* The tables always have their types, and TablesInv always holds.         *)
(***************************************************************************)
THEOREM TablesCorrect == ListenersSpec => []TablesInv
  BY InitTables, NextKeepsTables, PTL DEF ListenersSpec

(***************************************************************************)
(* Type correctness of the listener tables and the writer flags.           *)
(***************************************************************************)
THEOREM ListenersTypeCorrect == ListenersSpec => []ListenersTypeOK
<1>1. TablesInv => ListenersTypeOK
  BY DEF TablesInv
<1> QED BY <1>1, TablesCorrect, PTL

(***************************************************************************)
(* No order of SET* and CLAIM* requests gives a port and one of its pins   *)
(* to two listeners (setpHandler, setpnHandler).                           *)
(***************************************************************************)
THEOREM ExclusivePorts == ListenersSpec => []PortPinExclusive
<1>1. TablesInv => PortPinExclusive
  BY DEF TablesInv
<1> QED BY <1>1, TablesCorrect, PTL

(***************************************************************************)
(* Port.pin_listener is set exactly when a pin of the port has a listener. *)
(***************************************************************************)
THEOREM ExactPinFlag == ListenersSpec => []PinFlagExact
<1>1. TablesInv => PinFlagExact
  BY DEF TablesInv
<1> QED BY <1>1, TablesCorrect, PTL
-----------------------------------------------------------------------------
(***************************************************************************)
(* PolledExact: a claim sets both of the tests that runAVR and             *)
(* checkPeripherals make, and grants are never taken back, so a polled     *)
(* peripheral keeps what it owns.                                          *)
(***************************************************************************)
LEMMA GrantGivesOwner ==
    ASSUME TablesOK, NEW perph \in Peripherals, TableStep(perph, "ACK")
    PROVE  Owns(perph)'
<1>1. ASSUME NEW addr \in Addrs, setmHandler(perph, addr, "ACK")
      PROVE  mem_listeners'[addr] = perph
  BY <1>1 DEF setmHandler, TablesOK, TablesTypeOK
<1>2. ASSUME NEW port, setpHandler(perph, port, "ACK")
      PROVE  port \in Ports /\ port_listener'[port] = perph
  BY <1>2 DEF setpHandler, TablesOK, TablesTypeOK
<1>3. ASSUME NEW pin, setpnHandler(perph, pin, "ACK")
      PROVE  pin \in Pins /\ pin_listener'[pin] = perph
  BY <1>3 DEF setpnHandler, TablesOK, TablesTypeOK
<1> QED BY <1>1, <1>2, <1>3 DEF TableStep, Owns

LEMMA GrantsStay ==
    ASSUME TablesOK, NEW perph \in Peripherals, NEW reply, TableStep(perph, reply),
           NEW q \in Peripherals, Owns(q)
    PROVE  Owns(q)'
<1> USE DeviceAssumption DEF TablesOK, TablesTypeOK
<1>1. ASSUME NEW addr \in Addrs, mem_listeners[addr] = q
      PROVE  mem_listeners'[addr] = q
  BY <1>1 DEF TableStep, setmHandler, setpHandler, setpnHandler, tables
<1>2. ASSUME NEW port \in Ports, port_listener[port] = q
      PROVE  port_listener'[port] = q
  BY <1>2 DEF TableStep, setmHandler, setpHandler, setpnHandler, tables, PortTaken
<1>3. ASSUME NEW pin \in Pins, pin_listener[pin] = q
      PROVE  pin_listener'[pin] = q
  BY <1>3 DEF TableStep, setmHandler, setpHandler, setpnHandler, tables, PinTaken
<1> QED BY <1>1, <1>2, <1>3 DEF Owns

LEMMA NextKeepsPolled ==
    TablesInv /\ PolledExact /\ [ListenersNext]_listenerVars => PolledExact'
<1> SUFFICES ASSUME TablesInv, PolledExact, [ListenersNext]_listenerVars
             PROVE  PolledExact'
  OBVIOUS
<1>0. TablesOK /\ can_write \in [Peripherals -> BOOLEAN] /\ perph_write_flag \in BOOLEAN
  BY DEF TablesInv, TablesOK, TablesTypeOK, ListenersTypeOK
<1>1. CASE UNCHANGED listenerVars
  BY <1>1 DEF PolledExact, Owns, listenerVars, tables, writers
<1>2. ASSUME NEW perph \in Peripherals, NEW reply \in SetReplies, SetRequest(perph, reply)
      PROVE  PolledExact'
  <2>1. TableStep(perph, reply) /\ (UNCHANGED writers \/ GrantWrite(perph, reply))
    BY <1>2, RequestShape
  <2>2. \A q \in Peripherals : Owns(q) => Owns(q)'
    BY <1>0, <2>1, GrantsStay
  <2>3. CASE UNCHANGED writers
    BY <2>2, <2>3 DEF PolledExact, writers
  <2>4. CASE reply = "ACK" /\ GrantWrite(perph, reply)
    <3>1. Owns(perph)'
      BY <1>0, <2>1, <2>4, GrantGivesOwner
    <3>2. /\ can_write' = [can_write EXCEPT ![perph] = TRUE]
          /\ perph_write_flag' = TRUE
      BY <2>4 DEF GrantWrite
    <3>3. \A q \in Peripherals : can_write'[q] => Owns(q)'
      BY <1>0, <2>2, <3>1, <3>2 DEF PolledExact
    <3>4. \E q \in Peripherals : can_write'[q]
      BY <1>0, <3>2
    <3> QED BY <3>2, <3>3, <3>4 DEF PolledExact
  <2> QED BY <2>1, <2>3, <2>4 DEF GrantWrite
<1> QED BY <1>1, <1>2 DEF ListenersNext

(***************************************************************************)
(* A peripheral is polled (perph_write_flag and can_write) exactly when a  *)
(* claim of it succeeded, and then it owns something.                      *)
(***************************************************************************)
THEOREM PolledCorrect == ListenersSpec => []PolledExact
<1>1. ListenersInit => PolledExact
  BY DEF ListenersInit, PolledExact
<1> QED BY <1>1, NextKeepsPolled, TablesCorrect, PTL DEF ListenersSpec

-----------------------------------------------------------------------------
(***************************************************************************)
(* Every request maps to an Acquire of Ownership or to a stuttering step.  *)
(***************************************************************************)
LEMMA ResourceShape ==
    /\ \A addr \in Addrs : <<"mem", addr>> \in Resources
    /\ \A pin \in Pins : <<"pin", pin>> \in Resources
    /\ \A r \in Resources : \/ r[1] = "mem" /\ r[2] \in Addrs /\ r = <<"mem", r[2]>>
                            \/ r[1] = "pin" /\ r[2] \in Pins /\ r = <<"pin", r[2]>>
  BY DEF Resources

LEMMA SetmAcquires ==
    ASSUME TablesOK, NEW perph \in Peripherals, NEW addr \in Addrs,
           mem_listeners[addr] = NULL,
           mem_listeners' = [mem_listeners EXCEPT ![addr] = perph],
           UNCHANGED <<port_listener, port_pin_listener, pin_listener>>
    PROVE  Owned!Acquire(perph, {<<"mem", addr>>})
<1>1. \A r \in Resources : ownerOf'[r] =
        IF r \in {<<"mem", addr>>} THEN perph ELSE ownerOf[r]
  BY ResourceShape DEF ownerOf, PinOwner, TablesOK, TablesTypeOK
<1>2. ownerOf[<<"mem", addr>>] = NULL
  BY ResourceShape DEF ownerOf
<1>3. ownerOf' = [r \in Resources |-> ownerOf'[r]]
  BY DEF ownerOf
<1> QED BY <1>1, <1>2, <1>3 DEF Owned!Acquire

LEMMA SetpAcquires ==
    ASSUME TablesOK, NEW perph \in Peripherals, NEW port \in Ports,
           ~PortTaken(port),
           port_listener' = [port_listener EXCEPT ![port] = perph],
           UNCHANGED <<mem_listeners, port_pin_listener, pin_listener>>
    PROVE  Owned!Acquire(perph, {r \in Resources : r[1] = "pin" /\ portOf[r[2]] = port})
<1> DEFINE W == {r \in Resources : r[1] = "pin" /\ portOf[r[2]] = port}
<1>1. \A pin \in Pins : portOf[pin] = port => pin_listener[pin] = NULL /\ PinOwner(pin) = NULL
  BY DEF PortTaken, TablesOK, PinFlagExact, PinsOf, PinOwner
<1>2. perph # NULL
  BY DeviceAssumption
<1>3. \A pin \in Pins : PinOwner(pin)' = IF portOf[pin] = port THEN perph ELSE PinOwner(pin)
  BY <1>2, DeviceAssumption DEF PinOwner, TablesOK, TablesTypeOK
<1>4. \A r \in Resources : ownerOf[r] = IF r[1] = "mem" THEN mem_listeners[r[2]]
                                                        ELSE PinOwner(r[2])
  BY DEF ownerOf
<1>5. \A r \in Resources : ownerOf'[r] = IF r[1] = "mem" THEN mem_listeners[r[2]]
                                                         ELSE PinOwner(r[2])'
  BY DEF ownerOf
<1>6. \A r \in W : ownerOf[r] = NULL
  BY <1>1, <1>4, ResourceShape
<1>7. \A r \in Resources : ownerOf'[r] = IF r \in W THEN perph ELSE ownerOf[r]
  BY <1>3, <1>4, <1>5, ResourceShape
<1>8. ownerOf' = [r \in Resources |-> ownerOf'[r]]
  BY DEF ownerOf
<1> QED BY <1>6, <1>7, <1>8 DEF Owned!Acquire

LEMMA SetpnAcquires ==
    ASSUME TablesOK, NEW perph \in Peripherals, NEW pin \in Pins,
           ~PinTaken(pin),
           pin_listener' = [pin_listener EXCEPT ![pin] = perph],
           UNCHANGED <<mem_listeners, port_listener>>
    PROVE  Owned!Acquire(perph, {<<"pin", pin>>})
<1>1. PinOwner(pin) = NULL /\ ownerOf[<<"pin", pin>>] = NULL
  BY ResourceShape DEF PinTaken, PinOwner, ownerOf
<1>2. \A q \in Pins : PinOwner(q)' = IF q = pin THEN perph ELSE PinOwner(q)
  BY DeviceAssumption DEF PinTaken, PinOwner, TablesOK, TablesTypeOK
<1>3. \A r \in Resources : ownerOf[r] = IF r[1] = "mem" THEN mem_listeners[r[2]]
                                                        ELSE PinOwner(r[2])
  BY DEF ownerOf
<1>4. \A r \in Resources : ownerOf'[r] = IF r[1] = "mem" THEN mem_listeners[r[2]]
                                                         ELSE PinOwner(r[2])'
  BY DEF ownerOf
<1>5. \A r \in Resources : ownerOf'[r] =
        IF r \in {<<"pin", pin>>} THEN perph ELSE ownerOf[r]
  BY <1>2, <1>3, <1>4, ResourceShape
<1>6. ownerOf' = [r \in Resources |-> ownerOf'[r]]
  BY DEF ownerOf
<1> QED BY <1>1, <1>5, <1>6 DEF Owned!Acquire

LEMMA StepAcquires ==
    TablesInv /\ [ListenersNext]_listenerVars => [Owned!Next]_ownerOf
<1> SUFFICES ASSUME TablesInv, [ListenersNext]_listenerVars
             PROVE  Owned!Next \/ UNCHANGED ownerOf
  OBVIOUS
<1>0. TablesOK
  BY DEF TablesInv, TablesOK, TablesTypeOK, ListenersTypeOK
<1>1. UNCHANGED tables => UNCHANGED ownerOf
  BY DEF tables, ownerOf, PinOwner
<1>2. ASSUME NEW perph \in Peripherals, NEW reply \in SetReplies, SetRequest(perph, reply)
      PROVE  Owned!Next \/ UNCHANGED ownerOf
  <2>1. TableStep(perph, reply)
    BY <1>2, RequestShape
  <2>2. CASE \E addr \in Addrs : setmHandler(perph, addr, reply)
    <3>1. PICK addr \in Addrs : setmHandler(perph, addr, reply)
      BY <2>2
    <3>2. UNCHANGED tables \/ Owned!Acquire(perph, {<<"mem", addr>>})
      BY <1>0, <3>1, SetmAcquires DEF setmHandler
    <3>3. {<<"mem", addr>>} \in SUBSET Resources
      BY ResourceShape
    <3> QED BY <1>1, <3>2, <3>3 DEF Owned!Next
  <2>3. CASE \E port \in Ports \cup {NoPort} : setpHandler(perph, port, reply)
    <3>1. PICK port : setpHandler(perph, port, reply)
      BY <2>3
    <3>2. \/ UNCHANGED tables
          \/ Owned!Acquire(perph, {r \in Resources : r[1] = "pin" /\ portOf[r[2]] = port})
      BY <1>0, <3>1, SetpAcquires DEF setpHandler
    <3> QED BY <1>1, <3>2 DEF Owned!Next
  <2>4. CASE \E pin \in Pins \cup {NoPin} : setpnHandler(perph, pin, reply)
    <3>1. PICK pin : setpnHandler(perph, pin, reply)
      BY <2>4
    <3>2. UNCHANGED tables \/ (pin \in Pins /\ Owned!Acquire(perph, {<<"pin", pin>>}))
      BY <1>0, <3>1, SetpnAcquires DEF setpnHandler
    <3>3. pin \in Pins => {<<"pin", pin>>} \in SUBSET Resources
      BY ResourceShape
    <3> QED BY <1>1, <3>2, <3>3 DEF Owned!Next
  <2> QED BY <2>1, <2>2, <2>3, <2>4 DEF TableStep
<1> QED BY <1>1, <1>2 DEF ListenersNext, listenerVars

(***************************************************************************)
(* The listener tables implement single ownership: every SET* or CLAIM*    *)
(* request is one atomic acquisition of free addresses or pins, or changes *)
(* no owner at all.                                                        *)
(***************************************************************************)
THEOREM TablesImplementOwnership == ListenersSpec => ImplementsOwnership
<1>1. ListenersInit => Owned!Init
  BY DeviceAssumption, ResourceShape DEF ListenersInit, Owned!Init, ownerOf, PinOwner
<1> QED BY <1>1, StepAcquires, TablesCorrect, PTL
        DEF ListenersSpec, ImplementsOwnership, Owned!Spec
=============================================================================
