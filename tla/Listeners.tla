------------------------------ MODULE Listeners ------------------------------
(***************************************************************************)
(* The listener tables of MegaSim: which peripheral process is told about, *)
(* and may write, each memory address, I/O port and pin (peripherals.c,    *)
(* SET* and CLAIM* handlers; the tables live in core.h).                   *)
(*                                                                         *)
(* Each handler is a relation between the tables before, the tables after  *)
(* and the reply it sends, so that the modules that compose this one can   *)
(* route the reply to the peripheral.                                      *)
(***************************************************************************)
CONSTANTS
    Peripherals,    \* the launched peripheral processes
    Addrs,          \* data memory addresses
    Ports, Pins,    \* the ports and mapped pins of the device
    portOf,         \* Pin.port: the port each pin belongs to
    NoPort, NoPin,  \* a port and a pin number the device does not have
    NULL            \* no listener

ASSUME DeviceAssumption ==
    /\ portOf \in [Pins -> Ports]
    /\ NoPort \notin Ports
    /\ NoPin \notin Pins
    /\ NULL \notin Peripherals

VARIABLES
    mem_listeners,      \* mem_listeners[addr]
    port_listener,      \* Port.listener
    port_pin_listener,  \* Port.pin_listener: some pin of the port has a listener
    pin_listener,       \* Pin.listener
    can_write,          \* Peripheral.can_write: polled for commands while running
    perph_write_flag    \* some peripheral is polled

tables  == <<mem_listeners, port_listener, port_pin_listener, pin_listener>>
writers == <<can_write, perph_write_flag>>
listenerVars == <<tables, writers>>

SetReplies == {"ACK", "TAKEN", "RANGE"}

PinsOf(port) == {pin \in Pins : portOf[pin] = port}

ListenersTypeOK ==
    /\ mem_listeners \in [Addrs -> Peripherals \cup {NULL}]
    /\ port_listener \in [Ports -> Peripherals \cup {NULL}]
    /\ port_pin_listener \in [Ports -> BOOLEAN]
    /\ pin_listener \in [Pins -> Peripherals \cup {NULL}]
    /\ can_write \in [Peripherals -> BOOLEAN]
    /\ perph_write_flag \in BOOLEAN

ListenersInit ==
    /\ mem_listeners = [addr \in Addrs |-> NULL]
    /\ port_listener = [port \in Ports |-> NULL]
    /\ port_pin_listener = [port \in Ports |-> FALSE]
    /\ pin_listener = [pin \in Pins |-> NULL]
    /\ can_write = [perph \in Peripherals |-> FALSE]
    /\ perph_write_flag = FALSE

-----------------------------------------------------------------------------
(***************************************************************************)
(* The tables.  A handler that cannot grant the request leaves them alone. *)
(***************************************************************************)
setmHandler(perph, addr, reply) ==
    \/ /\ mem_listeners[addr] # NULL
       /\ reply = "TAKEN"
       /\ UNCHANGED tables
    \/ /\ mem_listeners[addr] = NULL
       /\ reply = "ACK"
       /\ mem_listeners' = [mem_listeners EXCEPT ![addr] = perph]
       /\ UNCHANGED <<port_listener, port_pin_listener, pin_listener>>

PortTakenIgnoringPins(port) == port_listener[port] # NULL

PortTaken(port) == port_listener[port] # NULL \/ port_pin_listener[port]

setpHandler(perph, port, reply) ==
    \/ /\ port \notin Ports
       /\ reply = "RANGE"
       /\ UNCHANGED tables
    \/ /\ port \in Ports
       /\ PortTaken(port)
       /\ reply = "TAKEN"
       /\ UNCHANGED tables
    \/ /\ port \in Ports
       /\ ~PortTaken(port)
       /\ reply = "ACK"
       /\ port_listener' = [port_listener EXCEPT ![port] = perph]
       /\ UNCHANGED <<mem_listeners, port_pin_listener, pin_listener>>

PinTaken(pin) == pin_listener[pin] # NULL \/ port_listener[portOf[pin]] # NULL

setpnHandlerKeepsFlag(perph, pin, reply) ==
    \/ /\ \/ pin \notin Pins /\ reply = "RANGE"
          \/ pin \in Pins /\ PinTaken(pin) /\ reply = "TAKEN"
       /\ UNCHANGED tables
    \/ /\ pin \in Pins
       /\ ~PinTaken(pin)
       /\ reply = "ACK"
       /\ pin_listener' = [pin_listener EXCEPT ![pin] = perph]
       /\ UNCHANGED <<mem_listeners, port_listener, port_pin_listener>>

setpnHandlerStoresPort(perph, pin, reply) ==
    \/ /\ \/ pin \notin Pins /\ reply = "RANGE"
          \/ pin \in Pins /\ PinTaken(pin) /\ reply = "TAKEN"
       /\ UNCHANGED tables
    \/ /\ pin \in Pins
       /\ ~PinTaken(pin)
       /\ reply = "ACK"
       /\ pin_listener' = [pin_listener EXCEPT ![pin] = portOf[pin]]
       /\ port_pin_listener' = [port_pin_listener EXCEPT ![portOf[pin]] = TRUE]
       /\ UNCHANGED <<mem_listeners, port_listener>>

setpnHandler(perph, pin, reply) ==
    \/ /\ pin \notin Pins
       /\ reply = "RANGE"
       /\ UNCHANGED tables
    \/ /\ pin \in Pins
       /\ PinTaken(pin)
       /\ reply = "TAKEN"
       /\ UNCHANGED tables
    \/ /\ pin \in Pins
       /\ ~PinTaken(pin)
       /\ reply = "ACK"
       /\ pin_listener' = [pin_listener EXCEPT ![pin] = perph]
       /\ port_pin_listener' = [port_pin_listener EXCEPT ![portOf[pin]] = TRUE]
       /\ UNCHANGED <<mem_listeners, port_listener>>

(***************************************************************************)
(* A claim is the same request, and on success the peripheral joins the    *)
(* ones that are polled for commands while the program runs.               *)
(***************************************************************************)
GrantWriteAlways(perph, reply) ==
    /\ can_write' = [can_write EXCEPT ![perph] = TRUE]
    /\ perph_write_flag' = TRUE

GrantWrite(perph, reply) ==
    IF reply = "ACK"
    THEN /\ can_write' = [can_write EXCEPT ![perph] = TRUE]
         /\ perph_write_flag' = TRUE
    ELSE UNCHANGED writers

SetM(perph, addr, reply)  == setmHandler(perph, addr, reply) /\ UNCHANGED writers
SetP(perph, port, reply)  == setpHandler(perph, port, reply) /\ UNCHANGED writers
SetPn(perph, pin, reply)  == setpnHandler(perph, pin, reply) /\ UNCHANGED writers

Claim(perph, addr, reply)  == setmHandler(perph, addr, reply) /\ GrantWrite(perph, reply)
ClaimP(perph, port, reply) == setpHandler(perph, port, reply) /\ GrantWrite(perph, reply)
ClaimPn(perph, pin, reply) == setpnHandler(perph, pin, reply) /\ GrantWrite(perph, reply)

(***************************************************************************)
(* Any SET* or CLAIM* request of perph, answered with reply.               *)
(***************************************************************************)
SetRequest(perph, reply) ==
    \/ \E addr \in Addrs : SetM(perph, addr, reply)
    \/ \E addr \in Addrs : Claim(perph, addr, reply)
    \/ \E port \in Ports \cup {NoPort} : SetP(perph, port, reply)
    \/ \E port \in Ports \cup {NoPort} : ClaimP(perph, port, reply)
    \/ \E pin \in Pins \cup {NoPin} : SetPn(perph, pin, reply)
    \/ \E pin \in Pins \cup {NoPin} : ClaimPn(perph, pin, reply)

ListenersNext == \E perph \in Peripherals, reply \in SetReplies : SetRequest(perph, reply)

ListenersSpec == ListenersInit /\ [][ListenersNext]_listenerVars

-----------------------------------------------------------------------------
(***************************************************************************)
(* Who is served for a pin: the peripheral that set the pin, or the one    *)
(* that set the whole port.                                                *)
(***************************************************************************)
PinOwner(pin) == IF port_listener[portOf[pin]] # NULL
                 THEN port_listener[portOf[pin]]
                 ELSE pin_listener[pin]

Owns(perph) == \/ \E addr \in Addrs : mem_listeners[addr] = perph
               \/ \E port \in Ports : port_listener[port] = perph
               \/ \E pin \in Pins : pin_listener[pin] = perph

(***************************************************************************)
(* A port and one of its pins are never both listened to, whichever order  *)
(* the requests of different peripherals arrive in: writepnHandler accepts *)
(* either owner, so with both the pin would have two writers.              *)
(***************************************************************************)
PortPinExclusive ==
    \A pin \in Pins : pin_listener[pin] # NULL => port_listener[portOf[pin]] = NULL

(***************************************************************************)
(* Port.pin_listener caches a fact about the pins of the port; writeMem    *)
(* skips the pin updates of a port by it, and setpHandler refuses a port   *)
(* by it, so it must be exact.                                             *)
(***************************************************************************)
PinFlagExact ==
    \A port \in Ports :
        port_pin_listener[port] <=> \E pin \in PinsOf(port) : pin_listener[pin] # NULL

(***************************************************************************)
(* runAVR calls checkPeripherals only under perph_write_flag, which then   *)
(* skips the peripherals without can_write: a peripheral with a claim is   *)
(* served by both tests, and no peripheral is polled that owns nothing.    *)
(***************************************************************************)
PolledExact ==
    /\ perph_write_flag <=> \E perph \in Peripherals : can_write[perph]
    /\ \A perph \in Peripherals : can_write[perph] => Owns(perph)

(***************************************************************************)
(* The tables implement single ownership of addresses and pins, with a     *)
(* port standing for all of its pins at once: a request is granted         *)
(* entirely or not at all, and no later request takes a grant away.        *)
(***************************************************************************)
Resources == ({"mem"} \X Addrs) \cup ({"pin"} \X Pins)

ownerOf == [r \in Resources |-> IF r[1] = "mem" THEN mem_listeners[r[2]] ELSE PinOwner(r[2])]

Owned == INSTANCE Ownership WITH
            Owners <- Peripherals, NoOwner <- NULL, owner <- ownerOf

ImplementsOwnership == Owned!Spec
=============================================================================
