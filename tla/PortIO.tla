-------------------------------- MODULE PortIO --------------------------------
(***************************************************************************)
(* Data memory, I/O ports and pins (core.c: writeMem, readMem, writePin),  *)
(* the WRITE* requests of the peripherals (peripherals.c) and the          *)
(* notifications a store sends.  The peripherals talk to the simulator     *)
(* before the program runs; from then on only those with a claim do, and   *)
(* their requests interleave with the stores of the program.               *)
(*                                                                         *)
(* A byte is the set of its bits that are 1.                               *)
(***************************************************************************)
EXTENDS Listeners, Integers

CONSTANTS
    Bit,            \* bit numbers of a byte: 0..7 in the code
    base,           \* CoreDef.ports: the address of PINx; DDRx and PORTx follow it
    pinBit,         \* Pin.bit: the bit of its port a pin is mapped to
    LowPins,        \* pin numbers read as less than 1: 0, for WRITEPN also 128..255
    sram_start,     \* addresses from here on are stored before they are decoded
    sreg_addr, stdout_addr, stderr_addr

PIN(port)  == base[port]
DDR(port)  == base[port] + 1
PORT(port) == base[port] + 2
RegsOf(port) == {PIN(port), DDR(port), PORT(port)}
Registers == UNION {RegsOf(port) : port \in Ports}

Special == {sreg_addr, stdout_addr, stderr_addr}

ASSUME MemoryMapAssumption ==
    /\ Addrs \subseteq Nat
    /\ sram_start \in Nat
    /\ base \in [Ports -> Nat]
    /\ Registers \subseteq Addrs \ Special
    /\ \A p, q \in Ports : p # q => RegsOf(p) \cap RegsOf(q) = {}

ASSUME PinMapAssumption ==
    /\ pinBit \in [Pins -> Bit]
    /\ \A p, q \in Pins : p # q /\ portOf[p] = portOf[q] => pinBit[p] # pinBit[q]
    /\ LowPins \cap Pins = {}

Byte == SUBSET Bit
PinStates == {"H", "L", "Z", "X"}
Replies == SetReplies \cup {"VALUE", "NONE"}

VARIABLES
    main_mem,       \* main_mem[addr]
    sreg,           \* the status register, kept apart from main_mem
    pin_state,      \* Pin.state: how the outside world drives the pin
    running,        \* the program is being executed
    crashed,        \* the simulator died of undefined behaviour
    told_mem, told_port, told_pin,  \* history: the last value each listener was sent
    bypassed        \* history: addresses changed behind writeMem's back

memory  == <<main_mem, sreg>>
told    == <<told_mem, told_port, told_pin>>
portVars == <<memory, pin_state, running, crashed, told, bypassed>>
vars == <<listenerVars, portVars>>

(***************************************************************************)
(* A history entry is the set of the last value sent: empty before the     *)
(* first notification.                                                     *)
(***************************************************************************)
Last(values) == {{}} \cup {{v} : v \in values}

TypeOK ==
    /\ ListenersTypeOK
    /\ main_mem \in [Addrs -> Byte]
    /\ sreg \in Byte
    /\ pin_state \in [Pins -> PinStates]
    /\ running \in BOOLEAN
    /\ crashed \in BOOLEAN
    /\ told_mem \in [Addrs -> Last(Byte)]
    /\ told_port \in [Ports -> Last(Byte)]
    /\ told_pin \in [Pins -> Last(BOOLEAN)]
    /\ bypassed \subseteq Addrs

(***************************************************************************)
(* setupMemory: main_mem comes from malloc and is not cleared; sreg is a   *)
(* global and is.                                                          *)
(***************************************************************************)
Init ==
    /\ ListenersInit
    /\ main_mem \in [Addrs -> Byte]
    /\ sreg = {}
    /\ pin_state = [pin \in Pins |-> "Z"]
    /\ running = FALSE
    /\ crashed = FALSE
    /\ told_mem = [addr \in Addrs |-> {}]
    /\ told_port = [port \in Ports |-> {}]
    /\ told_pin = [pin \in Pins |-> {}]
    /\ bypassed = {}

-----------------------------------------------------------------------------
(***************************************************************************)
(* writeMem, by the kind of address.  All kinds end with the notification  *)
(* of the address's own listener.                                          *)
(***************************************************************************)
MemoryNotificationStale(addr, data) ==
    told_mem' = IF mem_listeners[addr] # NULL
                THEN [told_mem EXCEPT ![addr] = {main_mem[addr]}]
                ELSE told_mem

MemoryNotification(addr, data) ==
    told_mem' = IF mem_listeners[addr] # NULL
                THEN [told_mem EXCEPT ![addr] = {data}]
                ELSE told_mem

StoredEarly(addr, data) ==
    IF addr >= sram_start THEN [main_mem EXCEPT ![addr] = data] ELSE main_mem

WriteSpecial(addr, data) ==
    /\ addr \in Special
    /\ main_mem' = StoredEarly(addr, data)
    /\ sreg' = IF addr = sreg_addr THEN data ELSE sreg
    /\ UNCHANGED <<told_port, told_pin, bypassed>>

WritePlain(addr, data) ==
    /\ addr \notin Special \cup Registers
    /\ main_mem' = [main_mem EXCEPT ![addr] = data]
    /\ bypassed' = bypassed \ {addr}
    /\ UNCHANGED <<sreg, told_port, told_pin>>

(***************************************************************************)
(* A PIN register is read only, but above sram_start it was already stored *)
(* when the port loop recognises it.                                       *)
(***************************************************************************)
WritePinRegister(addr, data) ==
    /\ \E port \in Ports : addr = PIN(port)
    /\ main_mem' = StoredEarly(addr, data)
    /\ bypassed' = IF addr >= sram_start THEN bypassed \cup {addr} ELSE bypassed
    /\ UNCHANGED <<sreg, told_port, told_pin>>

BitsIn(port, state) == {pinBit[pin] : pin \in {q \in PinsOf(port) : pin_state[q] = state}}

PortNotificationLost(port, value) == told_port' = told_port

PortNotification(port, value) == told_port' = [told_port EXCEPT ![port] = {value}]

(***************************************************************************)
(* The PIN register after a store to DDR or PORT: pulled up or driven high *)
(* by PORT, floating inputs keep their level, and on a port with listeners *)
(* the levels that peripherals drive win.                                  *)
(***************************************************************************)
RefreshedPinFloating(port, ddr, out) ==
    LET levels == out \cup (main_mem[PIN(port)] \ ddr)
    IN  IF PortTaken(port) THEN levels \cup BitsIn(port, "H") ELSE levels

RefreshedPin(port, ddr, out) ==
    LET levels == out \cup (main_mem[PIN(port)] \ ddr)
    IN  IF PortTaken(port)
        THEN (levels \cup BitsIn(port, "H")) \ BitsIn(port, "L")
        ELSE levels

NotifiesPinUndriven(pin, ddr) ==
    pin_listener[pin] # NULL /\ pin_state[pin] \notin {"H", "L"}

NotifiesPin(pin, ddr) ==
    /\ pin_listener[pin] # NULL
    /\ pinBit[pin] \in ddr \/ pin_state[pin] \notin {"H", "L"}

WritePortRegister(addr, data) ==
    \E port \in Ports :
        LET stored == [main_mem EXCEPT ![addr] = data]
            ddr == stored[DDR(port)]
            out == stored[PORT(port)]
            in  == RefreshedPin(port, ddr, out)
        IN  /\ addr \in {DDR(port), PORT(port)}
            /\ main_mem' = [stored EXCEPT ![PIN(port)] = in]
            /\ told_pin' = [pin \in Pins |->
                    IF pin \in PinsOf(port) /\ NotifiesPin(pin, ddr)
                    THEN {pinBit[pin] \in out}
                    ELSE told_pin[pin]]
            /\ IF port_listener[port] # NULL
               THEN PortNotification(port, in)
               ELSE UNCHANGED told_port
            /\ bypassed' = bypassed \ RegsOf(port)
            /\ UNCHANGED sreg

writeMem(addr, data) ==
    /\ \/ WriteSpecial(addr, data)
       \/ WritePlain(addr, data)
       \/ WritePinRegister(addr, data)
       \/ WritePortRegister(addr, data)
    /\ MemoryNotification(addr, data)
    /\ UNCHANGED pin_state

(***************************************************************************)
(* readMem: its range test is true of every address, so the branch that    *)
(* would assemble the status register is never reached.                    *)
(***************************************************************************)
readMem(addr) == main_mem[addr]

-----------------------------------------------------------------------------
(***************************************************************************)
(* The program.  ST, STD, STS and OUT store through writeMem; SBI and CBI  *)
(* change one bit of main_mem[0x20..0x3F] directly, PUSH and the calls     *)
(* store to main_mem at the stack pointer, which the program sets.  The    *)
(* debug terminal's assignment is a direct store too, and PUSH stands for  *)
(* it.                                                                     *)
(***************************************************************************)
Store(addr, data) == writeMem(addr, data)

DirectStore(addr, data) ==
    /\ main_mem' = [main_mem EXCEPT ![addr] = data]
    /\ bypassed' = bypassed \cup {addr}
    /\ UNCHANGED <<sreg, pin_state, told>>

SBI(addr, bit) == addr \in 32 .. 63 /\ DirectStore(addr, main_mem[addr] \cup {bit})
CBI(addr, bit) == addr \in 32 .. 63 /\ DirectStore(addr, main_mem[addr] \ {bit})
PUSH(addr, data) == DirectStore(addr, data)

Instruction ==
    /\ \/ \E addr \in Addrs, data \in Byte : Store(addr, data) \/ PUSH(addr, data)
       \/ \E addr \in Addrs, bit \in Bit : SBI(addr, bit) \/ CBI(addr, bit)
    /\ UNCHANGED <<listenerVars, running, crashed>>

-----------------------------------------------------------------------------
(***************************************************************************)
(* The WRITE* requests.  A claim is not needed: listening is enough.       *)
(***************************************************************************)
writemHandler(perph, addr, data, reply) ==
    \/ /\ mem_listeners[addr] # perph
       /\ reply = "TAKEN"
       /\ UNCHANGED <<memory, pin_state, told, bypassed, crashed>>
    \/ /\ mem_listeners[addr] = perph
       /\ reply = "ACK"
       /\ main_mem' = [main_mem EXCEPT ![addr] = data]
       /\ bypassed' = bypassed \cup {addr}
       /\ UNCHANGED <<sreg, pin_state, told, crashed>>

(***************************************************************************)
(* writePin for every pin of driven at once: the pin remembers how it is   *)
(* driven, and shows it in PINx while it is an input.  An undriven input   *)
(* is pulled up by PORTx or keeps its level.                               *)
(***************************************************************************)
LevelOf(pin, state) ==
    LET port == portOf[pin]
        bit  == pinBit[pin]
        now  == bit \in main_mem[PIN(port)]
    IN  IF bit \in main_mem[DDR(port)] THEN now
        ELSE CASE state = "H" -> TRUE
               [] state = "L" -> FALSE
               [] state \in {"X", "Z"} -> now \/ bit \in main_mem[PORT(port)]

writePins(port, driven, state) ==
    LET high == {pinBit[pin] : pin \in {q \in driven : LevelOf(q, state[q])}}
        kept == main_mem[PIN(port)] \ {pinBit[pin] : pin \in driven}
    IN  /\ pin_state' = [pin \in Pins |-> IF pin \in driven THEN state[pin] ELSE pin_state[pin]]
        /\ main_mem' = [main_mem EXCEPT ![PIN(port)] = kept \cup high]

Unmapped(port) == Bit \ {pinBit[pin] : pin \in PinsOf(port)}

(***************************************************************************)
(* A handler that follows a word before pins[0] ends the simulator.        *)
(***************************************************************************)
FollowsWildPin(reply) ==
    /\ reply = "NONE"
    /\ crashed' = TRUE
    /\ UNCHANGED <<memory, pin_state, told, bypassed>>

(***************************************************************************)
(* setpnHandler tests that a pin number is not too large, and reads        *)
(* pins[-1] for number 0.  If it finds NULL there it answers RANGE, as for *)
(* NoPin.                                                                  *)
(***************************************************************************)
setpnHandlerLow(perph, pin, reply) == pin \in LowPins /\ FollowsWildPin(reply)

(***************************************************************************)
(* writepHandler drives the eight bits of the port.  An unmapped bit makes *)
(* it call writePin(0), which reads pins[-1] and writes through what it    *)
(* finds there: the simulator crashes, or the word was NULL and writePin   *)
(* returns.                                                                *)
(***************************************************************************)
writepHandler(perph, port, data, reply) ==
    \/ /\ reply = "RANGE"
       /\ port \notin Ports
       /\ UNCHANGED <<memory, pin_state, told, bypassed, crashed>>
    \/ /\ reply = "TAKEN"
       /\ port \in Ports /\ port_listener[port] # perph
       /\ UNCHANGED <<memory, pin_state, told, bypassed, crashed>>
    \/ /\ port \in Ports /\ port_listener[port] = perph
       /\ Unmapped(port) # {}
       /\ FollowsWildPin(reply)
    \/ /\ reply = "ACK"
       /\ port \in Ports /\ port_listener[port] = perph
       /\ writePins(port, PinsOf(port),
                    [pin \in PinsOf(port) |-> IF pinBit[pin] \in data THEN "H" ELSE "L"])
       /\ PortNotification(port, main_mem'[PIN(port)])
       /\ UNCHANGED <<sreg, told_mem, told_pin, bypassed, crashed>>

(***************************************************************************)
(* writepnHandler serves the pin's listener or its port's, and sends no    *)
(* notification.  The number is a signed char: 0 and 128..255 pass the     *)
(* test for being too large, and index pins[-1] to pins[-129].             *)
(***************************************************************************)
MayWriteAnyPin(perph, pin) == PinOwner(pin) # NULL

MayWritePin(perph, pin) == pin_listener[pin] = perph \/ port_listener[portOf[pin]] = perph

writepnHandlerUnchecked(perph, pin, state, reply) ==
    \/ /\ \/ reply = "RANGE" /\ pin \notin Pins
          \/ reply = "TAKEN" /\ pin \in Pins /\ ~MayWritePin(perph, pin)
       /\ UNCHANGED <<memory, pin_state, told, bypassed, crashed>>
    \/ /\ reply = "ACK"
       /\ pin \in Pins /\ MayWritePin(perph, pin)
       /\ IF state \in PinStates
          THEN writePins(portOf[pin], {pin}, [q \in {pin} |-> state])
          ELSE pin_state' = [pin_state EXCEPT ![pin] = state] /\ UNCHANGED main_mem
       /\ UNCHANGED <<sreg, told, bypassed, crashed>>

writepnHandler(perph, pin, state, reply) ==
    \/ /\ \/ reply = "RANGE" /\ pin \notin Pins
          \/ reply = "TAKEN" /\ pin \in Pins /\ ~MayWritePin(perph, pin)
          \/ /\ reply = "VALUE"
             /\ pin \in Pins /\ MayWritePin(perph, pin)
             /\ state \notin PinStates
       /\ UNCHANGED <<memory, pin_state, told, bypassed, crashed>>
    \/ pin \in LowPins /\ FollowsWildPin(reply)
    \/ /\ reply = "ACK"
       /\ pin \in Pins /\ MayWritePin(perph, pin)
       /\ state \in PinStates
       /\ writePins(portOf[pin], {pin}, [q \in {pin} |-> state])
       /\ UNCHANGED <<sreg, told, bypassed, crashed>>

(***************************************************************************)
(* A request of perph.  While the program runs, checkPeripherals reads     *)
(* only from the peripherals with a claim.                                 *)
(***************************************************************************)
BadState == "5"

WriteRequest(perph, reply) ==
    \/ \E addr \in Addrs, data \in Byte : writemHandler(perph, addr, data, reply)
    \/ \E port \in Ports \cup {NoPort}, data \in Byte : writepHandler(perph, port, data, reply)
    \/ \E pin \in Pins \cup LowPins \cup {NoPin}, state \in PinStates \cup {BadState} :
            writepnHandler(perph, pin, state, reply)

IsServed(perph) == running => perph_write_flag /\ can_write[perph]

Request(perph, reply) ==
    /\ IsServed(perph)
    /\ \/ SetRequest(perph, reply) /\ UNCHANGED <<memory, pin_state, told, bypassed, crashed>>
       \/ /\ WriteRequest(perph, reply) \/ \E pin \in LowPins : setpnHandlerLow(perph, pin, reply)
          /\ UNCHANGED listenerVars
    /\ UNCHANGED running

(***************************************************************************)
(* main starts the program when every peripheral has said READY.           *)
(***************************************************************************)
Start ==
    /\ ~running
    /\ running' = TRUE
    /\ UNCHANGED <<listenerVars, memory, pin_state, told, bypassed, crashed>>

Next ==
    /\ ~crashed
    /\ \/ \E perph \in Peripherals, reply \in Replies : Request(perph, reply)
       \/ Start
       \/ running /\ Instruction

Spec == Init /\ [][Next]_vars

-----------------------------------------------------------------------------
Bypassed(port) == RegsOf(port) \cap bypassed # {}
IsOutput(pin)  == pinBit[pin] \in main_mem[DDR(portOf[pin])]

(***************************************************************************)
(* An input pin that a peripheral drives high or low reads so in PINx, no  *)
(* matter how the direction and the pull-up were changed since it was      *)
(* driven: a write while the pin was an output must take effect when it    *)
(* becomes an input (writePin saves the state, writeMem applies it).  Only *)
(* a store behind writeMem's back can break this, until the next store to  *)
(* DDRx or PORTx repairs it.                                               *)
(***************************************************************************)
DrivenInputVisible ==
    \A pin \in Pins :
        LET port == portOf[pin]
        IN  pin_state[pin] \in {"H", "L"} /\ ~IsOutput(pin) /\ ~Bypassed(port)
            => (pinBit[pin] \in main_mem[PIN(port)] <=> pin_state[pin] = "H")

(***************************************************************************)
(* Once told anything, the listener of an output pin knows the level the   *)
(* program drives: every change of DDRx or PORTx through writeMem, in any  *)
(* order and with any external drive, notified it.                         *)
(***************************************************************************)
OutputViewFresh ==
    \A pin \in Pins :
        IsOutput(pin) /\ ~Bypassed(portOf[pin])
        => \A level \in told_pin[pin] :
              level = (pinBit[pin] \in main_mem[PORT(portOf[pin])])

(***************************************************************************)
(* PINx of a port with a listener changes in a step that tells the         *)
(* listener the new value, in the listener's own WRITEPN, or behind        *)
(* writeMem's back; never silently by a request of another peripheral.     *)
(***************************************************************************)
PinChangeReported ==
    [][\A port \in Ports :
          \/ port_listener[port] = NULL
          \/ main_mem'[PIN(port)] = main_mem[PIN(port)]
          \/ told_port'[port] = {main_mem'[PIN(port)]}
          \/ PIN(port) \in bypassed'
          \/ \E pin \in PinsOf(port), state \in PinStates :
                writepnHandler(port_listener[port], pin, state, "ACK")]_vars

(***************************************************************************)
(* The external drive of a pin changes only by a WRITEP or WRITEPN that    *)
(* the pin's one owner sends while it is served: never by an instruction,  *)
(* nor by a request that another peripheral could have made.               *)
(* writepnHandler alone would serve both the listener of the pin and that  *)
(* of its port.                                                            *)
(***************************************************************************)
DrivesPin(perph, pin) ==
    /\ IsServed(perph)
    /\ \/ \E data \in Byte : writepHandler(perph, portOf[pin], data, "ACK")
       \/ \E state \in PinStates : writepnHandler(perph, pin, state, "ACK")

DriveIsOwned ==
    [][\A pin \in Pins :
          pin_state'[pin] # pin_state[pin]
          => /\ PinOwner(pin) # NULL
             /\ DrivesPin(PinOwner(pin), pin)
             /\ \A perph \in Peripherals \ {PinOwner(pin)} : ~DrivesPin(perph, pin)]_vars

(***************************************************************************)
(* A listener of an ordinary address (not a port register, the status      *)
(* register or a print address) holds the value in memory, unless the cell *)
(* was changed by something other than a store of the program.             *)
(***************************************************************************)
MemViewFresh ==
    \A addr \in Addrs \ (Special \cup Registers \cup bypassed) :
        \A data \in told_mem[addr] : data = main_mem[addr]

-----------------------------------------------------------------------------
(***************************************************************************)
(* A statement of the protocol document that the code does not keep.       *)
(***************************************************************************)

(***************************************************************************)
(* "A request command will always be followed by an acknowledgement"       *)
(* (Documentation/LisenterProtocol.docx): no request ends the simulator.   *)
(***************************************************************************)
RequestsAnswered == ~crashed
=============================================================================
