----------------------------- MODULE PortIO_proofs -----------------------------
(***************************************************************************)
(* Proofs about memory, ports and pins, for any memory map, any number of  *)
(* peripherals, ports and pins, and any width of a byte.                   *)
(***************************************************************************)
EXTENDS PortIO, Listeners_proofs

(***************************************************************************)
(* What the tables have to do with the pins: only listened pins are driven *)
(* from outside, and only listeners have been told anything.  writeMem     *)
(* applies the external levels under PortTaken, so without the first a     *)
(* driven pin could be skipped.                                            *)
(***************************************************************************)
DriveListened == \A pin \in Pins : pin_state[pin] # "Z" => PortTaken(portOf[pin])

ToldListened ==
    /\ \A pin \in Pins : told_pin[pin] # {} => pin_listener[pin] # NULL
    /\ \A addr \in Addrs : told_mem[addr] # {} => mem_listeners[addr] # NULL

PortInv ==
    /\ TypeOK
    /\ TablesInv
    /\ PolledExact
    /\ DriveListened
    /\ ToldListened
    /\ DrivenInputVisible
    /\ OutputViewFresh
    /\ MemViewFresh

(***************************************************************************)
(* The memory map: the registers of a port are three distinct addresses,   *)
(* and no address belongs to two ports or is special.                      *)
(***************************************************************************)
LEMMA RegisterShape ==
    ASSUME NEW port \in Ports
    PROVE  /\ PIN(port) \in Addrs /\ DDR(port) \in Addrs /\ PORT(port) \in Addrs
           /\ PIN(port) # DDR(port) /\ PIN(port) # PORT(port) /\ DDR(port) # PORT(port)
           /\ RegsOf(port) \subseteq Registers
           /\ RegsOf(port) \cap Special = {}
  BY MemoryMapAssumption DEF Registers, RegsOf, PIN, DDR, PORT

LEMMA OtherPort ==
    ASSUME NEW port \in Ports, NEW other \in Ports, port # other
    PROVE  RegsOf(port) \cap RegsOf(other) = {}
  BY MemoryMapAssumption

LEMMA InitPort == Init => PortInv
<1> SUFFICES ASSUME Init
             PROVE  PortInv
  OBVIOUS
<1>1. TablesInv /\ ListenersTypeOK /\ PolledExact
  <2>1. TablesInv
    BY InitTables DEF Init
  <2>2. PolledExact
    BY DEF Init, ListenersInit, PolledExact
  <2> QED BY <2>1, <2>2 DEF TablesInv
<1>2. TypeOK
  BY <1>1 DEF Init, TypeOK, Byte, PinStates, Last
<1>3. DriveListened /\ ToldListened
  BY DEF Init, DriveListened, ToldListened
<1>4. DrivenInputVisible /\ OutputViewFresh
  BY DEF Init, DrivenInputVisible, OutputViewFresh
<1>5. MemViewFresh
  BY DEF Init, MemViewFresh
<1> QED BY <1>1, <1>2, <1>3, <1>4, <1>5 DEF PortInv

-----------------------------------------------------------------------------
(***************************************************************************)
(* A step on a part of the memory leaves a port whose registers it does    *)
(* not touch alone.  PortSame says that nothing DrivenInputVisible and     *)
(* OutputViewFresh look at has changed for the port.                       *)
(***************************************************************************)
PortSame(port) ==
    /\ \A addr \in RegsOf(port) : main_mem'[addr] = main_mem[addr]
    /\ RegsOf(port) \cap bypassed' = RegsOf(port) \cap bypassed
    /\ \A pin \in PinsOf(port) : /\ pin_state'[pin] = pin_state[pin]
                                 /\ told_pin'[pin] = told_pin[pin]

VisibleAt(pin) ==
    pin_state[pin] \in {"H", "L"} /\ ~IsOutput(pin) /\ ~Bypassed(portOf[pin])
    => (pinBit[pin] \in main_mem[PIN(portOf[pin])] <=> pin_state[pin] = "H")

FreshAt(pin) ==
    IsOutput(pin) /\ ~Bypassed(portOf[pin])
    => \A level \in told_pin[pin] : level = (pinBit[pin] \in main_mem[PORT(portOf[pin])])

LEMMA PinByPin ==
    /\ DrivenInputVisible <=> \A pin \in Pins : VisibleAt(pin)
    /\ OutputViewFresh <=> \A pin \in Pins : FreshAt(pin)
  BY DEF DrivenInputVisible, VisibleAt, OutputViewFresh, FreshAt

LEMMA SamePortKeeps ==
    ASSUME NEW pin \in Pins, PortSame(portOf[pin]), VisibleAt(pin), FreshAt(pin)
    PROVE  VisibleAt(pin)' /\ FreshAt(pin)'
<1> DEFINE port == portOf[pin]
<1>1. port \in Ports /\ pin \in PinsOf(port)
  BY DeviceAssumption DEF PinsOf
<1>2. {PIN(port), DDR(port), PORT(port)} = RegsOf(port)
  BY DEF RegsOf
<1>3. /\ main_mem'[PIN(port)] = main_mem[PIN(port)]
      /\ main_mem'[DDR(port)] = main_mem[DDR(port)]
      /\ main_mem'[PORT(port)] = main_mem[PORT(port)]
      /\ pin_state'[pin] = pin_state[pin] /\ told_pin'[pin] = told_pin[pin]
  BY <1>1, <1>2 DEF PortSame
<1>4. Bypassed(port)' <=> Bypassed(port)
  BY DEF Bypassed, PortSame
<1> QED BY <1>3, <1>4 DEF VisibleAt, FreshAt, IsOutput

(***************************************************************************)
(* A step that writes one cell, and either leaves it as it was, writes no  *)
(* port register, or records the cell as bypassed.                         *)
(***************************************************************************)
LEMMA OneCellKeeps ==
    ASSUME NEW addr \in Addrs,
           \A a \in Addrs \ {addr} : /\ main_mem'[a] = main_mem[a]
                                     /\ a \in bypassed' <=> a \in bypassed,
           \/ addr \notin Registers
           \/ addr \in bypassed'
           \/ UNCHANGED <<main_mem, bypassed>>,
           UNCHANGED <<pin_state, told_pin>>,
           DrivenInputVisible, OutputViewFresh
    PROVE  DrivenInputVisible' /\ OutputViewFresh'
<1>1. ASSUME NEW pin \in Pins
      PROVE  VisibleAt(pin)' /\ FreshAt(pin)'
  <2> DEFINE port == portOf[pin]
  <2>1. port \in Ports /\ RegsOf(port) \subseteq Registers
    BY DeviceAssumption, RegisterShape
  <2>2. RegsOf(port) \subseteq Addrs
    BY <2>1, RegisterShape DEF RegsOf
  <2>3. CASE addr \notin RegsOf(port) \/ UNCHANGED <<main_mem, bypassed>>
    <3>1. PortSame(port)
      BY <2>2, <2>3 DEF PortSame
    <3> QED BY <3>1, SamePortKeeps, PinByPin
  <2>4. CASE addr \in RegsOf(port) /\ addr \in bypassed'
    <3>1. Bypassed(port)'
      BY <2>4 DEF Bypassed
    <3> QED BY <3>1 DEF VisibleAt, FreshAt
  <2> QED BY <2>1, <2>3, <2>4
<1>2. /\ DrivenInputVisible' <=> \A pin \in Pins : VisibleAt(pin)'
      /\ OutputViewFresh' <=> \A pin \in Pins : FreshAt(pin)'
  BY DEF DrivenInputVisible, VisibleAt, OutputViewFresh, FreshAt
<1> QED BY <1>1, <1>2

(***************************************************************************)
(* The cells a step leaves alone keep their listeners' view fresh, and so  *)
(* does the cell it writes if the step notifies or bypasses.               *)
(***************************************************************************)
LEMMA MemViewKeeps ==
    ASSUME NEW addr \in Addrs, NEW data,
           \A a \in Addrs \ (Registers \cup Special \cup {addr}) :
               /\ main_mem'[a] = main_mem[a]
               /\ a \in bypassed => a \in bypassed'
               /\ told_mem'[a] = told_mem[a],
           \/ addr \in Registers \cup Special \cup bypassed'
           \/ /\ main_mem'[addr] = data
              /\ told_mem'[addr] \in {{}, {data}},
           MemViewFresh
    PROVE  MemViewFresh'
<1> SUFFICES ASSUME NEW a \in Addrs, a \notin Special, a \notin Registers, a \notin bypassed',
                    NEW d \in told_mem'[a]
             PROVE  d = main_mem'[a]
  BY DEF MemViewFresh, Special, Registers, RegsOf, PIN, DDR, PORT
<1>1. CASE a = addr
  BY <1>1
<1>2. CASE a # addr
  <2>1. a \notin bypassed /\ d \in told_mem[a] /\ main_mem'[a] = main_mem[a]
    BY <1>2
  <2> QED BY <2>1 DEF MemViewFresh
<1> QED BY <1>1, <1>2

-----------------------------------------------------------------------------
(***************************************************************************)
(* A store to DDRx or PORTx.  Two pins of a port have different bits, so   *)
(* the bit of a pin driven high is set and not cleared again.              *)
(***************************************************************************)
LEMMA DrivenBits ==
    ASSUME NEW pin \in Pins
    PROVE  /\ pinBit[pin] \in BitsIn(portOf[pin], "H") <=> pin_state[pin] = "H"
           /\ pinBit[pin] \in BitsIn(portOf[pin], "L") <=> pin_state[pin] = "L"
  BY PinMapAssumption DEF BitsIn, PinsOf

LEMMA RefreshShowsDrive ==
    ASSUME DriveListened, NEW pin \in Pins, pin_state[pin] \in {"H", "L"},
           NEW ddr, NEW out
    PROVE  pinBit[pin] \in RefreshedPin(portOf[pin], ddr, out) <=> pin_state[pin] = "H"
<1>1. PortTaken(portOf[pin])
  BY DEF DriveListened
<1> QED BY <1>1, DrivenBits DEF RefreshedPin

PortRegisterStored(port, addr, data, ddr, out) ==
    /\ addr \in {DDR(port), PORT(port)}
    /\ ddr = [main_mem EXCEPT ![addr] = data][DDR(port)]
    /\ out = [main_mem EXCEPT ![addr] = data][PORT(port)]
    /\ main_mem' = [[main_mem EXCEPT ![addr] = data]
                        EXCEPT ![PIN(port)] = RefreshedPin(port, ddr, out)]
    /\ told_pin' = [pin \in Pins |->
            IF pin \in PinsOf(port) /\ NotifiesPin(pin, ddr)
            THEN {pinBit[pin] \in out} ELSE told_pin[pin]]
    /\ bypassed' = bypassed \ RegsOf(port)

LEMMA StoredCells ==
    ASSUME NEW port \in Ports, NEW addr, NEW data, NEW ddr, NEW out,
           PortRegisterStored(port, addr, data, ddr, out),
           main_mem \in [Addrs -> Byte]
    PROVE  /\ addr \in RegsOf(port)
           /\ main_mem'[PIN(port)] = RefreshedPin(port, ddr, out)
           /\ main_mem'[DDR(port)] = ddr
           /\ main_mem'[PORT(port)] = out
           /\ \A a \in Addrs \ RegsOf(port) : main_mem'[a] = main_mem[a]
<1>1. addr \in {DDR(port), PORT(port)} /\ addr \in Addrs
  BY RegisterShape DEF PortRegisterStored
<1> QED BY <1>1, RegisterShape DEF PortRegisterStored, RegsOf

LEMMA PortRegisterKeeps ==
    ASSUME NEW port \in Ports, NEW addr, NEW data, NEW ddr, NEW out,
           PortRegisterStored(port, addr, data, ddr, out), UNCHANGED pin_state,
           main_mem \in [Addrs -> Byte],
           DriveListened, ToldListened, DrivenInputVisible, OutputViewFresh
    PROVE  DrivenInputVisible' /\ OutputViewFresh'
<1>1. ASSUME NEW pin \in Pins, portOf[pin] # port
      PROVE  VisibleAt(pin)' /\ FreshAt(pin)'
  <2>1. portOf[pin] \in Ports /\ RegsOf(portOf[pin]) \cap RegsOf(port) = {}
    BY <1>1, DeviceAssumption, OtherPort
  <2>2. RegsOf(portOf[pin]) \subseteq Addrs
    BY <2>1, RegisterShape DEF RegsOf
  <2>3. \A q \in PinsOf(portOf[pin]) : told_pin'[q] = told_pin[q]
    BY <1>1 DEF PortRegisterStored, PinsOf
  <2>4. \A a \in RegsOf(portOf[pin]) : main_mem'[a] = main_mem[a]
    BY <2>1, <2>2, StoredCells
  <2>5. RegsOf(portOf[pin]) \cap bypassed' = RegsOf(portOf[pin]) \cap bypassed
    BY <2>1 DEF PortRegisterStored
  <2>6. PortSame(portOf[pin])
    BY <2>3, <2>4, <2>5 DEF PortSame
  <2> QED BY <2>6, SamePortKeeps, PinByPin
<1>2. ASSUME NEW pin \in Pins, portOf[pin] = port
      PROVE  VisibleAt(pin)'
  BY <1>2, RefreshShowsDrive, StoredCells DEF VisibleAt
<1>3. ASSUME NEW pin \in Pins, portOf[pin] = port
      PROVE  FreshAt(pin)'
  <2> SUFFICES ASSUME IsOutput(pin)', NEW level \in told_pin'[pin]
               PROVE  level = (pinBit[pin] \in main_mem'[PORT(port)])
    BY <1>3 DEF FreshAt
  <2>1. pinBit[pin] \in ddr /\ pin \in PinsOf(port)
    BY <1>3, StoredCells DEF IsOutput, PinsOf
  <2>2. pin_listener[pin] # NULL
    BY DEF PortRegisterStored, NotifiesPin, ToldListened
  <2>3. told_pin'[pin] = {pinBit[pin] \in out}
    BY <2>1, <2>2 DEF PortRegisterStored, NotifiesPin
  <2> QED BY <2>3, StoredCells
<1>4. /\ DrivenInputVisible' <=> \A pin \in Pins : VisibleAt(pin)'
      /\ OutputViewFresh' <=> \A pin \in Pins : FreshAt(pin)'
  BY DEF DrivenInputVisible, VisibleAt, OutputViewFresh, FreshAt
<1> QED BY <1>1, <1>2, <1>3, <1>4

-----------------------------------------------------------------------------
(***************************************************************************)
(* writePin: the driven input pins show their level, the other bits of     *)
(* PINx stay as they are.                                                  *)
(***************************************************************************)
LEMMA DrivenLevel ==
    ASSUME NEW pin \in Pins, NEW state, ~IsOutput(pin)
    PROVE  /\ state = "H" => LevelOf(pin, state) = TRUE
           /\ state = "L" => LevelOf(pin, state) = FALSE
  BY DEF LevelOf, IsOutput

LEMMA WritePinsBits ==
    ASSUME NEW port \in Ports, NEW driven \in SUBSET PinsOf(port), NEW state,
           writePins(port, driven, state), main_mem \in [Addrs -> Byte],
           NEW pin \in PinsOf(port)
    PROVE  /\ pin \in driven =>
                (pinBit[pin] \in main_mem'[PIN(port)] <=> LevelOf(pin, state[pin]))
           /\ pin \notin driven =>
                (pinBit[pin] \in main_mem'[PIN(port)] <=> pinBit[pin] \in main_mem[PIN(port)])
<1> DEFINE high == {pinBit[q] : q \in {r \in driven : LevelOf(r, state[r])}}
           kept == main_mem[PIN(port)] \ {pinBit[q] : q \in driven}
<1>1. main_mem'[PIN(port)] = kept \cup high
  BY RegisterShape DEF writePins
<1>2. \A q \in PinsOf(port) : q # pin => pinBit[q] # pinBit[pin]
  BY PinMapAssumption DEF PinsOf
<1> QED BY <1>1, <1>2

LEMMA WritePinsKeeps ==
    ASSUME NEW port \in Ports, NEW driven \in SUBSET PinsOf(port), NEW state,
           writePins(port, driven, state), UNCHANGED <<told_pin, bypassed>>,
           main_mem \in [Addrs -> Byte],
           DrivenInputVisible, OutputViewFresh
    PROVE  DrivenInputVisible' /\ OutputViewFresh'
<1>1. \A a \in Addrs : a # PIN(port) => main_mem'[a] = main_mem[a]
  BY DEF writePins
<1>2. ASSUME NEW pin \in Pins, portOf[pin] # port
      PROVE  VisibleAt(pin)' /\ FreshAt(pin)'
  <2>1. portOf[pin] \in Ports /\ RegsOf(portOf[pin]) \cap RegsOf(port) = {}
    BY <1>2, DeviceAssumption, OtherPort
  <2>2. RegsOf(portOf[pin]) \subseteq Addrs \ {PIN(port)}
    BY <2>1, RegisterShape DEF RegsOf
  <2>3. \A q \in PinsOf(portOf[pin]) : q \in Pins /\ q \notin driven
    BY <1>2 DEF PinsOf
  <2>4. \A q \in PinsOf(portOf[pin]) : pin_state'[q] = pin_state[q]
    BY <2>3 DEF writePins
  <2>5. PortSame(portOf[pin])
    BY <1>1, <2>2, <2>4 DEF PortSame
  <2> QED BY <2>5, SamePortKeeps, PinByPin
<1>3. ASSUME NEW pin \in Pins, portOf[pin] = port
      PROVE  VisibleAt(pin)' /\ FreshAt(pin)'
  <2>1. pin \in PinsOf(port) /\ VisibleAt(pin) /\ FreshAt(pin)
    BY <1>3, PinByPin DEF PinsOf
  <2>2. main_mem'[DDR(port)] = main_mem[DDR(port)] /\ main_mem'[PORT(port)] = main_mem[PORT(port)]
    BY <1>1, RegisterShape
  <2>3. FreshAt(pin)'
    BY <1>3, <2>1, <2>2 DEF FreshAt, IsOutput, Bypassed
  <2>4. CASE pin \notin driven
    <3>1. pin_state'[pin] = pin_state[pin]
      BY <2>4 DEF writePins
    <3>2. pinBit[pin] \in main_mem'[PIN(port)] <=> pinBit[pin] \in main_mem[PIN(port)]
      BY <2>1, <2>4, WritePinsBits
    <3> QED BY <1>3, <2>1, <2>2, <2>3, <3>1, <3>2 DEF VisibleAt, IsOutput, Bypassed
  <2>5. CASE pin \in driven
    <3>1. pin_state'[pin] = state[pin]
      BY <2>5 DEF writePins
    <3>2. pinBit[pin] \in main_mem'[PIN(port)] <=> LevelOf(pin, state[pin])
      BY <2>1, <2>5, WritePinsBits
    <3>3. ~IsOutput(pin)' => ~IsOutput(pin)
      BY <1>3, <2>2 DEF IsOutput
    <3>4. ASSUME state[pin] \in {"H", "L"}, ~IsOutput(pin)'
          PROVE  pinBit[pin] \in main_mem'[PIN(port)] <=> state[pin] = "H"
      BY <3>2, <3>3, <3>4, DrivenLevel
    <3> QED BY <1>3, <2>3, <3>1, <3>4 DEF VisibleAt
  <2> QED BY <2>4, <2>5
<1>4. /\ DrivenInputVisible' <=> \A pin \in Pins : VisibleAt(pin)'
      /\ OutputViewFresh' <=> \A pin \in Pins : FreshAt(pin)'
  BY DEF DrivenInputVisible, VisibleAt, OutputViewFresh, FreshAt
<1> QED BY <1>2, <1>3, <1>4

-----------------------------------------------------------------------------
(***************************************************************************)
(* Types.                                                                  *)
(***************************************************************************)
PortTypeOK ==
    /\ main_mem \in [Addrs -> Byte]
    /\ sreg \in Byte
    /\ pin_state \in [Pins -> PinStates]
    /\ told_mem \in [Addrs -> Last(Byte)]
    /\ told_port \in [Ports -> Last(Byte)]
    /\ told_pin \in [Pins -> Last(BOOLEAN)]
    /\ bypassed \subseteq Addrs

LEMMA LastShape ==
    /\ \A v \in Byte : {v} \in Last(Byte)
    /\ \A v \in BOOLEAN : {v} \in Last(BOOLEAN)
    /\ {} \in Last(Byte) /\ {} \in Last(BOOLEAN)
  BY DEF Last

LEMMA RefreshedPinType ==
    ASSUME PortTypeOK, NEW port \in Ports, NEW ddr, NEW out \in Byte
    PROVE  RefreshedPin(port, ddr, out) \in Byte
<1>1. BitsIn(port, "H") \in Byte
  BY PinMapAssumption DEF BitsIn, PinsOf, Byte
<1>2. main_mem[PIN(port)] \in Byte
  BY RegisterShape DEF PortTypeOK
<1> QED BY <1>1, <1>2 DEF RefreshedPin, Byte

LEMMA StoreShape ==
    ASSUME NEW addr \in Addrs, NEW data, WritePortRegister(addr, data)
    PROVE  \E port, ddr, out :
              /\ port \in Ports
              /\ PortRegisterStored(port, addr, data, ddr, out)
              /\ told_port' = IF port_listener[port] # NULL
                              THEN [told_port EXCEPT ![port] = {RefreshedPin(port, ddr, out)}]
                              ELSE told_port
              /\ sreg' = sreg
<1>1. PICK port \in Ports :
        LET stored == [main_mem EXCEPT ![addr] = data]
            ddr == stored[DDR(port)]
            out == stored[PORT(port)]
            in  == RefreshedPin(port, ddr, out)
        IN  /\ addr \in {DDR(port), PORT(port)}
            /\ main_mem' = [stored EXCEPT ![PIN(port)] = in]
            /\ told_pin' = [pin \in Pins |->
                    IF pin \in PinsOf(port) /\ NotifiesPin(pin, ddr)
                    THEN {pinBit[pin] \in out}
                    ELSE told_pin[pin]]
            /\ IF port_listener[port] # NULL
               THEN PortNotification(port, in)
               ELSE UNCHANGED told_port
            /\ bypassed' = bypassed \ RegsOf(port)
            /\ UNCHANGED sreg
  BY DEF WritePortRegister
<1> DEFINE stored == [main_mem EXCEPT ![addr] = data]
<1>2. PortRegisterStored(port, addr, data, stored[DDR(port)], stored[PORT(port)])
  BY <1>1 DEF PortRegisterStored
<1> QED BY <1>1, <1>2 DEF PortNotification

LEMMA PortRegisterType ==
    ASSUME PortTypeOK, NEW addr \in Addrs, NEW data \in Byte, WritePortRegister(addr, data),
           UNCHANGED pin_state, told_mem' \in [Addrs -> Last(Byte)]
    PROVE  PortTypeOK'
<1>1. PICK port, ddr, out :
        /\ port \in Ports
        /\ PortRegisterStored(port, addr, data, ddr, out)
        /\ told_port' = IF port_listener[port] # NULL
                        THEN [told_port EXCEPT ![port] = {RefreshedPin(port, ddr, out)}]
                        ELSE told_port
        /\ sreg' = sreg
  BY StoreShape
<1>2. out \in Byte
  BY <1>1, RegisterShape DEF PortRegisterStored, PortTypeOK
<1>3. RefreshedPin(port, ddr, out) \in Byte
  BY <1>1, <1>2, RefreshedPinType
<1>4. main_mem' \in [Addrs -> Byte]
  <2>1. [main_mem EXCEPT ![addr] = data] \in [Addrs -> Byte]
    BY DEF PortTypeOK
  <2> QED BY <1>1, <1>3, <2>1 DEF PortRegisterStored
<1>5. told_pin' \in [Pins -> Last(BOOLEAN)]
  <2>1. ASSUME NEW pin \in Pins
        PROVE  {pinBit[pin] \in out} \in Last(BOOLEAN)
    <3>1. CASE pinBit[pin] \in out
      <4>1. (pinBit[pin] \in out) = TRUE
        BY <3>1
      <4> QED BY <4>1, LastShape
    <3>2. CASE pinBit[pin] \notin out
      <4>1. (pinBit[pin] \in out) = FALSE
        BY <3>2
      <4> QED BY <4>1, LastShape
    <3> QED BY <3>1, <3>2
  <2>2. \A pin \in Pins : told_pin[pin] \in Last(BOOLEAN)
    BY DEF PortTypeOK
  <2> QED BY <1>1, <2>1, <2>2 DEF PortRegisterStored
<1>6. told_port' \in [Ports -> Last(Byte)]
  BY <1>1, <1>3, LastShape DEF PortTypeOK
<1> QED BY <1>1, <1>4, <1>5, <1>6 DEF PortRegisterStored, PortTypeOK

LEMMA WritePinsType ==
    ASSUME PortTypeOK, NEW port \in Ports, NEW driven \in SUBSET PinsOf(port),
           NEW state, \A pin \in driven : state[pin] \in PinStates,
           writePins(port, driven, state)
    PROVE  main_mem' \in [Addrs -> Byte] /\ pin_state' \in [Pins -> PinStates]
<1> DEFINE high == {pinBit[q] : q \in {r \in driven : LevelOf(r, state[r])}}
           kept == main_mem[PIN(port)] \ {pinBit[q] : q \in driven}
<1>1. high \in Byte
  BY PinMapAssumption DEF PinsOf, Byte
<1>2. kept \in Byte
  BY RegisterShape DEF PortTypeOK, Byte
<1>3. kept \cup high \in Byte
  BY <1>1, <1>2 DEF Byte
<1>4. main_mem' = [main_mem EXCEPT ![PIN(port)] = kept \cup high]
  BY DEF writePins
<1>5. pin_state' \in [Pins -> PinStates]
  BY DEF writePins, PortTypeOK
<1> QED BY <1>3, <1>4, <1>5 DEF PortTypeOK

-----------------------------------------------------------------------------
(***************************************************************************)
(* One lemma per operation: each keeps MemoryInv.                          *)
(***************************************************************************)
MemoryInv ==
    /\ PortTypeOK
    /\ DriveListened
    /\ ToldListened
    /\ DrivenInputVisible
    /\ OutputViewFresh
    /\ MemViewFresh

LEMMA NotificationType ==
    ASSUME PortTypeOK, ToldListened, NEW addr \in Addrs, NEW data \in Byte,
           MemoryNotification(addr, data), UNCHANGED listenerVars
    PROVE  /\ told_mem' \in [Addrs -> Last(Byte)]
           /\ \A a \in Addrs : told_mem'[a] # {} => mem_listeners'[a] # NULL
           /\ \A a \in Addrs \ {addr} : told_mem'[a] = told_mem[a]
           /\ told_mem'[addr] \in {{}, {data}}
  BY LastShape DEF MemoryNotification, PortTypeOK, ToldListened, listenerVars, tables

LEMMA WriteMemKeeps ==
    ASSUME MemoryInv, NEW addr \in Addrs, NEW data \in Byte,
           writeMem(addr, data), UNCHANGED listenerVars
    PROVE  MemoryInv'
<1> USE DEF MemoryInv
<1>0. UNCHANGED <<pin_state, port_listener, port_pin_listener, pin_listener>>
  BY DEF writeMem, listenerVars, tables
<1>1. DriveListened'
  BY <1>0, DeviceAssumption DEF DriveListened, PortTaken
<1>2. /\ told_mem' \in [Addrs -> Last(Byte)]
      /\ \A a \in Addrs : told_mem'[a] # {} => mem_listeners'[a] # NULL
      /\ \A a \in Addrs \ {addr} : told_mem'[a] = told_mem[a]
      /\ told_mem'[addr] \in {{}, {data}}
  BY NotificationType DEF writeMem
<1>3. CASE WriteSpecial(addr, data)
  <2>1. PortTypeOK'
    BY <1>0, <1>2, <1>3 DEF PortTypeOK, WriteSpecial, StoredEarly
  <2>2. ToldListened'
    BY <1>0, <1>2, <1>3 DEF ToldListened, WriteSpecial
  <2>3. addr \in Special /\ addr \notin Registers
    BY <1>3, MemoryMapAssumption DEF WriteSpecial
  <2>4. \A a \in Addrs \ {addr} : main_mem'[a] = main_mem[a]
    BY <1>3 DEF WriteSpecial, StoredEarly, PortTypeOK
  <2>5. DrivenInputVisible' /\ OutputViewFresh'
    BY <1>0, <1>3, <2>3, <2>4, OneCellKeeps DEF WriteSpecial
  <2>6. MemViewFresh'
    BY <1>2, <1>3, <2>3, <2>4, MemViewKeeps DEF WriteSpecial
  <2> QED BY <1>1, <2>1, <2>2, <2>5, <2>6
<1>4. CASE WritePlain(addr, data)
  <2>1. PortTypeOK'
    BY <1>0, <1>2, <1>4 DEF PortTypeOK, WritePlain
  <2>2. ToldListened'
    BY <1>0, <1>2, <1>4 DEF ToldListened, WritePlain
  <2>3. addr \notin Registers /\ main_mem'[addr] = data
    BY <1>4 DEF WritePlain, PortTypeOK
  <2>4. \A a \in Addrs \ {addr} :
            main_mem'[a] = main_mem[a] /\ (a \in bypassed' <=> a \in bypassed)
    BY <1>4 DEF WritePlain, PortTypeOK
  <2>5. DrivenInputVisible' /\ OutputViewFresh'
    BY <1>0, <1>4, <2>3, <2>4, OneCellKeeps DEF WritePlain
  <2>6. MemViewFresh'
    BY <1>2, <2>3, <2>4, MemViewKeeps
  <2> QED BY <1>1, <2>1, <2>2, <2>5, <2>6
<1>5. CASE WritePinRegister(addr, data)
  <2>1. PortTypeOK'
    BY <1>0, <1>2, <1>5 DEF PortTypeOK, WritePinRegister, StoredEarly
  <2>2. ToldListened'
    BY <1>0, <1>2, <1>5 DEF ToldListened, WritePinRegister
  <2>3. addr \in Registers
    BY <1>5 DEF WritePinRegister, Registers, RegsOf
  <2>4. \A a \in Addrs \ {addr} :
            main_mem'[a] = main_mem[a] /\ (a \in bypassed' <=> a \in bypassed)
    BY <1>5 DEF WritePinRegister, StoredEarly, PortTypeOK
  <2>5. addr \in bypassed' \/ UNCHANGED <<main_mem, bypassed>>
    BY <1>5 DEF WritePinRegister, StoredEarly
  <2>6. DrivenInputVisible' /\ OutputViewFresh'
    BY <1>0, <1>5, <2>4, <2>5, OneCellKeeps DEF WritePinRegister
  <2>7. MemViewFresh'
    BY <1>2, <2>3, <2>4, MemViewKeeps
  <2> QED BY <1>1, <2>1, <2>2, <2>6, <2>7
<1>6. CASE WritePortRegister(addr, data)
  <2>1. UNCHANGED pin_state
    BY <1>0
  <2>2. PICK port, ddr, out :
           port \in Ports /\ PortRegisterStored(port, addr, data, ddr, out)
    BY <1>6, StoreShape
  <2>3. PortTypeOK'
    BY <1>2, <1>6, <2>1, PortRegisterType
  <2>4. ToldListened'
    BY <1>0, <1>2, <2>2 DEF ToldListened, PortRegisterStored, NotifiesPin
  <2>5. main_mem \in [Addrs -> Byte]
    BY DEF PortTypeOK
  <2>6. DrivenInputVisible' /\ OutputViewFresh'
    BY <2>1, <2>2, <2>5, PortRegisterKeeps
  <2>7. addr \in Registers /\ \A a \in Addrs \ Registers : main_mem'[a] = main_mem[a]
    BY <2>2, <2>5, StoredCells, RegisterShape
  <2>8. \A a \in Addrs \ Registers : a \in bypassed => a \in bypassed'
    BY <2>2, RegisterShape DEF PortRegisterStored
  <2>9. MemViewFresh'
    BY <1>2, <2>7, <2>8, MemViewKeeps
  <2> QED BY <1>1, <2>3, <2>4, <2>6, <2>9
<1> QED BY <1>3, <1>4, <1>5, <1>6 DEF writeMem

(***************************************************************************)
(* SBI, CBI, PUSH and WRITEM: one cell, recorded as bypassed.              *)
(***************************************************************************)
LEMMA BypassKeeps ==
    ASSUME MemoryInv, NEW addr \in Addrs, NEW data \in Byte,
           main_mem' = [main_mem EXCEPT ![addr] = data],
           bypassed' = bypassed \cup {addr},
           UNCHANGED <<sreg, pin_state, told, listenerVars>>
    PROVE  MemoryInv'
<1> USE DEF MemoryInv
<1>1. UNCHANGED <<sreg, pin_state, told_mem, told_port, told_pin,
                  mem_listeners, port_listener, port_pin_listener, pin_listener>>
  BY DEF told, listenerVars, tables
<1>2. PortTypeOK'
  BY <1>1 DEF PortTypeOK
<1>3. DriveListened' /\ ToldListened'
  BY <1>1, DeviceAssumption DEF DriveListened, PortTaken, ToldListened
<1>4. \A a \in Addrs \ {addr} : main_mem'[a] = main_mem[a]
  BY DEF PortTypeOK
<1>5. \A a \in Addrs \ {addr} : a \in bypassed' <=> a \in bypassed
  OBVIOUS
<1>6. DrivenInputVisible' /\ OutputViewFresh'
  BY <1>1, <1>4, <1>5, OneCellKeeps
<1>7. MemViewFresh'
  BY <1>1, <1>4, <1>5, MemViewKeeps
<1> QED BY <1>2, <1>3, <1>6, <1>7

LEMMA InstructionKeeps ==
    ASSUME MemoryInv, Instruction
    PROVE  MemoryInv'
<1>1. ASSUME NEW addr \in Addrs, NEW data \in Byte, Store(addr, data)
      PROVE  MemoryInv'
  BY <1>1, WriteMemKeeps DEF Store, Instruction
<1>2. ASSUME NEW addr \in Addrs, NEW data \in Byte, DirectStore(addr, data)
      PROVE  MemoryInv'
  BY <1>2, BypassKeeps DEF DirectStore, Instruction
<1>3. ASSUME NEW addr \in Addrs, NEW bit \in Bit, SBI(addr, bit) \/ CBI(addr, bit)
      PROVE  MemoryInv'
  <2>1. main_mem[addr] \cup {bit} \in Byte /\ main_mem[addr] \ {bit} \in Byte
    BY DEF MemoryInv, PortTypeOK, Byte
  <2> QED BY <1>2, <1>3, <2>1 DEF SBI, CBI
<1> QED BY <1>1, <1>2, <1>3 DEF Instruction, PUSH

(***************************************************************************)
(* WRITEP and WRITEPN: pins of a port that the peripheral listens to.      *)
(***************************************************************************)
LEMMA DriveKeeps ==
    ASSUME MemoryInv, NEW port \in Ports, NEW driven \in SUBSET PinsOf(port), NEW state,
           \A pin \in driven : state[pin] \in PinStates,
           writePins(port, driven, state),
           PortTaken(port), told_port' \in [Ports -> Last(Byte)],
           UNCHANGED <<sreg, told_mem, told_pin, bypassed, listenerVars>>
    PROVE  MemoryInv'
<1> USE DEF MemoryInv
<1>1. UNCHANGED <<mem_listeners, port_listener, port_pin_listener, pin_listener>>
  BY DEF listenerVars, tables
<1>2. PortTypeOK'
  BY WritePinsType DEF PortTypeOK
<1>3. DriveListened'
  <2> SUFFICES ASSUME NEW pin \in Pins, pin_state'[pin] # "Z"
               PROVE  PortTaken(portOf[pin])'
    BY DEF DriveListened
  <2>1. CASE pin \in driven
    BY <1>1, <2>1 DEF PinsOf, PortTaken
  <2>2. CASE pin \notin driven
    <3>1. pin_state[pin] # "Z"
      BY <2>2 DEF writePins
    <3> QED BY <1>1, <3>1 DEF DriveListened, PortTaken
  <2> QED BY <2>1, <2>2
<1>4. ToldListened'
  BY <1>1 DEF ToldListened
<1>5. DrivenInputVisible' /\ OutputViewFresh'
  BY WritePinsKeeps DEF PortTypeOK
<1>6. PIN(port) \in Addrs /\ PIN(port) \in Registers
  BY RegisterShape DEF RegsOf
<1>7. \A a \in Addrs \ {PIN(port)} : main_mem'[a] = main_mem[a]
  BY DEF writePins, PortTypeOK
<1>8. MemViewFresh'
  BY <1>6, <1>7, MemViewKeeps
<1> QED BY <1>2, <1>3, <1>4, <1>5, <1>8

LEMMA NothingKeeps ==
    ASSUME MemoryInv, UNCHANGED <<memory, pin_state, told, bypassed, listenerVars>>
    PROVE  MemoryInv'
<1>1. UNCHANGED <<main_mem, sreg, pin_state, told_mem, told_port, told_pin, bypassed,
                  mem_listeners, port_listener, port_pin_listener, pin_listener>>
  BY DEF memory, told, listenerVars, tables
<1> QED BY <1>1 DEF MemoryInv, PortTypeOK, DriveListened, PortTaken, ToldListened,
          DrivenInputVisible, IsOutput, Bypassed, OutputViewFresh, MemViewFresh

LEMMA WriteRequestKeeps ==
    ASSUME MemoryInv, TablesInv, NEW perph \in Peripherals, NEW reply,
           WriteRequest(perph, reply), UNCHANGED listenerVars
    PROVE  MemoryInv'
<1>1. UNCHANGED <<memory, pin_state, told, bypassed>> => MemoryInv'
  BY NothingKeeps
<1>2. ASSUME NEW addr \in Addrs, NEW data \in Byte, writemHandler(perph, addr, data, reply)
      PROVE  MemoryInv'
  BY <1>1, <1>2, BypassKeeps DEF writemHandler
<1>3. ASSUME NEW port \in Ports \cup {NoPort}, NEW data \in Byte,
             writepHandler(perph, port, data, reply)
      PROVE  MemoryInv'
  <2>1. CASE UNCHANGED <<memory, pin_state, told, bypassed>>
    BY <1>1, <2>1
  <2> DEFINE levels == [pin \in PinsOf(port) |-> IF pinBit[pin] \in data THEN "H" ELSE "L"]
  <2>2. CASE /\ port \in Ports /\ port_listener[port] = perph
             /\ writePins(port, PinsOf(port), levels)
             /\ PortNotification(port, main_mem'[PIN(port)])
             /\ UNCHANGED <<sreg, told_mem, told_pin, bypassed>>
    <3>1. PortTaken(port)
      BY <2>2, DeviceAssumption DEF PortTaken
    <3>2. \A pin \in PinsOf(port) : levels[pin] \in PinStates
      BY DEF PinStates
    <3>3. main_mem'[PIN(port)] \in Byte
      <4>1. main_mem' \in [Addrs -> Byte]
        BY <2>2, <3>2, WritePinsType DEF MemoryInv
      <4> QED BY <2>2, <4>1, RegisterShape
    <3>4. told_port' \in [Ports -> Last(Byte)]
      BY <2>2, <3>3, LastShape DEF PortNotification, MemoryInv, PortTypeOK
    <3> HIDE DEF levels
    <3> QED BY <2>2, <3>1, <3>2, <3>4, DriveKeeps
  <2> QED BY <1>3, <2>1, <2>2 DEF writepHandler, FollowsWildPin
<1>4. ASSUME NEW pin \in Pins \cup LowPins \cup {NoPin}, NEW state,
             writepnHandler(perph, pin, state, reply)
      PROVE  MemoryInv'
  <2>1. CASE UNCHANGED <<memory, pin_state, told, bypassed>>
    BY <1>1, <2>1
  <2> DEFINE level == [q \in {pin} |-> state]
  <2>2. CASE /\ pin \in Pins /\ MayWritePin(perph, pin) /\ state \in PinStates
             /\ writePins(portOf[pin], {pin}, level)
             /\ UNCHANGED <<sreg, told, bypassed>>
    <3>1. portOf[pin] \in Ports /\ {pin} \in SUBSET PinsOf(portOf[pin])
      BY <2>2, DeviceAssumption DEF PinsOf
    <3>2. PortTaken(portOf[pin])
      BY <2>2, <3>1, DeviceAssumption DEF MayWritePin, PortTaken, TablesInv, PinFlagExact
    <3>3. \A q \in {pin} : level[q] \in PinStates
      BY <2>2
    <3>4. told_port' \in [Ports -> Last(Byte)] /\ UNCHANGED <<told_mem, told_pin>>
      BY <2>2 DEF told, MemoryInv, PortTypeOK
    <3> HIDE DEF level
    <3> QED BY <2>2, <3>1, <3>2, <3>3, <3>4, DriveKeeps
  <2> QED BY <1>4, <2>1, <2>2 DEF writepnHandler, FollowsWildPin
<1> QED BY <1>2, <1>3, <1>4 DEF WriteRequest

-----------------------------------------------------------------------------
(***************************************************************************)
(* A SET* or CLAIM* request is a step of Listeners; the tables only grow.  *)
(***************************************************************************)
LEMMA SetRequestIsNext ==
    ASSUME NEW perph \in Peripherals, NEW reply, SetRequest(perph, reply)
    PROVE  ListenersNext
<1>1. TableStep(perph, reply)
  BY RequestShape
<1>2. reply \in SetReplies
  BY <1>1 DEF TableStep, setmHandler, setpHandler, setpnHandler, SetReplies
<1> QED BY <1>2 DEF ListenersNext

LEMMA TablesGrow ==
    ASSUME TablesInv, NEW perph \in Peripherals, NEW reply, SetRequest(perph, reply)
    PROVE  /\ \A port \in Ports : PortTaken(port) => PortTaken(port)'
           /\ \A pin \in Pins : pin_listener[pin] # NULL => pin_listener'[pin] # NULL
           /\ \A addr \in Addrs : mem_listeners[addr] # NULL => mem_listeners'[addr] # NULL
<1>1. TableStep(perph, reply) /\ perph # NULL
  BY RequestShape, DeviceAssumption
<1>2. CASE UNCHANGED tables
  BY <1>2 DEF tables, PortTaken
<1>3. CASE \E addr \in Addrs : setmHandler(perph, addr, reply)
  BY <1>1, <1>3 DEF setmHandler, tables, PortTaken, TablesInv, ListenersTypeOK
<1>4. CASE \E port \in Ports \cup {NoPort} : setpHandler(perph, port, reply)
  BY <1>1, <1>4 DEF setpHandler, tables, PortTaken, TablesInv, ListenersTypeOK
<1>5. CASE \E pin \in Pins \cup {NoPin} : setpnHandler(perph, pin, reply)
  BY <1>1, <1>5, DeviceAssumption DEF setpnHandler, tables, PortTaken, TablesInv, ListenersTypeOK
<1> QED BY <1>1, <1>3, <1>4, <1>5 DEF TableStep

LEMMA MemorySame ==
    ASSUME MemoryInv, UNCHANGED <<memory, pin_state, told, bypassed>>,
           \A port \in Ports : PortTaken(port) => PortTaken(port)',
           \A pin \in Pins : pin_listener[pin] # NULL => pin_listener'[pin] # NULL,
           \A addr \in Addrs : mem_listeners[addr] # NULL => mem_listeners'[addr] # NULL
    PROVE  MemoryInv'
<1> USE DEF MemoryInv
<1>1. UNCHANGED <<main_mem, sreg, pin_state, told_mem, told_port, told_pin, bypassed>>
  BY DEF memory, told
<1>2. PortTypeOK'
  BY <1>1 DEF PortTypeOK
<1>3. DriveListened'
  BY <1>1, DeviceAssumption DEF DriveListened
<1>4. ToldListened'
  BY <1>1 DEF ToldListened
<1>5. DrivenInputVisible' /\ OutputViewFresh'
  BY <1>1 DEF DrivenInputVisible, OutputViewFresh, IsOutput, Bypassed
<1>6. MemViewFresh'
  BY <1>1 DEF MemViewFresh
<1> QED BY <1>2, <1>3, <1>4, <1>5, <1>6

LEMMA SplitInv ==
    PortInv <=> /\ MemoryInv /\ TablesInv /\ PolledExact
                /\ running \in BOOLEAN /\ crashed \in BOOLEAN
  BY DEF PortInv, MemoryInv, TypeOK, PortTypeOK, TablesInv

(***************************************************************************)
(* Every step of the port model is a step of the tables or leaves them     *)
(* alone.                                                                  *)
(***************************************************************************)
LEMMA StepOfTables == [Next]_vars => [ListenersNext]_listenerVars
<1>1. ASSUME NEW perph \in Peripherals, NEW reply \in Replies, Request(perph, reply)
      PROVE  [ListenersNext]_listenerVars
  BY <1>1, SetRequestIsNext DEF Request
<1>2. CASE Start \/ Instruction
  BY <1>2 DEF Start, Instruction
<1>3. CASE UNCHANGED vars
  BY <1>3 DEF vars
<1> QED BY <1>1, <1>2, <1>3 DEF Next

LEMMA NextKeepsMemory == MemoryInv /\ TablesInv /\ [Next]_vars => MemoryInv'
<1> SUFFICES ASSUME MemoryInv, TablesInv, [Next]_vars
             PROVE  MemoryInv'
  OBVIOUS
<1>1. ASSUME NEW perph \in Peripherals, NEW reply \in Replies, Request(perph, reply)
      PROVE  MemoryInv'
  <2>1. CASE SetRequest(perph, reply) /\ UNCHANGED <<memory, pin_state, told, bypassed, crashed>>
    BY <2>1, TablesGrow, MemorySame
  <2>2. CASE WriteRequest(perph, reply) /\ UNCHANGED listenerVars
    BY <2>2, WriteRequestKeeps
  <2>3. CASE (\E pin \in LowPins : setpnHandlerLow(perph, pin, reply)) /\ UNCHANGED listenerVars
    BY <2>3, NothingKeeps DEF setpnHandlerLow, FollowsWildPin
  <2> QED BY <1>1, <2>1, <2>2, <2>3 DEF Request
<1>2. CASE Start \/ UNCHANGED vars
  <2>1. UNCHANGED <<memory, pin_state, told, bypassed, listenerVars>>
    BY <1>2 DEF Start, vars, portVars, memory, told
  <2>2. UNCHANGED <<mem_listeners, port_listener, port_pin_listener, pin_listener>>
    BY <2>1 DEF listenerVars, tables
  <2> QED BY <2>1, <2>2, MemorySame DEF PortTaken
<1>3. CASE Instruction
  BY <1>3, InstructionKeeps
<1> QED BY <1>1, <1>2, <1>3 DEF Next

LEMMA NextKeepsFlags ==
    running \in BOOLEAN /\ crashed \in BOOLEAN /\ [Next]_vars
    => running' \in BOOLEAN /\ crashed' \in BOOLEAN
<1> SUFFICES ASSUME running \in BOOLEAN, crashed \in BOOLEAN, [Next]_vars
             PROVE  running' \in BOOLEAN /\ crashed' \in BOOLEAN
  OBVIOUS
<1>1. ASSUME NEW perph \in Peripherals, NEW reply \in Replies, Request(perph, reply)
      PROVE  running' \in BOOLEAN /\ crashed' \in BOOLEAN
  BY <1>1 DEF Request, WriteRequest, writemHandler, writepHandler, writepnHandler,
              setpnHandlerLow, FollowsWildPin
<1>2. CASE Start \/ Instruction \/ UNCHANGED vars
  BY <1>2 DEF Start, Instruction, vars, portVars
<1> QED BY <1>1, <1>2 DEF Next

LEMMA NextKeepsPort == PortInv /\ [Next]_vars => PortInv'
<1>1. PortInv /\ [Next]_vars => MemoryInv'
  BY SplitInv, NextKeepsMemory
<1>2. PortInv /\ [Next]_vars => TablesInv' /\ PolledExact'
  BY SplitInv, StepOfTables, NextKeepsTables, NextKeepsPolled
<1>3. PortInv' <=> /\ MemoryInv' /\ TablesInv' /\ PolledExact'
                   /\ running' \in BOOLEAN /\ crashed' \in BOOLEAN
  BY DEF PortInv, MemoryInv, TypeOK, PortTypeOK, TablesInv
<1> QED BY <1>1, <1>2, <1>3, SplitInv, NextKeepsFlags

-----------------------------------------------------------------------------
(***************************************************************************)
(* The inductive invariant always holds.                                   *)
(***************************************************************************)
THEOREM PortCorrect == Spec => []PortInv
  BY InitPort, NextKeepsPort, PTL DEF Spec

(***************************************************************************)
(* Type correctness of the memory, the pins and the notifications.         *)
(***************************************************************************)
THEOREM PortTypeCorrect == Spec => []TypeOK
<1>1. PortInv => TypeOK
  BY DEF PortInv
<1> QED BY <1>1, PortCorrect, PTL

(***************************************************************************)
(* An input pin that a peripheral drives reads that level in PINx through  *)
(* every change of direction and pull-up (writePin, writeMem).             *)
(***************************************************************************)
THEOREM DrivenInputsVisible == Spec => []DrivenInputVisible
<1>1. PortInv => DrivenInputVisible
  BY DEF PortInv
<1> QED BY <1>1, PortCorrect, PTL

(***************************************************************************)
(* What the listener of an output pin was told last is the level the       *)
(* program drives (writeMem, pinNotification).                             *)
(***************************************************************************)
THEOREM OutputViewsFresh == Spec => []OutputViewFresh
<1>1. PortInv => OutputViewFresh
  BY DEF PortInv
<1> QED BY <1>1, PortCorrect, PTL

(***************************************************************************)
(* What the listener of an ordinary cell was told last is the cell's value *)
(* (writeMem, memoryNotification).                                         *)
(***************************************************************************)
THEOREM MemViewsFresh == Spec => []MemViewFresh
<1>1. PortInv => MemViewFresh
  BY DEF PortInv
<1> QED BY <1>1, PortCorrect, PTL

(***************************************************************************)
(* A WRITEP or WRITEPN of perph drives only pins that perph owns: it       *)
(* listens to the pin or to its port, and nobody listens to both.          *)
(***************************************************************************)
LEMMA DriverOwns ==
    ASSUME TablesInv, NEW perph \in Peripherals, NEW pin \in Pins, MayWritePin(perph, pin)
    PROVE  PinOwner(pin) = perph /\ perph # NULL
<1>1. perph # NULL
  BY DeviceAssumption
<1> QED BY <1>1 DEF MayWritePin, PinOwner, TablesInv, PortPinExclusive

LEMMA DriverIsOwner ==
    ASSUME TablesInv, NEW perph \in Peripherals, NEW pin \in Pins, DrivesPin(perph, pin)
    PROVE  PinOwner(pin) = perph /\ perph # NULL
<1>1. MayWritePin(perph, pin)
  <2>1. ASSUME NEW data, writepHandler(perph, portOf[pin], data, "ACK")
        PROVE  port_listener[portOf[pin]] = perph
    BY <2>1 DEF writepHandler, FollowsWildPin
  <2>2. ASSUME NEW state, writepnHandler(perph, pin, state, "ACK")
        PROVE  MayWritePin(perph, pin)
    BY <2>2 DEF writepnHandler, FollowsWildPin
  <2> QED BY <2>1, <2>2 DEF DrivesPin, MayWritePin
<1> QED BY <1>1, DriverOwns

(***************************************************************************)
(* A request that changes how a pin is driven is a WRITEP to its port or a *)
(* WRITEPN to the pin itself.                                              *)
(***************************************************************************)
LEMMA DriveIsWrite ==
    ASSUME TypeOK, NEW perph \in Peripherals, NEW reply, IsServed(perph),
           WriteRequest(perph, reply),
           NEW pin \in Pins, pin_state'[pin] # pin_state[pin]
    PROVE  DrivesPin(perph, pin)
<1>1. ~ UNCHANGED pin_state
  OBVIOUS
<1>2. ASSUME NEW p \in Ports \cup {NoPort}, NEW data \in Byte,
             writepHandler(perph, p, data, reply)
      PROVE  DrivesPin(perph, pin)
  <2>1. reply = "ACK" /\ \E state : writePins(p, PinsOf(p), state)
    BY <1>1, <1>2 DEF writepHandler, FollowsWildPin
  <2>2. pin \in PinsOf(p)
    BY <2>1 DEF writePins, TypeOK
  <2> QED BY <1>2, <2>1, <2>2 DEF DrivesPin, PinsOf
<1>3. ASSUME NEW q \in Pins \cup LowPins \cup {NoPin}, NEW state \in PinStates \cup {BadState},
             writepnHandler(perph, q, state, reply)
      PROVE  DrivesPin(perph, pin)
  <2>1. /\ reply = "ACK" /\ state \in PinStates
        /\ \E level : writePins(portOf[q], {q}, level)
    BY <1>1, <1>3 DEF writepnHandler, FollowsWildPin
  <2>2. pin = q
    BY <2>1 DEF writePins, TypeOK
  <2> QED BY <1>3, <2>1, <2>2 DEF DrivesPin
<1>4. ~ \E addr \in Addrs, data \in Byte : writemHandler(perph, addr, data, reply)
  BY <1>1 DEF writemHandler
<1> QED BY <1>2, <1>3, <1>4 DEF WriteRequest

LEMMA DriveStep ==
    ASSUME PortInv, [Next]_vars, NEW pin \in Pins, pin_state'[pin] # pin_state[pin]
    PROVE  /\ PinOwner(pin) # NULL
           /\ DrivesPin(PinOwner(pin), pin)
           /\ \A perph \in Peripherals \ {PinOwner(pin)} : ~DrivesPin(perph, pin)
<1>1. TypeOK /\ TablesInv
  BY DEF PortInv
<1>2. PICK perph \in Peripherals, reply \in Replies :
        IsServed(perph) /\ WriteRequest(perph, reply)
  BY DEF Next, Request, Start, Instruction, Store, PUSH, SBI, CBI, DirectStore, writeMem,
         vars, portVars, setpnHandlerLow, FollowsWildPin
<1>3. DrivesPin(perph, pin)
  BY <1>1, <1>2, DriveIsWrite
<1>4. PinOwner(pin) = perph /\ perph # NULL
  BY <1>1, <1>3, DriverIsOwner
<1>5. \A other \in Peripherals : DrivesPin(other, pin) => PinOwner(pin) = other
  BY <1>1, DriverIsOwner
<1> QED BY <1>3, <1>4, <1>5

(***************************************************************************)
(* A step that changes how a pin is driven is a request of its one owner,  *)
(* served at that time, and could not have been another peripheral's       *)
(* (writepHandler, writepnHandler).                                        *)
(***************************************************************************)
THEOREM DrivesAreOwned == Spec => DriveIsOwned
<1> DEFINE OwnedDrive(pin) ==
        pin_state'[pin] # pin_state[pin]
        => /\ PinOwner(pin) # NULL
           /\ DrivesPin(PinOwner(pin), pin)
           /\ \A perph \in Peripherals \ {PinOwner(pin)} : ~DrivesPin(perph, pin)
<1>1. PortInv /\ [Next]_vars => [\A pin \in Pins : OwnedDrive(pin)]_vars
  BY DriveStep
<1> QED BY <1>1, PortCorrect, PTL DEF Spec, DriveIsOwned

(***************************************************************************)
(* What each kind of step does to PINx of a port with a listener, and when *)
(* it tells the listener.                                                  *)
(***************************************************************************)
ReportedAt(port) ==
    \/ main_mem'[PIN(port)] = main_mem[PIN(port)]
    \/ told_port'[port] = {main_mem'[PIN(port)]}
    \/ PIN(port) \in bypassed'

LEMMA StoreReported ==
    ASSUME PortInv, NEW port \in Ports, port_listener[port] # NULL,
           NEW addr \in Addrs, NEW data, writeMem(addr, data)
    PROVE  ReportedAt(port)
<1>1. /\ main_mem \in [Addrs -> Byte] /\ told_port \in [Ports -> Last(Byte)]
      /\ PIN(port) \in Addrs /\ PIN(port) \in Registers /\ PIN(port) \notin Special
  BY RegisterShape DEF PortInv, TypeOK, RegsOf
<1>2. CASE WriteSpecial(addr, data) \/ WritePlain(addr, data)
  BY <1>1, <1>2 DEF WriteSpecial, WritePlain, StoredEarly, ReportedAt
<1>3. CASE WritePinRegister(addr, data)
  BY <1>1, <1>3 DEF WritePinRegister, StoredEarly, ReportedAt
<1>4. CASE WritePortRegister(addr, data)
  <2>1. PICK p \in Ports :
          LET stored == [main_mem EXCEPT ![addr] = data]
              in == RefreshedPin(p, stored[DDR(p)], stored[PORT(p)])
          IN  /\ addr \in {DDR(p), PORT(p)}
              /\ main_mem' = [stored EXCEPT ![PIN(p)] = in]
              /\ IF port_listener[p] # NULL
                 THEN PortNotification(p, in) ELSE UNCHANGED told_port
    BY <1>4 DEF WritePortRegister
  <2> DEFINE stored == [main_mem EXCEPT ![addr] = data]
             in == RefreshedPin(p, stored[DDR(p)], stored[PORT(p)])
  <2>2. CASE p = port
    <3>1. main_mem'[PIN(port)] = in
      BY <1>1, <2>1, <2>2
    <3>2. told_port'[port] = {in}
      BY <1>1, <2>1, <2>2 DEF PortNotification
    <3> QED BY <3>1, <3>2 DEF ReportedAt
  <2>3. CASE p # port
    <3>1. PIN(port) # addr /\ PIN(port) # PIN(p)
      BY <2>1, <2>3, OtherPort DEF RegsOf
    <3> QED BY <1>1, <2>1, <3>1 DEF ReportedAt
  <2> QED BY <2>2, <2>3
<1> QED BY <1>2, <1>3, <1>4 DEF writeMem

LEMMA DirectReported ==
    ASSUME PortInv, NEW port \in Ports, NEW addr \in Addrs, NEW data,
           main_mem' = [main_mem EXCEPT ![addr] = data],
           bypassed' = bypassed \cup {addr}
    PROVE  ReportedAt(port)
<1>1. PIN(port) \in Addrs /\ main_mem \in [Addrs -> Byte]
  BY RegisterShape DEF PortInv, TypeOK
<1> QED BY <1>1 DEF ReportedAt

LEMMA DriveReported ==
    ASSUME PortInv, NEW port \in Ports, port_listener[port] # NULL,
           NEW perph \in Peripherals, NEW reply, WriteRequest(perph, reply)
    PROVE  \/ ReportedAt(port)
           \/ \E pin \in PinsOf(port), state \in PinStates :
                 writepnHandler(port_listener[port], pin, state, "ACK")
<1>1. /\ main_mem \in [Addrs -> Byte] /\ told_port \in [Ports -> Last(Byte)]
      /\ PIN(port) \in Addrs
  BY RegisterShape DEF PortInv, TypeOK
<1>2. \A p \in Ports : p # port => PIN(p) # PIN(port)
  BY OtherPort DEF RegsOf
<1>3. UNCHANGED main_mem => ReportedAt(port)
  BY DEF ReportedAt
<1>4. ASSUME NEW addr \in Addrs, NEW data \in Byte, writemHandler(perph, addr, data, reply)
      PROVE  ReportedAt(port)
  BY <1>3, <1>4, DirectReported DEF writemHandler, memory
<1>5. ASSUME NEW p \in Ports \cup {NoPort}, NEW data \in Byte,
             writepHandler(perph, p, data, reply)
      PROVE  ReportedAt(port)
  <2>1. CASE UNCHANGED main_mem
    BY <1>3, <2>1
  <2>2. CASE /\ p \in Ports
             /\ \E bits : main_mem' = [main_mem EXCEPT ![PIN(p)] = bits]
             /\ PortNotification(p, main_mem'[PIN(p)])
    BY <1>1, <1>2, <2>2 DEF PortNotification, ReportedAt
  <2> QED BY <1>5, <2>1, <2>2 DEF writepHandler, FollowsWildPin, writePins, memory
<1>6. ASSUME NEW pin \in Pins \cup LowPins \cup {NoPin}, NEW state \in PinStates \cup {BadState},
             writepnHandler(perph, pin, state, reply)
      PROVE  \/ ReportedAt(port)
             \/ \E q \in PinsOf(port), s \in PinStates :
                   writepnHandler(port_listener[port], q, s, "ACK")
  <2>1. CASE UNCHANGED main_mem
    BY <1>3, <2>1
  <2>2. CASE /\ reply = "ACK" /\ pin \in Pins /\ MayWritePin(perph, pin) /\ state \in PinStates
             /\ \E bits : main_mem' = [main_mem EXCEPT ![PIN(portOf[pin])] = bits]
    <3>1. CASE portOf[pin] # port
      <4>1. PIN(portOf[pin]) # PIN(port)
        BY <1>2, <2>2, <3>1, DeviceAssumption
      <4> QED BY <1>1, <2>2, <4>1 DEF ReportedAt
    <3>2. CASE portOf[pin] = port
      <4>1. pin \in PinsOf(port) /\ perph # NULL
        BY <2>2, <3>2, DeviceAssumption DEF PinsOf
      <4>2. pin_listener[pin] # perph
        BY <2>2, <3>2, <4>1 DEF PortInv, TablesInv, PortPinExclusive
      <4>3. perph = port_listener[port]
        BY <2>2, <3>2, <4>2 DEF MayWritePin
      <4> QED BY <1>6, <2>2, <4>1, <4>3
    <3> QED BY <3>1, <3>2
  <2> QED BY <1>6, <2>1, <2>2 DEF writepnHandler, FollowsWildPin, writePins, memory
<1> QED BY <1>4, <1>5, <1>6 DEF WriteRequest

(***************************************************************************)
(* PINx of a port with a listener never changes silently: a store tells    *)
(* the listener, and a request that drives a pin of the port is the        *)
(* listener's own, because nobody listens to a pin of a taken port.        *)
(***************************************************************************)
THEOREM PinChangesReported == Spec => PinChangeReported
<1> DEFINE Reported(port) ==
        \/ port_listener[port] = NULL
        \/ main_mem'[PIN(port)] = main_mem[PIN(port)]
        \/ told_port'[port] = {main_mem'[PIN(port)]}
        \/ PIN(port) \in bypassed'
        \/ \E pin \in PinsOf(port), state \in PinStates :
              writepnHandler(port_listener[port], pin, state, "ACK")
<1>1. PortInv /\ [Next]_vars => \A port \in Ports : Reported(port)
  <2> SUFFICES ASSUME PortInv, [Next]_vars, NEW port \in Ports, port_listener[port] # NULL
               PROVE  \/ ReportedAt(port)
                      \/ \E pin \in PinsOf(port), state \in PinStates :
                            writepnHandler(port_listener[port], pin, state, "ACK")
    BY DEF ReportedAt
  <2>1. UNCHANGED main_mem => ReportedAt(port)
    BY DEF ReportedAt
  <2>2. ASSUME NEW perph \in Peripherals, NEW reply \in Replies, Request(perph, reply)
        PROVE  \/ UNCHANGED main_mem
               \/ WriteRequest(perph, reply)
    BY <2>2 DEF Request, setpnHandlerLow, FollowsWildPin, memory
  <2>3. CASE Start \/ UNCHANGED vars
    BY <2>1, <2>3 DEF Start, vars, portVars, memory
  <2>4. CASE Instruction
    BY <2>4, StoreReported, DirectReported
       DEF Instruction, Store, PUSH, SBI, CBI, DirectStore
  <2> QED BY <2>1, <2>2, <2>3, <2>4, DriveReported DEF Next
<1>2. PortInv /\ [Next]_vars => [\A port \in Ports : Reported(port)]_vars
  BY <1>1
<1> QED BY <1>2, PortCorrect, PTL DEF Spec, PinChangeReported

(***************************************************************************)
(* The ports and the program on top of them change the tables only by the  *)
(* set and claim handlers, so single ownership is implemented here too.    *)
(***************************************************************************)
THEOREM PortsUseTables == Spec => ListenersSpec
<1>1. Init => ListenersInit
  BY DEF Init
<1> QED BY <1>1, StepOfTables, PTL DEF Spec, ListenersSpec

(***************************************************************************)
(* Refinement of Ownership, inherited from the tables.                     *)
(***************************************************************************)
THEOREM PortsImplementOwnership == Spec => ImplementsOwnership
  BY PortsUseTables, TablesImplementOwnership, PTL
==============================================================================
