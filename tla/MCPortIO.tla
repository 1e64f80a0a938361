------------------------------- MODULE MCPortIO -------------------------------
(***************************************************************************)
(* One port with bits 0 and 1 at a time, at the addresses devices.c gives  *)
(* it: port A, below sram_start, whose bit 0 has no pin, and port J, above *)
(* sram_start with both bits mapped.                                       *)
(***************************************************************************)
EXTENDS PortIO, FiniteSets, TLC

CONSTANTS PortA, PortJ, Pin1, Pin64, Pin65

MCPortOf == (Pin1 :> PortA) @@ (Pin64 :> PortJ) @@ (Pin65 :> PortJ)
MCPinBit == (Pin1 :> 1) @@ (Pin64 :> 0) @@ (Pin65 :> 1)
MCBase   == (PortA :> 32) @@ (PortJ :> 259)

Only(f, S) == [x \in S |-> f[x]]
PortOfHere == Only(MCPortOf, Pins)
PinBitHere == Only(MCPinBit, Pins)
BaseHere   == Only(MCBase, Ports)

(***************************************************************************)
(* State constraints: where to stop exploring.  Which addresses are        *)
(* listened to, which port is listened to and what an address that is not  *)
(* a register holds multiply the states without acting on each other, so   *)
(* each run varies one at a time.                                          *)
(***************************************************************************)
Listened == {addr \in Addrs : mem_listeners[addr] # NULL}
Plain    == Addrs \ (Registers \cup Special)

NoBypass == Listened = {} /\ bypassed = {}
Separate ==
    IF Listened = {}
    THEN \A addr \in Plain : main_mem[addr] = {}
    ELSE Cardinality(Listened) = 1 /\ \A port \in Ports : ~PortTaken(port)

Symmetric == Permutations(Peripherals)
=============================================================================
