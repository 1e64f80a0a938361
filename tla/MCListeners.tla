----------------------------- MODULE MCListeners -----------------------------
(***************************************************************************)
(* Two peripherals compete for an address, a port with two pins and a port *)
(* with one: every race between a port and its pins, and two ports so that *)
(* a grant on one must not show on the other.                              *)
(***************************************************************************)
EXTENDS Listeners, TLC

CONSTANTS PortA, PortB, PinA1, PinA2, PinB1

MCPortOf == (PinA1 :> PortA) @@ (PinA2 :> PortA) @@ (PinB1 :> PortB)
=============================================================================
