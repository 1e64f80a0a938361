--------------------------------- MODULE MCAlu ---------------------------------
(***************************************************************************)
(* Registers of eight bits: every program on words of 16 bits whose bytes  *)
(* are the values at the boundaries and one inside.                        *)
(***************************************************************************)
EXTENDS Alu

AllPrograms == Programs
=============================================================================
