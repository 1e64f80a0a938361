------------------------------- MODULE MCRunLoop -------------------------------
(***************************************************************************)
(* A program of two instructions: one of one cycle, and a branch of one or *)
(* two.                                                                    *)
(***************************************************************************)
EXTENDS RunLoop, TLC

MCCycles == (0 :> {1}) @@ (1 :> {1, 2})
=============================================================================
