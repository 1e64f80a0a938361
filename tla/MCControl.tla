------------------------------- MODULE MCControl -------------------------------
(***************************************************************************)
(* Control with bytes of three values, a program of five words, a RET that *)
(* keeps four of them, and a stack deep enough for two return addresses    *)
(* and what is pushed between them.                                        *)
(***************************************************************************)
EXTENDS Control

AnyOffsets == {-3, -1, 1}
=============================================================================
