------------------------------ MODULE MCSessions ------------------------------
(***************************************************************************)
(* Small sets of requests for the conversations: one address, one port     *)
(* with one pin.                                                           *)
(***************************************************************************)
EXTENDS Sessions, TLC

CONSTANTS addr, port, pin

MCPortOf == pin :> port

AllRequests == Protocol \ {<<"UNSYNC">>, <<"CLK">>}
=============================================================================
