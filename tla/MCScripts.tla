------------------------------ MODULE MCScripts ------------------------------
(***************************************************************************)
(* One peripheral for each script, on a device with the pins and ports     *)
(* that pin.py uses.                                                       *)
(***************************************************************************)
EXTENDS Scripts, TLC

CONSTANTS portA, portD

MCPortOf == (pin4 :> portA) @@ (pin27 :> portD)

MCRequests == {<<"CLAIMPN", pin4>>, <<"CLAIMPN", pin27>>, <<"CLAIMP", portB>>, <<"CLAIMP", portE>>,
               <<"WRITEPN", pin4>>, <<"WRITEPN", pin27>>, <<"WRITEP", portB>>, <<"WRITEP", portE>>,
               <<"SETM", ear_addr>>, <<"PRINT">>}

AllScripts == <<"pin.py", "ear.py", "helloWorld.py">>
=============================================================================
