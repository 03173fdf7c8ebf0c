--------------------------------- MODULE MCRpc ---------------------------------
(***************************************************************************)
(* A small instance of Rpc for TLC: calls with and without return value    *)
(* from the main to the background side, calls with return value and       *)
(* synchronous calls back.  The endpoints are model values, which differ   *)
(* from the numbers that name answers.                                     *)
(***************************************************************************)
EXTENDS Rpc

CONSTANTS start, publishEvent, callLepusMethod, sync

AllServed ==
  [s \in Sides |-> IF s = Main THEN {callLepusMethod, sync} ELSE {start, publishEvent}]
=============================================================================
