------------------------------ MODULE MCAccessor ------------------------------
(* Instances of the client accessor for TLC: the callbacks of an application    *)
(* with one or two threads.                                                     *)
EXTENDS ClientAccessor

CONSTANTS a1, a2, h1, h2

===============================================================================
