-------------------------- MODULE MCEngineRegistry --------------------------
(* A small instance of EngineRegistry: two names for engines, "device", and *)
(* "device" with a blank before it.                                         *)
EXTENDS EngineRegistry

CONSTANTS piper, coqui, device, spaced, c1, c2

MCNames == {piper, coqui, device, spaced}
MCTrim == [n \in MCNames |-> IF n = spaced THEN device ELSE n]
=============================================================================
