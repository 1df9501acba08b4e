----------------------------- MODULE MCChannel -----------------------------
(***************************************************************************)
(* Channel with two ciphers, of which the ends share one or more.          *)
(***************************************************************************)
EXTENDS Channel, TLC

CONSTANTS RC2_40, RC2_128

MCKnown == [e \in Ends |-> IF e = "out" THEN {RC2_40, RC2_128} ELSE {RC2_128}]
=============================================================================
