----------------------------- MODULE MCShipGate -----------------------------
(***************************************************************************)
(* Small instances of ShipGate for TLC.                                    *)
(***************************************************************************)
EXTENDS ShipGate, TLC

CONSTANTS g1, g2
=============================================================================
