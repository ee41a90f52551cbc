------------------------------ MODULE MCDining ------------------------------
(***************************************************************************)
(* Instances of Dining for TLC.  The constants come from the cfg files:    *)
(* the program's own table of five, and smaller even and odd tables.       *)
(***************************************************************************)
EXTENDS DiningInv
=============================================================================
