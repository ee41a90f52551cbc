----------------------------- MODULE MCSecrets -----------------------------
(***************************************************************************)
(* Instances of Secrets for TLC: three descriptors, the least that lets a  *)
(* stale writer, a counted reader and an uncounted one meet; a buffer of   *)
(* three bytes, so that a secret can be shorter than the buffer and be     *)
(* read in two parts.                                                      *)
(***************************************************************************)
EXTENDS Secrets, TLC

\* Nothing tells one descriptor from another.
Descriptors == Permutations(FD)
=============================================================================
