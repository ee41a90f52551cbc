------------------------------- MODULE MCLwp -------------------------------
(***************************************************************************)
(* Instances of Lwp for TLC.                                               *)
(***************************************************************************)
EXTENDS Lwp, TLC

\* Addresses, and schedulers of one kind, are interchangeable.
Symmetry == Permutations(Addr) \cup Permutations(Links)
=============================================================================
