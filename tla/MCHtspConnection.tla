-------------------------- MODULE MCHtspConnection --------------------------
(***************************************************************************)
(* HtspConnection on a small instance. The callers are interchangeable.    *)
(***************************************************************************)
EXTENDS HtspConnection, TLC

CallerSymmetry == Permutations(Clients)
=============================================================================
