----------------------------- MODULE MCRequests -----------------------------
(***************************************************************************)
(* A small instance of module Requests for TLC.                            *)
(***************************************************************************)
EXTENDS Requests, TLC

(* One clock that is right, one that is behind, and one so far ahead that  *)
(* a nonce is dropped before its timestamp is too old.                     *)
MCDrifts == {-2, 0, 2}

InstallSymmetry == Permutations(Installs)

=============================================================================
