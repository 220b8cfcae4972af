-------------------------- MODULE MC_AoDelegation ---------------------------
(* Two directives for the issue and one failing commit of its pull request. *)
EXTENDS AoDelegation

CONSTANTS d1, d2, r1
=============================================================================
