-------------------------- MODULE MCAppActivation --------------------------
(***************************************************************************)
(* Two apps with one package each, two views above each other.             *)
(***************************************************************************)
EXTENDS AppActivation
=============================================================================
