------------------------------ MODULE MCEditors ------------------------------
(* Editors for TLC: the constants are given in the configuration.           *)
EXTENDS Editors
=============================================================================
