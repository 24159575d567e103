---------------------------- MODULE MCListScreens ----------------------------
(* ListScreens for TLC: the constants are given in the configuration.       *)
EXTENDS ListScreens
=============================================================================
