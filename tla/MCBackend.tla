----------------------------- MODULE MCBackend -----------------------------
(***************************************************************************)
(* The whole backend for TLC: one player, one purchase and one bonus at a  *)
(* time, one synchronisation and one refresh, with the prices and rates of *)
(* MCEconomy.                                                              *)
(***************************************************************************)
EXTENDS Backend, MCEconomy

=============================================================================
