------------------------------ MODULE MCPrimePool ------------------------------
(***************************************************************************)
(* Every file of a few bytes, with lines that hold a prime, an odd square, *)
(* or one.                                                                 *)
(***************************************************************************)
EXTENDS PrimePool
=============================================================================
