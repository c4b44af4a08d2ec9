-------------------------- MODULE MCDomainRegistry --------------------------
(***************************************************************************)
(* An instance of DomainRegistry for TLC: two domains, three programs, and *)
(* wallets too small to list every program everywhere.                     *)
(***************************************************************************)
EXTENDS DomainRegistry
=============================================================================
