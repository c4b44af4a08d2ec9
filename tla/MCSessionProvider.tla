-------------------------- MODULE MCSessionProvider --------------------------
(* Instances of SessionProvider for TLC. *)
EXTENDS SessionProvider, TLC

CONSTANTS a1, a2, k1, k2

(* One wallet with two accounts, everything that can happen around it. *)
Switching ==
  [hasTokens |-> TRUE, enableUnlimited |-> FALSE, asyncInit |-> FALSE,
   accounts |-> {a1, a2}, keys |-> {k1}, listeners |-> 2,
   events |-> {"disconnect", "switch", "expire", "registry", "reload"}]

(* Sessions that expire and are renewed; the app delays the login. *)
Renewing ==
  [hasTokens |-> TRUE, enableUnlimited |-> FALSE, asyncInit |-> TRUE,
   accounts |-> {a1}, keys |-> {k1, k2}, listeners |-> 1,
   events |-> {"disconnect", "expire"}]

(* An app without tokens, which logs in without a form. *)
Tokenless ==
  [hasTokens |-> FALSE, enableUnlimited |-> FALSE, asyncInit |-> FALSE,
   accounts |-> {a1}, keys |-> {k1}, listeners |-> 1,
   events |-> {"disconnect", "reload", "registry"}]

AllPages == {Switching, Renewing, Tokenless}
OnlySwitching == {Switching}
OnlyTokenless == {Tokenless}

(* The pages differ in how many accounts and keys they use, not in which:   *)
(* the next-state relation and the properties treat them alike.             *)
Symmetry == Permutations(Tasks) \cup Permutations(Keys) \cup Permutations(Accounts)
==============================================================================
