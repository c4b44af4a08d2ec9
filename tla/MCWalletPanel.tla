---------------------------- MODULE MCWalletPanel ----------------------------
(* Instances of WalletPanel for TLC. *)
EXTENDS WalletPanel, TLC

CONSTANTS a1, a2, t1, t2

(* Two accounts and fees that change. *)
Sending ==
  [mainnet |-> TRUE, accounts |-> {a1, a2}, tokens |-> {"usdc"}, money |-> 2,
   fees |-> {0, 1}, screens |-> {"Wallet", "Send"}, slots |-> {t1}]

(* Every token, two transfers in flight. *)
Twice ==
  [mainnet |-> TRUE, accounts |-> {a1}, tokens |-> {"native", "usdc", "wrapped"}, money |-> 1,
   fees |-> {0}, screens |-> {"Wallet", "Send"}, slots |-> {t1, t2}]

(* Every screen. *)
Visiting ==
  [mainnet |-> FALSE, accounts |-> {a1}, tokens |-> {"usdc"}, money |-> 1,
   fees |-> {0}, screens |-> AllScreens, slots |-> {t1}]

AllWorlds == {Sending, Twice, Visiting}

(* The worlds differ in how many accounts and slots they use, not in which. *)
Symmetry == Permutations(Slots) \cup Permutations(Accounts)
=============================================================================
