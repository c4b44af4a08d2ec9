--------------------------- MODULE MCSessionClient ---------------------------
(* Instances of SessionClient for TLC. *)
EXTENDS SessionClient, TLC

CONSTANTS x1, x2, s1, s2

(* Two contexts over one connection, and a paymaster with two sponsors. *)
Paying ==
  [ops |-> {"establish", "transfer"}, contexts |-> {x1, x2}, programs |-> {},
   sponsors |-> {s1, s2}, sponsor |-> None, old |-> {}, time |-> 0, fee |-> 0]

(* One context, and transactions sent over the connection without it. *)
Sending ==
  [Paying EXCEPT !.ops = {"transfer", "direct"}, !.contexts = {x1}]

(* One context over a connection with a sponsor of its own. *)
OwnSponsor ==
  [Paying EXCEPT !.contexts = {x1}, !.sponsors = {s1}, !.sponsor = s2]

(* Sessions from before, used, revoked and logged in with as time passes. *)
LoggingIn ==
  [ops |-> {"reestablish", "revoke", "send", "prebuilt", "login"}, contexts |-> {x1},
   programs |-> Programs, sponsors |-> {s1}, sponsor |-> None, old |-> {1, 4},
   time |-> 1, fee |-> 1]

AllApps == {Paying, Sending, OwnSponsor, LoggingIn}

(* The applications differ in how many contexts and sponsors they have, not *)
(* in which.                                                                *)
Symmetry == Permutations(Contexts) \cup Permutations(Calls) \cup Permutations(Keys)
            \cup Permutations(Sponsors)
==============================================================================
