--------------------------- MODULE MCSignedMessage ---------------------------
(* The instance of SignedMessage for TLC: balances around every place where *)
(* the number of digits reaches the decimals, and a limit above the largest *)
(* number; one submission of each form is signed, and a session limit that  *)
(* is too large.                                                            *)
EXTENDS SignedMessage

MCBalances == {-5, 0, 5, 50, 100, 105, 1050, 1105}

Filled(f, t) == [form |-> f, decimals |-> 1, max |-> 50, text |-> t]

MCFollowed ==
  {Filled("send", <<"1", ".", "5">>), Filled("limits", <<"1", ".", "5">>),
   Filled("limits", <<"1", "5", "5">>)}
=============================================================================
