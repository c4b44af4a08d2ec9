--------------------------- MODULE MCIntentTransfer ---------------------------
(***************************************************************************)
(* An instance of IntentTransfer for TLC.  Wallet u signs, v receives, and *)
(* both may sponsor, so that the recipient's, the sponsor's and the        *)
(* source's accounts coincide in every way.  The mint w wraps FOGO; both   *)
(* have one decimal, and u has a second account for w.                     *)
(***************************************************************************)
EXTENDS IntentTransfer, Sequences, TLC

CONSTANTS u, v, w, here, elsewhere, tokW

MCAccounts == (Wallets \X Mints) \union {<< u, w, "second" >>}
MCOwnerOf == [a \in Accounts |-> a[1]]
MCMintOf == [a \in Accounts |-> a[2]]
MCAtaOf == [x \in Wallets |-> [m \in Mints |-> << x, m >>]]
MCDenotes == (tokW :> {w}) @@ (FogoSymbol :> {w})
MCDecimals == [m \in Mints |-> 1]
MCDustUnit == [m \in Mints |-> IF m = w THEN 2 ELSE 1]
MCInitialBalance ==
    [a \in Accounts |-> IF a[1] = u THEN (IF Len(a) = 2 THEN 4 ELSE 2) ELSE 0]

Ui(mantissa, scale) == [mantissa |-> mantissa, scale |-> scale]

Transfer(t, amount, recipient, n) ==
    [kind |-> "transfer", user |-> u, chain |-> here, to |-> here,
     token |-> t, amount |-> amount, recipient |-> recipient,
     feeToken |-> tokW, feeAmount |-> Ui(1, 1), nonce |-> n]

Bridge(to, amount, n) ==
    [Transfer(tokW, amount, v, n) EXCEPT !.kind = "bridge", !.to = to]

(* A transfer that both send_tokens and send_native accept, two with the   *)
(* same nonce (one to the sender), one for another chain; bridges with and *)
(* without dust, and one to a chain without a relay.                       *)
MCIntents ==
    { Transfer(FogoSymbol, Ui(2, 1), v, 2),
      Transfer(FogoSymbol, Ui(1, 1), u, 3),
      Transfer(tokW, Ui(2, 1), v, 1),
      Transfer(tokW, Ui(3, 1), u, 1),
      [Transfer(tokW, Ui(1, 1), v, 2) EXCEPT !.chain = elsewhere],
      Bridge(Solana, Ui(2, 1), 1),
      Bridge(Solana, Ui(3, 1), 1),
      Bridge(here, Ui(2, 1), 2),
      [Bridge(Solana, Ui(2, 1), 2) EXCEPT !.recipient = Malformed] }
=============================================================================
