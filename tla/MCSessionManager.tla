--------------------------- MODULE MCSessionManager ---------------------------
(***************************************************************************)
(* SessionManager for TLC: one run explores several small worlds, each     *)
(* with its own messages, token accounts and bounds.  The world is chosen  *)
(* at the start and never changes.                                         *)
(***************************************************************************)
EXTENDS SessionManager, TLC

CONSTANTS dapp, u1, u2, k1, k2, m1, m2, d1, p1, s1, s2, here, elsewhere, tokM1, symbol

(* tokM1 is the address of m1, symbol a symbol both mints carry in their   *)
(* metadata.  Both have one decimal, so 0.2 of either is 2 units, and 1 of *)
(* either does not fit.                                                    *)
MCDenotes == (tokM1 :> {m1}) @@ (symbol :> {m1, m2})
MCDecimals == [m \in Mints |-> 1]

(* A limit of n units *)
Limit(t, n) == [token |-> t, ui |-> [mantissa |-> n, scale |-> 1]]

Signed(u, k, minor, expires, limits) ==
    [user |-> u, key |-> k, chain |-> here, domain |-> d1, minor |-> minor,
     expires |-> expires, unlimited |-> FALSE, limits |-> limits]

Unlimited(u, k, minor, expires) ==
    [Signed(u, k, minor, expires, << >>) EXCEPT !.unlimited = TRUE]

(* One key and one wallet: a message with a duplicate and an ambiguous     *)
(* entry, a later one for the same key, and one for another chain.         *)
ReplayIntents ==
    { Signed(u1, k1, 3, 0, << Limit(symbol, 1), Limit(tokM1, 2) >>),
      Signed(u1, k1, 4, 1, << Limit(symbol, 2) >>),
      [Signed(u1, k1, 4, 1, << Limit(tokM1, 1) >>) EXCEPT !.chain = elsewhere] }

(* Two keys of one wallet and one of another wallet, over one mint. *)
OverlapIntents ==
    { Signed(u1, k1, 4, 0, << Limit(tokM1, 1) >>),
      Signed(u1, k2, 3, 1, << Limit(tokM1, 1) >>),
      Unlimited(u2, k2, 4, 1) }

(* The versions that keep no mints, with and without limits. *)
LegacyIntents ==
    { Signed(u1, k1, 1, 0, << Limit(tokM1, 1) >>),
      Signed(u1, k1, 2, 1, << Limit(tokM1, 1) >>),
      Unlimited(u1, k1, 2, 0),
      Unlimited(u1, k2, 1, 0) }

(* Rent: messages without a token account, each restartable. *)
RentIntents ==
    { Unlimited(u1, k1, 2, 0),
      Unlimited(u1, k1, 3, 1),
      Unlimited(u2, k2, 4, 1) }

-----------------------------------------------------------------------------
AllIntents == ReplayIntents \union OverlapIntents \union LegacyIntents \union RentIntents

(* payers: the sponsors each key's sessions may have; tokens: the token     *)
(* accounts that are used; others: ordinary delegates; time, donation:      *)
(* bounds.                                                                  *)
Worlds ==
    [replay |->
      [intents |-> ReplayIntents, payers |-> {<< k1, s1 >>},
       tokens |-> {u1} \X {m1, m2}, balances |-> {0, 2}, others |-> {},
       time |-> 2, donation |-> 0],
     overlap |->
      [intents |-> OverlapIntents, payers |-> {<< k1, s1 >>, << k2, s2 >>},
       tokens |-> {u1, u2} \X {m1}, balances |-> {0, 1}, others |-> {dapp},
       time |-> 2, donation |-> 0],
     legacy |->
      [intents |-> LegacyIntents, payers |-> {<< k1, s1 >>, << k2, s2 >>},
       tokens |-> {u1} \X {m1}, balances |-> {0, 1}, others |-> {},
       time |-> 2, donation |-> 0],
     rent |->
      [intents |-> RentIntents, payers |-> {k1, k2} \X {s1, s2},
       tokens |-> {}, balances |-> {0}, others |-> {},
       time |-> 2, donation |-> 3]]

VARIABLE name

world == Worlds[name]
Stay == UNCHANGED name

MCInit ==
    /\ Init
    /\ name \in DOMAIN Worlds
    /\ \A u \in Users, m \in Mints :
          ata[u][m].amount \in IF << u, m >> \in world.tokens THEN world.balances ELSE {0}

(* Next, with the inputs of the world. *)
MCNext ==
    \/ \E i \in world.intents, sp \in Sponsors :
          \E mintOf \in [DOMAIN i.limits -> Mints] :
              << i.key, sp >> \in world.payers /\ StartSession(i, sp, mintOf) /\ Stay
    \/ \E k \in Keys : RevokeSession(k) /\ Stay
    \/ \E k \in Keys : CloseSession(k) /\ Stay
    \/ \E k \in Keys, t \in world.tokens, p \in Programs, a \in 1 .. U64Max :
          SpendAsSession(k, t[1], t[2], a, p) /\ Stay
    \/ \E k \in Keys, m \in Mints, a \in 1 .. U64Max : PayToll(k, m, a) /\ Stay
    \/ \E d \in Delegates, t \in world.tokens, a \in 1 .. U64Max :
          SpendAsDelegate(d, t[1], t[2], a) /\ Stay
    \/ \E t \in world.tokens, d \in world.others : OwnerApprove(t[1], t[2], d) /\ Stay
    \/ \E t \in world.tokens : OwnerRevoke(t[1], t[2]) /\ Stay
    \/ \E t \in world.tokens, b \in world.balances : OwnerSetBalance(t[1], t[2], b) /\ Stay
    \/ \E t \in world.tokens : OwnerToggleAccount(t[1], t[2]) /\ Stay
    \/ \E d \in Domains, p \in Programs : AddProgram(d, p) /\ Stay
    \/ \E d \in Domains, p \in Programs : RemoveProgram(d, p) /\ Stay
    \/ \E k \in Keys : donated < world.donation /\ Donate(k) /\ Stay
    \/ now < world.time /\ Tick /\ Stay

MCSpec == MCInit /\ [][MCNext]_<< vars, name >>
=============================================================================
