-------------------------------- MODULE Grant --------------------------------
(***************************************************************************)
(* What starting a session promises the wallet that signs the message.     *)
(* Each signed message is a grant: a budget per mint that can be spent     *)
(* once however often the message is submitted, only on the chain it       *)
(* names, only up to its expiration, only through programs that its domain *)
(* has listed, and never again after the session was revoked.              *)
(*                                                                         *)
(* The abstraction knows nothing of session accounts, delegations, rent or *)
(* versions; SessionManager is shown to implement it.                      *)
(***************************************************************************)
EXTENDS SignedIntent

CONSTANT ChainId        \* the chain the programs run on

VARIABLES
    clock,      \* Unix time
    used,       \* used[i][m]: amount of mint m spent under grant i
    ended,      \* grants that cannot be spent any more
    listed      \* listed[d]: programs domain d has ever listed

gvars == << clock, used, ended, listed >>

Expired(t) == {i \in Intents : i.expires < t}

GInit == /\ clock = 0
         /\ used = [i \in Intents |-> [m \in Mints |-> 0]]
         /\ ended = Expired(0)
         /\ listed = [d \in Domains |-> {}]

GSpend(i, m, a, p) ==
    /\ i \notin ended
    /\ i.chain = ChainId
    /\ p \in listed[i.domain]
    /\ WithinAllowance(i, m, used[i][m] + a)
    /\ used' = [used EXCEPT ![i][m] = @ + a]
    /\ UNCHANGED << clock, ended, listed >>

GRevoke(i) == /\ ended' = ended \union {i}
              /\ UNCHANGED << clock, used, listed >>

GTick == /\ clock' = clock + 1
         /\ ended' = ended \union Expired(clock + 1)
         /\ UNCHANGED << used, listed >>

GList(d, p) == /\ listed' = [listed EXCEPT ![d] = @ \union {p}]
               /\ UNCHANGED << clock, used, ended >>

GNext == \/ \E i \in Intents, m \in Mints, p \in Programs, a \in 1 .. U64Max :
               GSpend(i, m, a, p)
         \/ \E i \in Intents : GRevoke(i)
         \/ GTick
         \/ \E d \in Domains, p \in Programs : GList(d, p)

GSpec == GInit /\ [][GNext]_gvars
=============================================================================
