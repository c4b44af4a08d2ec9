------------------------- MODULE SessionClientProofs -------------------------
(***************************************************************************)
(* Theorems about SessionClient, for any number of contexts, calls in      *)
(* flight, session keys, sponsors and applications.                        *)
(*                                                                         *)
(* ClientInv says what a call in flight knows of its session account: an   *)
(* account is created by one call, and one that was ended stays so until   *)
(* the login that reads it returns.  SponsorInv says that every sponsor    *)
(* captured anywhere is the cached one, unless its domain was requested by *)
(* two callers at a time; it is about connections without a sponsor of     *)
(* their own.                                                              *)
(***************************************************************************)
EXTENDS SessionClient, TLAPS

(* establishSession whose account does not exist yet. *)
Starting(r) ==
  r.op = "establish" /\ (r.st \in {"sign", "build", "post"} \/ (r.st = "answer" /\ ~r.got))

(* A session account that no backend should accept, at time tm. *)
DeadAccount(acc, tm) == acc.state # "active" \/ acc.expires < tm

(* What a call in flight knows of the session accounts ch at time tm. *)
CallOK(r, ch, tm) ==
  /\ r \in Call
  /\ r.got => r.st \in {"answer", "read"}
  /\ r.st = "sign" => r.op = "establish"
  /\ r.op = "establish" /\ r.st # "done" => r.key # None /\ r.ctx # None
  /\ r.st = "read" => r.key # None
  /\ Starting(r) => ch[r.key].state = "none"
  /\ r.key # None /\ ~Starting(r) => ch[r.key].state # "none"
  /\ r.op = "login" /\ r.st = "read" /\ r.dead =>
       DeadAccount(IF "account" \in r.wait THEN ch[r.key] ELSE r.read, tm)
  /\ r.result = "valid" => ~r.dead

CallsInv ==
  /\ calls \in [Calls -> Call]
  /\ \A c \in Calls : CallOK(calls[c], chain, now)
  /\ \A c, d \in Calls :
       Starting(calls[c]) /\ Starting(calls[d]) /\ calls[c].key = calls[d].key => c = d

(* The application holds objects and tokens of sessions that exist. *)
HoldingsInv ==
  /\ sessions \in [Keys -> Contexts \cup {None}]
  /\ tokens \subseteq Keys
  /\ \A k \in Keys : sessions[k] # None \/ k \in tokens => chain[k].state # "none"

WorldInv ==
  /\ app \in Apps
  /\ sponsorCache \in [PaymasterDomains -> Sponsors \cup {None}]
  /\ tableCache \in BOOLEAN
  /\ fetches \subseteq Fetch
  /\ raced \subseteq PaymasterDomains
  /\ contexts \in [Contexts -> Context]
  /\ chain \in [Keys -> SessionAccount]
  /\ registry \subseteq Programs
  /\ live \subseteq Sponsors
  /\ fee \in 0 .. MaxFee
  /\ now \in 0 .. MaxTime

RequestsTyped == fetches \subseteq Fetch /\ raced \subseteq PaymasterDomains

ClientInv == CallsInv /\ HoldingsInv /\ WorldInv

(* A sponsor captured for a domain is the cached one, unless the domain was *)
(* requested twice at once.                                                 *)
Agreed(d, s, cache, race) == s \in {None, cache[d]} \/ d \in race

(* The sponsors that a context has captured. *)
ContextOK(y, cache, race) ==
  /\ Agreed("app", y.payer, cache, race) /\ Agreed("sessions", y.internal, cache, race)
  /\ y.payer # None => cache["app"] # None
  /\ y.internal # None => cache["sessions"] # None
  /\ y.st \in {"chainId", "ready"} => y.payer # None /\ y.internal # None

(* The fee payer and the sponsor account of a call. *)
PayersOK(r, cache, race) ==
  /\ Agreed(DomainOf(r.op), r.payer, cache, race)
  /\ Agreed(DomainOf(r.op), r.sponsor, cache, race)
  /\ r.st = "build" /\ "sponsor" \notin r.wait => r.payer # None
  /\ r.st \in {"post", "answer"} /\ r.sponsor # None => r.payer # None

(* Elsewhere a sponsor is requested once, while the cache has none. *)
FetchesInv ==
  /\ \A f \in fetches : f.domain \in raced \/ sponsorCache[f.domain] = None
  /\ \A f, g \in fetches : f.domain = g.domain => f.domain \in raced \/ f = g
  /\ \A f \in fetches : f.who \in Calls /\ "sponsor" \in calls[f.who].wait =>
       f.domain = DomainOf(calls[f.who].op)

SponsorInv ==
  /\ FetchesInv
  /\ \A x \in Contexts : ContextOK(contexts[x], sponsorCache, raced)
  /\ \A c \in Calls : /\ PayersOK(calls[c], sponsorCache, raced)
                      /\ calls[c].ctx # None => contexts[calls[c].ctx].st = "ready"
  /\ \A k \in Keys : sessions[k] # None => contexts[sessions[k]].st = "ready"

-----------------------------------------------------------------------------
(* Records of calls: one that has settled, one that begins, and one whose  *)
(* transaction starts to be built.                                         *)
Results == {"none", "success", "failed", "threw", "undefined", "valid"}

Settled(r, result) ==
  [Idle EXCEPT !.op = r.op, !.st = "done", !.dead = r.dead, !.result = result]

LEMMA IdleType == Idle \in Call
<1>1. NoAccount.state = "none"
  BY DEF NoAccount
<1>2. NoAccount \in SessionAccount /\ 0 \in 0 .. MaxFee
  BY ClientAssumption DEF NoAccount, SessionAccount
<1> QED
  BY <1>2 DEF Idle, Call

LEMMA SettledType ==
  ASSUME NEW r \in Call, NEW result \in Results
  PROVE  LET s == Settled(r, result)
         IN /\ s \in Call
            /\ s.op = r.op /\ s.st = "done" /\ s.dead = r.dead /\ s.result = result
            /\ s.ctx = None /\ s.key = None /\ s.payer = None /\ s.sponsor = None
            /\ s.wait = {} /\ ~s.got
<1> DEFINE o == r.op
           s0 == [Idle EXCEPT !.op = o]
           s1 == [s0 EXCEPT !.st = "done"]
           s2 == [s1 EXCEPT !.dead = r.dead]
           s == Settled(r, result)
<1>1. r.op \in AllOps \cup {"idle"} /\ r.dead \in BOOLEAN
  BY DEF Call
<1>2. s1 \in Call
  <2>1. o \in AllOps \cup {"idle"}
    BY <1>1
  <2> HIDE DEF o
  <2>2. s0 \in Call
    BY <2>1, IdleType DEF Call
  <2> HIDE DEF s0
  <2> QED
    BY <2>2 DEF Call
<1>3. s = [s2 EXCEPT !.result = result]
  BY DEF Settled
<1>4. /\ s.op = r.op /\ s.st = "done" /\ s.dead = r.dead /\ s.result = result
      /\ s.ctx = None /\ s.key = None /\ s.payer = None /\ s.sponsor = None
      /\ s.wait = {} /\ ~s.got
  BY DEF Settled, Idle
<1> HIDE DEF s1
<1>5. s2 \in Call
  BY <1>1, <1>2 DEF Call
<1> HIDE DEF s2
<1>6. s \in Call
  BY <1>3, <1>5 DEF Call, Results
<1> QED
  BY <1>4, <1>6

(* A call that returned undefined at once. *)
LEMMA ReturnedType ==
  ASSUME NEW op \in AllOps
  PROVE  LET s == [Idle EXCEPT !.op = op, !.st = "done", !.result = "undefined"]
         IN /\ s \in Call
            /\ s.op = op /\ s.st = "done" /\ s.result = "undefined"
            /\ s.ctx = None /\ s.key = None /\ s.payer = None /\ s.sponsor = None
            /\ s.wait = {} /\ ~s.got
<1> DEFINE s1 == [Idle EXCEPT !.op = op]
           s2 == [s1 EXCEPT !.st = "done"]
           s == [Idle EXCEPT !.op = op, !.st = "done", !.result = "undefined"]
<1>1. s1 \in Call
  BY IdleType DEF Call
<1>2. s = [s2 EXCEPT !.result = "undefined"]
  OBVIOUS
<1>3. /\ s.op = op /\ s.st = "done" /\ s.result = "undefined"
      /\ s.ctx = None /\ s.key = None /\ s.payer = None /\ s.sponsor = None
      /\ s.wait = {} /\ ~s.got
  BY DEF Idle
<1> HIDE DEF s1
<1>4. s2 \in Call
  BY <1>1 DEF Call
<1> HIDE DEF s2
<1>5. s \in Call
  BY <1>2, <1>4 DEF Call
<1> QED
  BY <1>3, <1>5

MaybeContexts == Contexts \cup {None}
MaybeKeys == Keys \cup {None}

Began(b, op, x, k) ==
  /\ b \in Call
  /\ b.op = op /\ b.ctx = x /\ b.key = k /\ b.st = "idle"
  /\ b.payer = None /\ b.sponsor = None /\ b.wait = {}
  /\ ~b.dead /\ ~b.got /\ b.result = "none"

LEMMA BeginType ==
  ASSUME NEW c, NEW op \in AllOps, NEW x \in MaybeContexts, NEW k \in MaybeKeys
  PROVE  Began(Begin(c, op, x, k), op, x, k)
<1> DEFINE b1 == [Idle EXCEPT !.op = op, !.ctx = x]
           b == Begin(c, op, x, k)
<1>1. b1 \in Call
  BY IdleType DEF Call, MaybeContexts
<1>2. b = [b1 EXCEPT !.key = k]
  BY DEF Begin
<1>3. /\ b.op = op /\ b.ctx = x /\ b.key = k /\ b.st = "idle"
      /\ b.payer = None /\ b.sponsor = None /\ b.wait = {}
      /\ ~b.dead /\ ~b.got /\ b.result = "none"
  BY DEF Begin, Idle
<1> HIDE DEF b1
<1>4. b \in Call
  BY <1>1, <1>2 DEF Call, MaybeKeys
<1> QED
  BY <1>3, <1>4 DEF Began

(* What buildTransaction waits for. *)
Waits(r) ==
  (IF FeePayer(r.op) = None THEN {"sponsor"} ELSE {})
    \cup (IF tableCache THEN {} ELSE {"table"})
    \cup (IF r.asks THEN {"fee"} ELSE {})

Built(r) == [r EXCEPT !.st = "build", !.payer = FeePayer(r.op), !.wait = Waits(r)]

LEMMA BuiltType ==
  ASSUME WorldInv, NEW r \in Call
  PROVE  LET b == Built(r)
         IN /\ b \in Call
            /\ b.op = r.op /\ b.st = "build" /\ b.ctx = r.ctx /\ b.key = r.key
            /\ b.payer = FeePayer(r.op) /\ b.sponsor = r.sponsor
            /\ b.wait = Waits(r) /\ b.dead = r.dead /\ b.got = r.got
            /\ b.result = r.result
<1> DEFINE p == FeePayer(r.op)
           W == Waits(r)
           b1 == [r EXCEPT !.st = "build", !.payer = p]
           b == Built(r)
<1>1. p \in Sponsors \cup {None}
  BY AppsAssumption
  DEF WorldInv, App, FeePayer, getSponsor, DomainOf, PaymasterDomains
<1>2. W \in SUBSET {"sponsor", "table", "fee", "account", "registry"}
  BY DEF Waits
<1>3. b = [b1 EXCEPT !.wait = W]
  BY DEF Built
<1> HIDE DEF p, W
<1>4. b1 \in Call
  BY <1>1 DEF Call
<1>5. /\ b1.op = r.op /\ b1.st = "build" /\ b1.ctx = r.ctx /\ b1.key = r.key
      /\ b1.payer = p /\ b1.sponsor = r.sponsor
      /\ b1.dead = r.dead /\ b1.got = r.got /\ b1.result = r.result
  BY DEF Call
<1> HIDE DEF b1
<1>6. b \in Call
  BY <1>2, <1>3, <1>4 DEF Call
<1>7. /\ b.op = b1.op /\ b.st = b1.st /\ b.ctx = b1.ctx /\ b.key = b1.key
      /\ b.payer = b1.payer /\ b.sponsor = b1.sponsor /\ b.wait = W
      /\ b.dead = b1.dead /\ b.got = b1.got /\ b.result = b1.result
  BY <1>3, <1>4 DEF Call
<1> QED
  BY <1>1, <1>5, <1>6, <1>7 DEF p, W

-----------------------------------------------------------------------------
(* The invariant of a call, for the records above. *)
LEMMA SettledOK ==
  ASSUME NEW r, NEW ch, NEW tm, r \in Call, NEW result \in Results,
         result = "valid" => ~r.dead
  PROVE  CallOK(Settled(r, result), ch, tm) /\ ~Starting(Settled(r, result))
<1> DEFINE s == Settled(r, result)
<1>1. /\ s \in Call /\ s.st = "done" /\ s.dead = r.dead /\ s.result = result
      /\ s.key = None /\ ~s.got
  BY SettledType
<1> HIDE DEF s
<1> QED
  BY <1>1 DEF CallOK, Starting, s

LEMMA BuiltOK ==
  ASSUME WorldInv, NEW r \in Call,
         r.op = "establish" => r.key # None /\ r.ctx # None /\ chain[r.key].state = "none",
         r.op # "establish" /\ r.key # None => chain[r.key].state # "none",
         ~r.got, r.result = "valid" => ~r.dead
  PROVE  /\ CallOK(Built(r), chain, now)
         /\ Starting(Built(r)) <=> r.op = "establish"
<1> DEFINE b == Built(r)
<1>1. /\ b \in Call /\ b.op = r.op /\ b.st = "build" /\ b.ctx = r.ctx /\ b.key = r.key
      /\ b.result = r.result /\ b.dead = r.dead /\ b.got = r.got
  BY BuiltType
<1> HIDE DEF b
<1> QED
  BY <1>1 DEF CallOK, Starting, b

(* A step of one call that creates no account and begins none. *)
LEMMA OneCall ==
  ASSUME CallsInv, NEW c \in Calls, NEW r,
         calls' = [calls EXCEPT ![c] = r],
         CallOK(r, chain, now),
         Starting(r) => Starting(calls[c]) /\ r.key = calls[c].key,
         UNCHANGED <<chain, now>>
  PROVE  CallsInv'
<1>1. r \in Call
  BY DEF CallOK
<1>2. calls' \in [Calls -> Call]
  BY <1>1 DEF CallsInv
<1>3. \A d \in Calls : calls'[d] = IF d = c THEN r ELSE calls[d]
  BY DEF CallsInv
<1>4. ASSUME NEW d \in Calls
      PROVE  CallOK(calls'[d], chain', now')
  <2>1. CallOK(calls[d], chain, now)
    BY DEF CallsInv
  <2> QED
    BY <1>3, <2>1
<1>5. ASSUME NEW d \in Calls, NEW e \in Calls,
             Starting(calls'[d]), Starting(calls'[e]), calls'[d].key = calls'[e].key
      PROVE  d = e
  <2>1. Starting(calls[d]) /\ calls'[d].key = calls[d].key
    BY <1>3, <1>5
  <2>2. Starting(calls[e]) /\ calls'[e].key = calls[e].key
    BY <1>3, <1>5
  <2> QED
    BY <1>5, <2>1, <2>2 DEF CallsInv
<1>6. (\A d \in Calls : CallOK(calls[d], chain, now))'
  BY <1>4
<1>7. (\A d, e \in Calls :
         Starting(calls[d]) /\ Starting(calls[e]) /\ calls[d].key = calls[e].key => d = e)'
  BY <1>5 DEF Starting
<1> QED
  BY <1>2, <1>6, <1>7 DEF CallsInv

LEMMA SettleStep ==
  ASSUME CallsInv, NEW c \in Calls, NEW result \in Results,
         result = "valid" => ~calls[c].dead,
         Settle(c, result), UNCHANGED <<chain, now>>
  PROVE  CallsInv'
<1>1. calls[c] \in Call
  BY DEF CallsInv
<1>2. CallOK(Settled(calls[c], result), chain, now) /\ ~Starting(Settled(calls[c], result))
  BY <1>1, SettledOK
<1>3. calls' = [calls EXCEPT ![c] = Settled(calls[c], result)]
  BY DEF Settle, Settled
<1> QED
  BY <1>2, <1>3, OneCall

LEMMA RequestsAdded ==
  ASSUME WorldInv, NEW rs, rs \subseteq Fetch, AddRequests(rs)
  PROVE  RequestsTyped'
BY DEF AddRequests, Fetch, WorldInv, RequestsTyped

LEMMA StartBuildStep ==
  ASSUME CallsInv, WorldInv, NEW c \in Calls, NEW r \in Call,
         r.op = "establish" => /\ r.key # None /\ r.ctx # None
                               /\ chain[r.key].state = "none"
                               /\ Starting(calls[c]) /\ r.key = calls[c].key,
         r.op # "establish" /\ r.key # None => chain[r.key].state # "none",
         ~r.got, r.result = "valid" => ~r.dead,
         StartBuild(c, r), UNCHANGED <<chain, now>>
  PROVE  CallsInv' /\ RequestsTyped'
<1>1. /\ CallOK(Built(r), chain, now)
      /\ Starting(Built(r)) <=> r.op = "establish"
  BY BuiltOK
<1>2. Built(r).key = r.key
  BY BuiltType
<1>3. calls' = [calls EXCEPT ![c] = Built(r)]
  BY DEF StartBuild, Built, Waits
<1>4. CallsInv'
  BY <1>1, <1>2, <1>3, OneCall
<1>5. Requests(c, {DomainOf(r.op)}) \subseteq Fetch /\ {} \subseteq Fetch
  BY DEF Requests, Fetch, DomainOf, PaymasterDomains
<1>6. RequestsTyped'
  BY <1>5, RequestsAdded DEF StartBuild
<1> QED
  BY <1>4, <1>6

(* What is left alone by the steps of a call. *)
LEMMA HoldingsFrame ==
  ASSUME HoldingsInv, UNCHANGED <<sessions, tokens, chain>>
  PROVE  HoldingsInv'
BY DEF HoldingsInv

LEMMA WorldFrame ==
  ASSUME WorldInv, RequestsTyped',
         tableCache' \in BOOLEAN,
         UNCHANGED <<app, sponsorCache, contexts, chain, registry, live, fee, now>>
  PROVE  WorldInv'
BY DEF WorldInv, RequestsTyped

-----------------------------------------------------------------------------
(* The calls an application starts. *)
LEMMA EstablishSessionStep ==
  ASSUME ClientInv, NEW c \in Calls, NEW x \in Contexts, NEW k \in Keys,
         EstablishSession(c, x, k)
  PROVE  ClientInv'
<1> DEFINE b == Begin(c, "establish", x, k)
           r == [b EXCEPT !.st = "sign"]
<1> USE DEF EstablishSession
<1>1. /\ b \in Call /\ b.op = "establish" /\ b.ctx = x /\ b.key = k
      /\ ~b.got /\ b.result = "none"
  <2>1. "establish" \in AllOps /\ x \in MaybeContexts /\ k \in MaybeKeys
    BY DEF AllOps, MaybeContexts, MaybeKeys
  <2>2. Began(b, "establish", x, k)
    BY <2>1, BeginType
  <2> QED
    BY <2>2 DEF Began
<1>2. x # None /\ k # None
  BY ClientAssumption
<1>3. calls' = [calls EXCEPT ![c] = r]
  OBVIOUS
<1> HIDE DEF b
<1>4. /\ r \in Call /\ r.op = "establish" /\ r.ctx = x /\ r.key = k /\ r.st = "sign"
      /\ r.result = "none" /\ ~r.got
  BY <1>1 DEF Call
<1> HIDE DEF r
<1>5. CallOK(r, chain, now) /\ Starting(r)
  BY <1>2, <1>4 DEF CallOK, Starting
<1>6. calls' \in [Calls -> Call]
  BY <1>3, <1>4 DEF ClientInv, CallsInv
<1>7. \A d \in Calls : calls'[d] = IF d = c THEN r ELSE calls[d]
  BY <1>3 DEF ClientInv, CallsInv
<1>8. \A d \in Calls : calls[d].key # k
  BY DEF UsedKeys
<1>9. (\A d \in Calls : CallOK(calls[d], chain, now))'
  <2>1. \A d \in Calls : CallOK(calls[d], chain, now)
    BY DEF ClientInv, CallsInv
  <2> QED
    BY <1>5, <1>7, <2>1
<1>10. ASSUME NEW d \in Calls, NEW e \in Calls,
             Starting(calls'[d]), Starting(calls'[e]), calls'[d].key = calls'[e].key
       PROVE  d = e
  <2>1. CASE d # c /\ e # c
    <3>1. Starting(calls[d]) /\ Starting(calls[e]) /\ calls[d].key = calls[e].key
      BY <1>7, <1>10, <2>1
    <3> QED
      BY <3>1 DEF ClientInv, CallsInv
  <2>2. CASE d = c /\ e # c
    BY <1>4, <1>7, <1>8, <1>10, <2>2
  <2>3. CASE d # c /\ e = c
    BY <1>4, <1>7, <1>8, <1>10, <2>3
  <2> QED
    BY <2>1, <2>2, <2>3
<1>11. (\A d, e \in Calls :
          Starting(calls[d]) /\ Starting(calls[e]) /\ calls[d].key = calls[e].key => d = e)'
  BY <1>10 DEF Starting
<1>12. CallsInv'
  BY <1>6, <1>9, <1>11 DEF CallsInv
<1>13. HoldingsInv'
  BY HoldingsFrame DEF ClientInv
<1>14. WorldInv'
  BY WorldFrame DEF ClientInv, WorldInv, RequestsTyped
<1> QED
  BY <1>12, <1>13, <1>14 DEF ClientInv

LEMMA BuildStartSessionStep ==
  ASSUME ClientInv, NEW c \in Calls, BuildStartSession(c)
  PROVE  ClientInv'
<1> DEFINE s == contexts[calls[c].ctx].payer
           r == [calls[c] EXCEPT !.sponsor = s]
<1> USE DEF BuildStartSession
<1>1. /\ calls[c] \in Call /\ calls[c].op = "establish"
      /\ calls[c].key # None /\ calls[c].ctx # None
      /\ chain[calls[c].key].state = "none" /\ Starting(calls[c])
  BY DEF ClientInv, CallsInv, CallOK, Starting
<1>2. s \in Sponsors \cup {None}
  <2>1. calls[c].ctx \in Contexts
    BY <1>1 DEF Call
  <2> QED
    BY <2>1 DEF ClientInv, WorldInv, Context
<1>3. StartBuild(c, r)
  OBVIOUS
<1> HIDE DEF s
<1>5. /\ r \in Call /\ r.op = "establish" /\ r.key = calls[c].key /\ r.ctx = calls[c].ctx
      /\ r.result = calls[c].result /\ r.dead = calls[c].dead
      /\ r.got = calls[c].got
  BY <1>1, <1>2 DEF Call
<1> HIDE DEF r
<1>6. ~r.got /\ (r.result = "valid" => ~r.dead)
  BY <1>5 DEF ClientInv, CallsInv, CallOK
<1>7. CallsInv' /\ RequestsTyped'
  BY <1>1, <1>3, <1>5, <1>6, StartBuildStep DEF ClientInv
<1>8. HoldingsInv'
  BY HoldingsFrame DEF ClientInv
<1>9. WorldInv'
  BY <1>7, WorldFrame DEF ClientInv, WorldInv
<1> QED
  BY <1>7, <1>8, <1>9 DEF ClientInv

LEMMA RevokeSessionStep ==
  ASSUME ClientInv, NEW c \in Calls, NEW k \in Keys, RevokeSession(c, k)
  PROVE  ClientInv'
<1> USE DEF RevokeSession
<1>1. sessions[k] \in Contexts /\ chain[k].state # "none"
  BY DEF ClientInv, HoldingsInv
<1>2. CallsInv' /\ RequestsTyped'
  <2>1. CASE chain[k].minor >= 2
    <3> DEFINE r == Begin(c, "revoke", sessions[k], k)
    <3>1. /\ r \in Call /\ r.op = "revoke" /\ r.key = k /\ r.result = "none" /\ ~r.got
      <4>1. /\ "revoke" \in AllOps /\ sessions[k] \in MaybeContexts
            /\ k \in MaybeKeys
        BY <1>1 DEF AllOps, MaybeContexts, MaybeKeys
      <4>2. Began(r, "revoke", sessions[k], k)
        BY <4>1, BeginType
      <4> QED
        BY <4>2 DEF Began
    <3>2. StartBuild(c, r)
      BY <2>1
    <3> HIDE DEF r
    <3> QED
      BY <1>1, <3>1, <3>2, StartBuildStep DEF ClientInv
  <2>2. CASE ~(chain[k].minor >= 2)
    <3> DEFINE s == [Idle EXCEPT !.op = "revoke", !.st = "done", !.result = "undefined"]
    <3>1. "revoke" \in AllOps
      BY DEF AllOps, MaybeContexts, MaybeKeys
    <3>2. s \in Call /\ s.st = "done" /\ s.key = None /\ s.result = "undefined" /\ ~s.got
      BY <3>1, ReturnedType
    <3>4. calls' = [calls EXCEPT ![c] = s]
      BY <2>2
    <3> HIDE DEF s
    <3>6. CallOK(s, chain, now) /\ ~Starting(s)
      BY <3>2 DEF CallOK, Starting
    <3>7. CallsInv'
      BY <3>4, <3>6, OneCall DEF ClientInv
    <3> QED
      BY <2>2, <3>7 DEF ClientInv, WorldInv, RequestsTyped
  <2> QED
    BY <2>1, <2>2
<1>3. HoldingsInv'
  BY HoldingsFrame DEF ClientInv
<1>4. WorldInv'
  BY <1>2, WorldFrame DEF ClientInv, WorldInv
<1> QED
  BY <1>2, <1>3, <1>4 DEF ClientInv

LEMMA SendTransferStep ==
  ASSUME ClientInv, NEW c \in Calls, NEW x \in Contexts, SendTransfer(c, x)
  PROVE  ClientInv'
<1> DEFINE b == Begin(c, "transfer", x, None)
           s == contexts[x].internal
           r == [b EXCEPT !.sponsor = s]
<1> USE DEF SendTransfer
<1>1. b \in Call /\ b.op = "transfer" /\ b.key = None /\ b.result = "none" /\ ~b.got
  <2>1. /\ "transfer" \in AllOps /\ x \in MaybeContexts
        /\ None \in MaybeKeys
    BY DEF AllOps, MaybeContexts, MaybeKeys
  <2>2. Began(b, "transfer", x, None)
    BY <2>1, BeginType
  <2> QED
    BY <2>2 DEF Began
<1>2. s \in Sponsors \cup {None}
  BY DEF ClientInv, WorldInv, Context
<1>3. StartBuild(c, r)
  OBVIOUS
<1> HIDE DEF s, b
<1>4. r \in Call /\ r.op = "transfer" /\ r.key = None /\ r.result = "none" /\ ~r.got
  BY <1>1, <1>2 DEF Call
<1> HIDE DEF r
<1>5. CallsInv' /\ RequestsTyped'
  BY <1>3, <1>4, StartBuildStep DEF ClientInv
<1>6. HoldingsInv'
  BY HoldingsFrame DEF ClientInv
<1>7. WorldInv'
  BY <1>5, WorldFrame DEF ClientInv, WorldInv
<1> QED
  BY <1>5, <1>6, <1>7 DEF ClientInv

LEMMA SendToPaymasterStep ==
  ASSUME ClientInv, NEW c \in Calls, NEW asks \in BOOLEAN, SendToPaymaster(c, asks)
  PROVE  ClientInv'
<1> DEFINE b == Begin(c, "direct", None, None)
           r == [b EXCEPT !.asks = asks]
<1> USE DEF SendToPaymaster
<1>1. b \in Call /\ b.op = "direct" /\ b.key = None /\ b.result = "none" /\ ~b.got
  <2>1. /\ "direct" \in AllOps /\ None \in MaybeContexts
        /\ None \in MaybeKeys
    BY DEF AllOps, MaybeContexts, MaybeKeys
  <2>2. Began(b, "direct", None, None)
    BY <2>1, BeginType
  <2> QED
    BY <2>2 DEF Began
<1>2. StartBuild(c, r)
  OBVIOUS
<1> HIDE DEF b
<1>6. r \in Call /\ r.op = "direct" /\ r.key = None /\ r.result = "none" /\ ~r.got
  BY <1>1 DEF Call
<1> HIDE DEF r
<1>3. CallsInv' /\ RequestsTyped'
  BY <1>2, <1>6, StartBuildStep DEF ClientInv
<1>4. HoldingsInv'
  BY HoldingsFrame DEF ClientInv
<1>5. WorldInv'
  BY <1>3, WorldFrame DEF ClientInv, WorldInv
<1> QED
  BY <1>3, <1>4, <1>5 DEF ClientInv

LEMMA SendTransactionStep ==
  ASSUME ClientInv, NEW c \in Calls, NEW k \in Keys, NEW asks \in BOOLEAN,
         NEW own \in BOOLEAN, SendTransaction(c, k, asks, own)
  PROVE  ClientInv'
<1> DEFINE b == Begin(c, "send", sessions[k], k)
           t == IF own THEN fee ELSE 0
           r == [b EXCEPT !.asks = asks, !.own = own, !.toll = t]
<1> USE DEF SendTransaction
<1>1. sessions[k] \in Contexts /\ chain[k].state # "none"
  BY DEF ClientInv, HoldingsInv
<1>2. b \in Call /\ b.op = "send" /\ b.key = k /\ b.result = "none" /\ ~b.got
  <2>1. "send" \in AllOps /\ sessions[k] \in MaybeContexts /\ k \in MaybeKeys
    BY <1>1 DEF AllOps, MaybeContexts, MaybeKeys
  <2>2. Began(b, "send", sessions[k], k)
    BY <2>1, BeginType
  <2> QED
    BY <2>2 DEF Began
<1>3. t \in 0 .. MaxFee
  BY ClientAssumption DEF ClientInv, WorldInv
<1>4. StartBuild(c, r)
  OBVIOUS
<1> HIDE DEF t, b
<1>5. r \in Call /\ r.op = "send" /\ r.key = k /\ r.result = "none" /\ ~r.got
  BY <1>2, <1>3 DEF Call
<1> HIDE DEF r
<1>6. CallsInv' /\ RequestsTyped'
  BY <1>1, <1>4, <1>5, StartBuildStep DEF ClientInv
<1>7. HoldingsInv'
  BY HoldingsFrame DEF ClientInv
<1>8. WorldInv'
  BY <1>6, WorldFrame DEF ClientInv, WorldInv
<1> QED
  BY <1>6, <1>7, <1>8 DEF ClientInv

LEMMA PrebuiltStep ==
  ASSUME ClientInv, NEW c \in Calls, NEW k \in Keys,
         AddSignaturesToExistingTransaction(c, k)
  PROVE  ClientInv'
<1> DEFINE b == Begin(c, "prebuilt", sessions[k], k)
           p == contexts[sessions[k]].payer
           b1 == [b EXCEPT !.st = "post", !.payer = p]
           r == [b1 EXCEPT !.toll = fee]
<1> USE DEF AddSignaturesToExistingTransaction
<1>1. sessions[k] \in Contexts /\ chain[k].state # "none"
  BY DEF ClientInv, HoldingsInv
<1>2. b \in Call /\ b.op = "prebuilt" /\ b.key = k /\ b.result = "none" /\ ~b.got
  <2>1. /\ "prebuilt" \in AllOps /\ sessions[k] \in MaybeContexts
        /\ k \in MaybeKeys
    BY <1>1 DEF AllOps, MaybeContexts, MaybeKeys
  <2>2. Began(b, "prebuilt", sessions[k], k)
    BY <2>1, BeginType
  <2> QED
    BY <2>2 DEF Began
<1>3. p \in Sponsors \cup {None} /\ fee \in 0 .. MaxFee
  BY <1>1 DEF ClientInv, WorldInv, Context
<1>4. calls' = [calls EXCEPT ![c] = r]
  OBVIOUS
<1> HIDE DEF b, p
<1>5. /\ b1 \in Call /\ b1.op = "prebuilt" /\ b1.key = k /\ b1.result = "none" /\ ~b1.got
      /\ b1.st = "post"
  BY <1>2, <1>3 DEF Call
<1> HIDE DEF b1
<1>6. /\ r \in Call /\ r.op = "prebuilt" /\ r.key = k /\ r.result = "none" /\ ~r.got
      /\ r.st = "post"
  BY <1>3, <1>5 DEF Call
<1> HIDE DEF r
<1>7. CallOK(r, chain, now) /\ ~Starting(r)
  BY <1>1, <1>6 DEF CallOK, Starting
<1>8. CallsInv'
  BY <1>4, <1>7, OneCall DEF ClientInv
<1>9. HoldingsInv'
  BY HoldingsFrame DEF ClientInv
<1>10. WorldInv'
  BY WorldFrame DEF ClientInv, WorldInv, RequestsTyped
<1> QED
  BY <1>8, <1>9, <1>10 DEF ClientInv

LEMMA ReestablishSessionStep ==
  ASSUME ClientInv, NEW c \in Calls, NEW x \in Contexts, NEW k \in Keys,
         ReestablishSession(c, x, k)
  PROVE  ClientInv'
<1> DEFINE b == Begin(c, "reestablish", x, k)
           r == [b EXCEPT !.st = "read", !.wait = {"account", "registry"}]
<1> USE DEF ReestablishSession
<1>1. b \in Call /\ b.op = "reestablish" /\ b.key = k /\ b.result = "none" /\ ~b.got
  <2>1. /\ "reestablish" \in AllOps /\ x \in MaybeContexts
        /\ k \in MaybeKeys
    BY DEF AllOps, MaybeContexts, MaybeKeys
  <2>2. Began(b, "reestablish", x, k)
    BY <2>1, BeginType
  <2> QED
    BY <2>2 DEF Began
<1>2. calls' = [calls EXCEPT ![c] = r]
  OBVIOUS
<1>3. k # None
  BY ClientAssumption
<1> HIDE DEF b
<1>4. /\ r \in Call /\ r.op = "reestablish" /\ r.key = k /\ r.result = "none" /\ ~r.got
      /\ r.st = "read"
  BY <1>1 DEF Call
<1> HIDE DEF r
<1>5. CallOK(r, chain, now) /\ ~Starting(r)
  BY <1>3, <1>4 DEF CallOK, Starting
<1>6. CallsInv'
  BY <1>2, <1>5, OneCall DEF ClientInv
<1>7. HoldingsInv'
  BY HoldingsFrame DEF ClientInv
<1>8. WorldInv'
  BY WorldFrame DEF ClientInv, WorldInv, RequestsTyped
<1> QED
  BY <1>6, <1>7, <1>8 DEF ClientInv

LEMMA VerifyLogInTokenStep ==
  ASSUME ClientInv, NEW c \in Calls, NEW k \in Keys, NEW genuine \in BOOLEAN,
         VerifyLogInToken(c, k, genuine)
  PROVE  ClientInv'
<1> DEFINE b == Begin(c, "login", None, k)
           d == Dead(k)
           b1 == [b EXCEPT !.st = "read", !.wait = {"account"}]
           r == [b1 EXCEPT !.dead = d]
           s == [Idle EXCEPT !.op = "login", !.st = "done", !.result = "undefined"]
<1> USE DEF VerifyLogInToken
<1>1. CallsInv'
  <2>1. CASE genuine
    <3>1. b \in Call /\ b.op = "login" /\ b.key = k /\ b.result = "none" /\ ~b.got
      <4>1. /\ "login" \in AllOps /\ None \in MaybeContexts
            /\ k \in MaybeKeys
        BY DEF AllOps, MaybeContexts, MaybeKeys
      <4>2. Began(b, "login", None, k)
        BY <4>1, BeginType
      <4> QED
        BY <4>2 DEF Began
    <3>2. calls' = [calls EXCEPT ![c] = r]
      BY <2>1
    <3>3. d \in BOOLEAN /\ d = DeadAccount(chain[k], now)
      BY DEF Dead, DeadAccount
    <3>4. k # None /\ chain[k].state # "none"
      BY ClientAssumption DEF ClientInv, HoldingsInv
    <3> HIDE DEF b, d
    <3>5. /\ b1 \in Call /\ b1.op = "login" /\ b1.key = k /\ b1.result = "none" /\ ~b1.got
          /\ b1.st = "read" /\ b1.wait = {"account"}
      BY <3>1 DEF Call
    <3> HIDE DEF b1
    <3>6. /\ r \in Call /\ r.op = "login" /\ r.key = k /\ r.result = "none" /\ ~r.got
          /\ r.st = "read" /\ r.wait = {"account"} /\ r.dead = d
      BY <3>3, <3>5 DEF Call
    <3> HIDE DEF r
    <3>7. CallOK(r, chain, now) /\ ~Starting(r)
      BY <3>3, <3>4, <3>6 DEF CallOK, Starting
    <3> QED
      BY <3>2, <3>7, OneCall DEF ClientInv
  <2>2. CASE ~genuine
    <3>1. "login" \in AllOps
      BY DEF AllOps, MaybeContexts, MaybeKeys
    <3>2. s \in Call /\ s.st = "done" /\ s.key = None /\ s.result = "undefined" /\ ~s.got
      BY <3>1, ReturnedType
    <3>3. calls' = [calls EXCEPT ![c] = s]
      BY <2>2
    <3> HIDE DEF s
    <3>4. CallOK(s, chain, now) /\ ~Starting(s)
      BY <3>2 DEF CallOK, Starting
    <3> QED
      BY <3>3, <3>4, OneCall DEF ClientInv
  <2> QED
    BY <2>1, <2>2
<1>2. HoldingsInv'
  BY HoldingsFrame DEF ClientInv
<1>3. WorldInv'
  BY WorldFrame DEF ClientInv, WorldInv, RequestsTyped
<1> QED
  BY <1>1, <1>2, <1>3 DEF ClientInv

-----------------------------------------------------------------------------
(* The steps of a call in flight. *)
LEMMA SettlingSteps ==
  ASSUME ClientInv, NEW c \in Calls,
         SignatureRefused(c) \/ BuildFails(c) \/ PaymasterRejects(c) \/ AnswerLost(c)
  PROVE  ClientInv'
<1> USE DEF SignatureRefused, BuildFails, PaymasterRejects, AnswerLost
<1>1. "threw" \in Results /\ "threw" # "valid"
  BY DEF Results
<1>2. Settle(c, "threw")
  OBVIOUS
<1>3. UNCHANGED <<sponsorCache, tableCache, fetches, raced, contexts, sessions, tokens,
                  chain, registry, live, fee, now, app>>
  OBVIOUS
<1>4. CallsInv'
  BY <1>1, <1>2, <1>3, SettleStep DEF ClientInv
<1>5. HoldingsInv'
  BY <1>3, HoldingsFrame DEF ClientInv
<1>6. WorldInv'
  BY <1>3, WorldFrame DEF ClientInv, WorldInv
<1> QED
  BY <1>4, <1>5, <1>6 DEF ClientInv

LEMMA GetAddressLookupTableStep ==
  ASSUME ClientInv, NEW c \in Calls, GetAddressLookupTable(c)
  PROVE  ClientInv'
<1> DEFINE r == [calls[c] EXCEPT !.wait = @ \ {"table"}]
<1> USE DEF GetAddressLookupTable
<1>1. calls[c] \in Call /\ CallOK(calls[c], chain, now)
  BY DEF ClientInv, CallsInv
<1>2. calls' = [calls EXCEPT ![c] = r]
  BY DEF ClientInv, CallsInv
<1>3. /\ r \in Call /\ r.op = calls[c].op /\ r.key = calls[c].key /\ r.ctx = calls[c].ctx
      /\ r.st = "build" /\ r.result = calls[c].result /\ r.dead = calls[c].dead
      /\ r.got = calls[c].got
  BY <1>1 DEF Call
<1> HIDE DEF r
<1>4. CallOK(r, chain, now) /\ (Starting(r) => Starting(calls[c]))
  BY <1>1, <1>3 DEF CallOK, Starting
<1>5. CallsInv'
  BY <1>2, <1>3, <1>4, OneCall DEF ClientInv
<1>6. HoldingsInv'
  BY HoldingsFrame DEF ClientInv
<1>7. WorldInv'
  BY WorldFrame DEF ClientInv, WorldInv, RequestsTyped
<1> QED
  BY <1>5, <1>6, <1>7 DEF ClientInv

LEMMA GetPaymasterFeeStep ==
  ASSUME ClientInv, NEW c \in Calls, GetPaymasterFee(c)
  PROVE  ClientInv'
<1> DEFINE t == buildTollboothInstructionIfNeeded(calls[c])
           r == [calls[c] EXCEPT !.wait = @ \ {"fee"}, !.toll = t]
<1> USE DEF GetPaymasterFee
<1>1. calls[c] \in Call /\ CallOK(calls[c], chain, now)
  BY DEF ClientInv, CallsInv
<1>2. calls' = [calls EXCEPT ![c] = r]
  BY DEF ClientInv, CallsInv
<1>3. t \in 0 .. MaxFee
  <2>1. calls[c].toll \in 0 .. MaxFee /\ calls[c].own \in BOOLEAN
    BY <1>1 DEF Call
  <2>2. 0 \in 0 .. MaxFee /\ fee \in 0 .. MaxFee
    BY ClientAssumption DEF ClientInv, WorldInv
  <2> QED
    BY <2>1, <2>2, Zenon DEF buildTollboothInstructionIfNeeded
<1> HIDE DEF t
<1>4. /\ r \in Call /\ r.op = calls[c].op /\ r.key = calls[c].key /\ r.ctx = calls[c].ctx
      /\ r.st = "build" /\ r.result = calls[c].result /\ r.dead = calls[c].dead
      /\ r.got = calls[c].got
  BY <1>1, <1>3 DEF Call
<1> HIDE DEF r
<1>5. CallOK(r, chain, now) /\ (Starting(r) => Starting(calls[c]))
  BY <1>1, <1>4 DEF CallOK, Starting
<1>6. CallsInv'
  BY <1>2, <1>4, <1>5, OneCall DEF ClientInv
<1>7. HoldingsInv'
  BY HoldingsFrame DEF ClientInv
<1>8. WorldInv'
  BY WorldFrame DEF ClientInv, WorldInv, RequestsTyped
<1> QED
  BY <1>6, <1>7, <1>8 DEF ClientInv

LEMMA PostingSteps ==
  ASSUME ClientInv, NEW c \in Calls, BuildTransaction(c) \/ ExecutionFails(c)
  PROVE  ClientInv'
<1> DEFINE t == IF calls[c].st = "build" THEN "post" ELSE "answer"
           r == [calls[c] EXCEPT !.st = t]
<1> USE DEF BuildTransaction, ExecutionFails
<1>1. calls[c] \in Call /\ CallOK(calls[c], chain, now) /\ calls[c].st \in {"build", "post"}
  BY DEF ClientInv, CallsInv
<1>2. calls' = [calls EXCEPT ![c] = r]
  BY DEF ClientInv, CallsInv
<1>3. UNCHANGED <<sponsorCache, tableCache, fetches, raced, contexts, sessions, tokens,
                  chain, registry, live, fee, now, app>>
  OBVIOUS
<1>4. t \in {"post", "answer"}
  OBVIOUS
<1> HIDE DEF t
<1>5. /\ r \in Call /\ r.op = calls[c].op /\ r.key = calls[c].key /\ r.ctx = calls[c].ctx
      /\ r.st \in {"post", "answer"} /\ r.got = calls[c].got
      /\ r.result = calls[c].result /\ r.dead = calls[c].dead
      /\ r.got = calls[c].got
  BY <1>1, <1>4 DEF Call
<1> HIDE DEF r
<1>6. CallOK(r, chain, now) /\ (Starting(r) => Starting(calls[c]))
  BY <1>1, <1>5 DEF CallOK, Starting
<1>7. CallsInv'
  BY <1>2, <1>3, <1>5, <1>6, OneCall DEF ClientInv
<1>8. HoldingsInv'
  BY <1>3, HoldingsFrame DEF ClientInv
<1>9. WorldInv'
  BY <1>3, WorldFrame DEF ClientInv, WorldInv
<1> QED
  BY <1>7, <1>8, <1>9 DEF ClientInv

LEMMA PaymasterAnswersStep ==
  ASSUME ClientInv, NEW c \in Calls, PaymasterAnswers(c)
  PROVE  ClientInv'
<1> USE DEF PaymasterAnswers
<1>1. calls[c] \in Call /\ CallOK(calls[c], chain, now)
  BY DEF ClientInv, CallsInv
<1>2. CallsInv'
  <2>1. CASE calls[c].op = "establish" /\ calls[c].got
    <3> DEFINE r == [calls[c] EXCEPT !.st = "read", !.wait = {"account", "registry"}]
    <3>1. calls' = [calls EXCEPT ![c] = r]
      BY <2>1 DEF ClientInv, CallsInv
    <3>2. /\ r \in Call /\ r.op = calls[c].op /\ r.key = calls[c].key
          /\ r.ctx = calls[c].ctx /\ r.st = "read"
          /\ r.result = calls[c].result /\ r.dead = calls[c].dead
      BY <1>1 DEF Call
    <3> HIDE DEF r
    <3>3. CallOK(r, chain, now) /\ ~Starting(r)
      BY <1>1, <2>1, <3>2 DEF CallOK, Starting
    <3> QED
      BY <3>1, <3>3, OneCall DEF ClientInv
  <2>2. CASE ~(calls[c].op = "establish" /\ calls[c].got)
    <3> DEFINE res == IF calls[c].got THEN "success" ELSE "failed"
    <3>1. res \in Results /\ res # "valid"
      BY DEF Results
    <3>2. Settle(c, res)
      BY <2>2
    <3> HIDE DEF res
    <3> QED
      BY <3>1, <3>2, SettleStep DEF ClientInv
  <2> QED
    BY <2>1, <2>2
<1>3. HoldingsInv'
  BY HoldingsFrame DEF ClientInv
<1>4. WorldInv'
  BY WorldFrame DEF ClientInv, WorldInv, RequestsTyped
<1> QED
  BY <1>2, <1>3, <1>4 DEF ClientInv

LEMMA GetSessionAccountStep ==
  ASSUME ClientInv, NEW c \in Calls, GetSessionAccount(c)
  PROVE  ClientInv'
<1> DEFINE a == chain[calls[c].key]
           r == [calls[c] EXCEPT !.wait = @ \ {"account"}, !.read = a]
<1> USE DEF GetSessionAccount
<1>1. calls[c] \in Call /\ CallOK(calls[c], chain, now)
  BY DEF ClientInv, CallsInv
<1>2. calls' = [calls EXCEPT ![c] = r]
  BY DEF ClientInv, CallsInv
<1>3. a \in SessionAccount
  BY <1>1 DEF ClientInv, WorldInv, CallOK, Call
<1>4. calls[c].op = "login" /\ calls[c].dead => DeadAccount(a, now)
  BY <1>1 DEF CallOK
<1>5. /\ r \in Call /\ r.op = calls[c].op /\ r.key = calls[c].key /\ r.ctx = calls[c].ctx
      /\ r.st = "read" /\ r.result = calls[c].result /\ r.dead = calls[c].dead
      /\ "account" \notin r.wait /\ r.read = a
  <2> HIDE DEF a
  <2> QED
    BY <1>1, <1>3 DEF Call
<1> HIDE DEF r, a
<1>6. CallOK(r, chain, now) /\ ~Starting(r)
  BY <1>1, <1>4, <1>5 DEF CallOK, Starting
<1>7. CallsInv'
  BY <1>2, <1>6, OneCall DEF ClientInv
<1>8. HoldingsInv'
  BY HoldingsFrame DEF ClientInv
<1>9. WorldInv'
  BY WorldFrame DEF ClientInv, WorldInv, RequestsTyped
<1> QED
  BY <1>7, <1>8, <1>9 DEF ClientInv

LEMMA GetDomainRegistryStep ==
  ASSUME ClientInv, NEW c \in Calls, GetDomainRegistryAuthorizedPrograms(c)
  PROVE  ClientInv'
<1> DEFINE r == [calls[c] EXCEPT !.wait = @ \ {"registry"}, !.listed = registry]
<1> USE DEF GetDomainRegistryAuthorizedPrograms
<1>1. calls[c] \in Call /\ CallOK(calls[c], chain, now) /\ registry \in SUBSET Programs
  BY DEF ClientInv, CallsInv, WorldInv
<1>2. calls' = [calls EXCEPT ![c] = r]
  BY DEF ClientInv, CallsInv
<1>3. /\ r \in Call /\ r.op = calls[c].op /\ r.key = calls[c].key /\ r.ctx = calls[c].ctx
      /\ r.st = "read" /\ r.result = calls[c].result /\ r.dead = calls[c].dead
      /\ r.read = calls[c].read /\ ("account" \in r.wait <=> "account" \in calls[c].wait)
  BY <1>1 DEF Call
<1> HIDE DEF r
<1>4. CallOK(r, chain, now) /\ ~Starting(r)
  BY <1>1, <1>3 DEF CallOK, Starting
<1>5. CallsInv'
  BY <1>2, <1>4, OneCall DEF ClientInv
<1>6. HoldingsInv'
  BY HoldingsFrame DEF ClientInv
<1>7. WorldInv'
  BY WorldFrame DEF ClientInv, WorldInv, RequestsTyped
<1> QED
  BY <1>5, <1>6, <1>7 DEF ClientInv

LEMMA CreateSessionStep ==
  ASSUME ClientInv, NEW c \in Calls, CreateSession(c)
  PROVE  ClientInv'
<1> DEFINE r == calls[c]
           ok == /\ sessionInfoSchema(r.read)
                 /\ authorizedProgramsMatchDomainRegistry(r.read, r.listed)
           res == IF ok THEN "success"
                  ELSE IF r.op = "establish" THEN "failed" ELSE "undefined"
<1> USE DEF CreateSession
<1>1. calls[c] \in Call /\ CallOK(calls[c], chain, now)
  BY DEF ClientInv, CallsInv
<1>2. res \in Results /\ res # "valid"
  BY DEF Results
<1>3. Settle(c, res) /\ sessions' = IF ok THEN [sessions EXCEPT ![r.key] = r.ctx] ELSE sessions
  OBVIOUS
<1> HIDE DEF ok, res
<1>4. CallsInv'
  BY <1>2, <1>3, SettleStep DEF ClientInv
<1>5. HoldingsInv'
  <2>1. r.key \in Keys /\ r.ctx \in Contexts \cup {None} /\ chain[r.key].state # "none"
    BY <1>1 DEF CallOK, Call, Starting
  <2> HIDE DEF r
  <2>2. sessions' \in [Keys -> Contexts \cup {None}]
    BY <1>3, <2>1 DEF ClientInv, HoldingsInv
  <2>3. \A k \in Keys : k # r.key => sessions'[k] = sessions[k]
    BY <1>3, <2>1 DEF ClientInv, HoldingsInv
  <2>4. \A k \in Keys : sessions'[k] # None \/ k \in tokens' => chain'[k].state # "none"
    BY <2>1, <2>3 DEF ClientInv, HoldingsInv
  <2> QED
    BY <2>2, <2>4 DEF ClientInv, HoldingsInv
<1>6. WorldInv'
  BY WorldFrame DEF ClientInv, WorldInv, RequestsTyped
<1> QED
  BY <1>4, <1>5, <1>6 DEF ClientInv

LEMMA LogInTokenReturnsStep ==
  ASSUME ClientInv, NEW c \in Calls, LogInTokenReturns(c)
  PROVE  ClientInv'
<1> DEFINE r == calls[c]
           res == IF ~sessionInfoSchema(r.read) THEN "undefined"
                  ELSE IF r.read.expires < now THEN "threw" ELSE "valid"
<1> USE DEF LogInTokenReturns
<1>1. CallOK(calls[c], chain, now) /\ calls[c].dead \in BOOLEAN
  BY DEF ClientInv, CallsInv, Call
<1>2. calls[c].dead => DeadAccount(r.read, now)
  BY <1>1 DEF CallOK
<1>3. res = "valid" => ~DeadAccount(r.read, now)
  BY DEF DeadAccount, sessionInfoSchema
<1>4. res \in Results /\ (res = "valid" => ~calls[c].dead)
  <2>1. res \in Results
    BY DEF Results
  <2> QED
    BY <1>1, <1>2, <1>3, <2>1
<1>5. Settle(c, res)
  OBVIOUS
<1> HIDE DEF res
<1>6. CallsInv'
  BY <1>4, <1>5, SettleStep DEF ClientInv
<1>7. HoldingsInv'
  BY HoldingsFrame DEF ClientInv
<1>8. WorldInv'
  BY WorldFrame DEF ClientInv, WorldInv, RequestsTyped
<1> QED
  BY <1>6, <1>7, <1>8 DEF ClientInv

LEMMA CreateLogInTokenStep ==
  ASSUME ClientInv, NEW k \in Keys, CreateLogInToken(k)
  PROVE  ClientInv'
<1> USE DEF CreateLogInToken
<1>1. CallsInv'
  BY DEF ClientInv, CallsInv
<1>2. HoldingsInv'
  BY DEF ClientInv, HoldingsInv
<1>3. WorldInv'
  BY WorldFrame DEF ClientInv, WorldInv, RequestsTyped
<1> QED
  BY <1>1, <1>2, <1>3 DEF ClientInv

(* What a transaction does to the session accounts: it creates the one its *)
(* call starts, and an account that exists neither goes nor comes alive.   *)
LEMMA ExecutesChain ==
  ASSUME ClientInv, NEW c \in Calls, Executes(c)
  PROVE  /\ chain' \in [Keys -> SessionAccount]
         /\ \A k \in Keys :
              /\ chain[k].state # "none" => chain'[k].state # "none"
              /\ chain[k].state # "none" /\ DeadAccount(chain[k], now) =>
                   DeadAccount(chain'[k], now)
              /\ ~(Starting(calls[c]) /\ k = calls[c].key) /\ chain[k].state = "none" =>
                   chain'[k].state = "none"
         /\ Starting(calls[c]) => chain'[calls[c].key].state # "none"
<1> USE DEF Executes
<1>1. calls[c] \in Call /\ CallOK(calls[c], chain, now) /\ chain \in [Keys -> SessionAccount]
  BY DEF ClientInv, CallsInv, WorldInv
<1>2. CASE calls[c].op = "establish"
  <2>1. /\ calls[c].key \in Keys /\ Starting(calls[c])
        /\ chain[calls[c].key].state = "none"
    BY <1>1, <1>2 DEF CallOK, Call, Starting
  <2>2. PICK e \in now .. app.time :
          chain' = [chain EXCEPT ![calls[c].key] = [state |-> "active", minor |-> 4,
                                                    programs |-> registry, expires |-> e]]
    BY <1>2
  <2> DEFINE a == [state |-> "active", minor |-> 4, programs |-> registry, expires |-> e]
  <2>3. e \in 0 .. MaxTime
    <3>1. app.time \in 0 .. MaxTime /\ now \in 0 .. MaxTime
      BY AppsAssumption DEF ClientInv, WorldInv, App
    <3> QED
      BY <3>1, ClientAssumption
  <2>4. a \in SessionAccount /\ a.state = "active"
    BY <2>3 DEF SessionAccount, ClientInv, WorldInv
  <2>5. chain' = [chain EXCEPT ![calls[c].key] = a]
    BY <2>2
  <2> HIDE DEF a
  <2> QED
    BY <1>1, <2>1, <2>4, <2>5
<1>3. CASE calls[c].op = "revoke"
  <2> DEFINE k0 == calls[c].key
             a == [chain[k0] EXCEPT !.state = "revoked"]
  <2>1. ~Starting(calls[c]) /\ chain[k0].state = "active"
    BY <1>3 DEF Starting
  <2>2. chain' = [chain EXCEPT ![k0] = a]
    BY <1>1, <1>3
  <2>3. k0 \in Keys => a \in SessionAccount /\ a.state = "revoked"
    BY <1>1 DEF SessionAccount
  <2> HIDE DEF a, k0
  <2>4. chain' \in [Keys -> SessionAccount]
    BY <1>1, <2>2, <2>3
  <2>5. \A k \in Keys : chain'[k] = chain[k] \/ (k = k0 /\ chain'[k].state = "revoked")
    BY <1>1, <2>2, <2>3
  <2> QED
    BY <2>1, <2>4, <2>5 DEF DeadAccount
<1>4. CASE calls[c].op \in {"send", "prebuilt", "transfer", "direct"}
  <2>1. UNCHANGED chain /\ ~Starting(calls[c])
    BY <1>4 DEF Starting
  <2> QED
    BY <1>1, <2>1
<1> QED
  BY <1>2, <1>3, <1>4

LEMMA ExecutesStep ==
  ASSUME ClientInv, NEW c \in Calls, Executes(c)
  PROVE  ClientInv'
<1> DEFINE r == [calls[c] EXCEPT !.st = "answer", !.got = TRUE]
<1>1. calls[c] \in Call /\ CallOK(calls[c], chain, now) /\ calls[c].st = "post"
  BY DEF ClientInv, CallsInv, Executes
<1>2. calls' = [calls EXCEPT ![c] = r]
  BY DEF ClientInv, CallsInv, Executes
<1>3. UNCHANGED <<sponsorCache, tableCache, fetches, raced, contexts, sessions, tokens,
                  registry, live, fee, now, app>>
  BY DEF Executes
<1>4. /\ r \in Call /\ r.op = calls[c].op /\ r.key = calls[c].key /\ r.ctx = calls[c].ctx
      /\ r.st = "answer" /\ r.result = calls[c].result /\ r.dead = calls[c].dead /\ r.got
  BY <1>1 DEF Call
<1> HIDE DEF r
<1>5. /\ chain' \in [Keys -> SessionAccount]
      /\ \A k \in Keys :
           /\ chain[k].state # "none" => chain'[k].state # "none"
           /\ chain[k].state # "none" /\ DeadAccount(chain[k], now) =>
                DeadAccount(chain'[k], now)
           /\ ~(Starting(calls[c]) /\ k = calls[c].key) /\ chain[k].state = "none" =>
                chain'[k].state = "none"
      /\ Starting(calls[c]) => chain'[calls[c].key].state # "none"
  BY ExecutesChain
<1>6. \A d \in Calls : calls'[d] = IF d = c THEN r ELSE calls[d]
  BY <1>2 DEF ClientInv, CallsInv
<1>7. CallOK(r, chain', now') /\ ~Starting(r)
  <2>1. ~Starting(r)
    BY <1>4 DEF Starting
  <2>2. r.key # None => chain'[r.key].state # "none"
    <3>1. CASE Starting(calls[c])
      BY <1>4, <1>5, <3>1
    <3>2. CASE ~Starting(calls[c])
      <4>1. r.key # None => r.key \in Keys /\ chain[r.key].state # "none"
        BY <1>1, <1>4, <3>2 DEF CallOK, Call
      <4> QED
        BY <1>5, <4>1
    <3> QED
      BY <3>1, <3>2
  <2> QED
    BY <1>1, <1>4, <2>1, <2>2 DEF CallOK
<1>8. ASSUME NEW d \in Calls, d # c
      PROVE  CallOK(calls[d], chain', now')
  <2>1. CallOK(calls[d], chain, now) /\ calls[d] \in Call
    BY DEF ClientInv, CallsInv
  <2> DEFINE k == calls[d].key
  <2>2. k # None => k \in Keys
    BY <2>1 DEF Call
  <2>3. Starting(calls[d]) => k # None /\ chain'[k].state = "none"
    <3> SUFFICES ASSUME Starting(calls[d])
                 PROVE  k # None /\ chain'[k].state = "none"
      OBVIOUS
    <3>1. k # None /\ chain[k].state = "none"
      BY <2>1 DEF CallOK, Starting
    <3>2. ~(Starting(calls[c]) /\ k = calls[c].key)
      BY <1>8 DEF ClientInv, CallsInv
    <3> QED
      BY <1>5, <2>2, <3>1, <3>2
  <2>4. k # None /\ ~Starting(calls[d]) => chain'[k].state # "none"
    BY <1>5, <2>1, <2>2 DEF CallOK
  <2>5. calls[d].op = "login" /\ calls[d].st = "read" /\ calls[d].dead =>
          DeadAccount(IF "account" \in calls[d].wait THEN chain'[k] ELSE calls[d].read, now)
    <3> SUFFICES ASSUME calls[d].op = "login", calls[d].st = "read", calls[d].dead,
                        "account" \in calls[d].wait
                 PROVE  DeadAccount(chain'[k], now)
      BY <2>1 DEF CallOK
    <3>1. k # None /\ chain[k].state # "none" /\ DeadAccount(chain[k], now)
      BY <2>1 DEF CallOK, Starting
    <3> QED
      BY <1>5, <2>2, <3>1
  <2> QED
    BY <1>3, <2>1, <2>3, <2>4, <2>5 DEF CallOK
<1>9. (\A d \in Calls : CallOK(calls[d], chain, now))'
  BY <1>6, <1>7, <1>8
<1>10. ASSUME NEW d \in Calls, NEW e \in Calls,
              Starting(calls'[d]), Starting(calls'[e]), calls'[d].key = calls'[e].key
       PROVE  d = e
  <2>1. d # c /\ e # c
    BY <1>6, <1>7, <1>10
  <2>2. Starting(calls[d]) /\ Starting(calls[e]) /\ calls[d].key = calls[e].key
    BY <1>6, <1>10, <2>1
  <2> QED
    BY <2>2 DEF ClientInv, CallsInv
<1>11. (\A d, e \in Calls :
          Starting(calls[d]) /\ Starting(calls[e]) /\ calls[d].key = calls[e].key => d = e)'
  BY <1>10 DEF Starting
<1>12. CallsInv'
  <2>1. calls' \in [Calls -> Call]
    BY <1>2, <1>4 DEF ClientInv, CallsInv
  <2> QED
    BY <1>9, <1>11, <2>1 DEF CallsInv
<1>13. HoldingsInv'
  BY <1>3, <1>5 DEF ClientInv, HoldingsInv
<1>14. WorldInv'
  BY <1>3, <1>5 DEF ClientInv, WorldInv
<1> QED
  BY <1>12, <1>13, <1>14 DEF ClientInv

-----------------------------------------------------------------------------
(* Contexts and sponsors. *)
LEMMA CallsFrame ==
  ASSUME CallsInv, UNCHANGED <<calls, chain, now>>
  PROVE  CallsInv'
BY DEF CallsInv, Starting

LEMMA NoContextType == NoContext \in Context
BY DEF NoContext, Context

LEMMA CreateContextStep ==
  ASSUME ClientInv, NEW x \in Contexts, CreateContext(x)
  PROVE  ClientInv'
<1> DEFINE st == IF Requests(x, PaymasterDomains) = {} THEN "chainId" ELSE "sponsors"
           y == [st |-> st, payer |-> getSponsor("app"), internal |-> getSponsor("sessions")]
<1> USE DEF CreateContext
<1>1. CallsInv' /\ HoldingsInv'
  BY CallsFrame, HoldingsFrame DEF ClientInv
<1>2. y \in Context
  BY DEF Context, getSponsor, ClientInv, WorldInv, PaymasterDomains
<1>3. contexts' = [contexts EXCEPT ![x] = y]
  OBVIOUS
<1> HIDE DEF y
<1>4. contexts' \in [Contexts -> Context]
  BY <1>2, <1>3 DEF ClientInv, WorldInv
<1>5. RequestsTyped'
  <2>1. Requests(x, PaymasterDomains) \subseteq Fetch
    BY DEF Requests, Fetch
  <2> QED
    BY <2>1, RequestsAdded DEF ClientInv
<1>6. WorldInv'
  BY <1>4, <1>5 DEF ClientInv, WorldInv, RequestsTyped
<1> QED
  BY <1>1, <1>6 DEF ClientInv

LEMMA FetchChainIdStep ==
  ASSUME ClientInv, NEW x \in Contexts, FetchChainId(x)
  PROVE  ClientInv'
<1> USE DEF FetchChainId
<1>1. CallsInv' /\ HoldingsInv'
  BY CallsFrame, HoldingsFrame DEF ClientInv
<1>2. contexts[x] \in Context
  BY DEF ClientInv, WorldInv
<1>3. [contexts[x] EXCEPT !.st = "ready"] \in Context
  BY <1>2 DEF Context
<1>4. contexts' \in [Contexts -> Context]
  <2>1. PICK y \in {[contexts[x] EXCEPT !.st = "ready"], NoContext} :
          contexts' = [contexts EXCEPT ![x] = y]
    OBVIOUS
  <2>2. y \in Context
    BY <1>3, NoContextType
  <2> QED
    BY <2>1, <2>2 DEF ClientInv, WorldInv
<1>5. WorldInv'
  BY <1>4 DEF ClientInv, WorldInv
<1> QED
  BY <1>1, <1>5 DEF ClientInv

(* The context that takes the sponsor s of domain d. *)
Taken(y, d, s) ==
  LET z == IF d = "app" THEN [y EXCEPT !.payer = s] ELSE [y EXCEPT !.internal = s]
  IN [z EXCEPT !.st = IF z.payer # None /\ z.internal # None THEN "chainId" ELSE @]

LEMMA TakenType ==
  ASSUME NEW y \in Context, NEW d \in PaymasterDomains, NEW s \in Sponsors
  PROVE  /\ Taken(y, d, s) \in Context
         /\ Taken(y, d, s).payer = IF d = "app" THEN s ELSE y.payer
         /\ Taken(y, d, s).internal = IF d = "app" THEN y.internal ELSE s
         /\ Taken(y, d, s).st = IF Taken(y, d, s).payer # None /\ Taken(y, d, s).internal # None
                                THEN "chainId" ELSE y.st
<1> DEFINE z == IF d = "app" THEN [y EXCEPT !.payer = s] ELSE [y EXCEPT !.internal = s]
           t == Taken(y, d, s)
<1>1. /\ z \in Context /\ z.st = y.st
      /\ z.payer = IF d = "app" THEN s ELSE y.payer
      /\ z.internal = IF d = "app" THEN y.internal ELSE s
  BY DEF Context
<1>2. t = [z EXCEPT !.st = IF z.payer # None /\ z.internal # None THEN "chainId" ELSE z.st]
  <2>1. t = [z EXCEPT !.st = IF z.payer # None /\ z.internal # None THEN "chainId" ELSE @]
    BY DEF Taken
  <2> QED
    BY <1>1, <2>1 DEF Context
<1> HIDE DEF z, t
<1>3. /\ t \in Context /\ t.payer = z.payer /\ t.internal = z.internal
      /\ t.st = IF z.payer # None /\ z.internal # None THEN "chainId" ELSE z.st
  BY <1>1, <1>2 DEF Context
<1> QED
  BY <1>1, <1>3 DEF t

LEMMA TakeInCallStep ==
  ASSUME CallsInv, NEW c \in Calls, NEW s \in Sponsors, TakeInCall(c, s),
         UNCHANGED <<chain, now>>
  PROVE  CallsInv'
<1> DEFINE r == [calls[c] EXCEPT !.payer = s, !.wait = @ \ {"sponsor"}]
<1>1. calls[c] \in Call /\ CallOK(calls[c], chain, now)
  BY DEF CallsInv
<1>2. calls' = [calls EXCEPT ![c] = r]
  BY DEF CallsInv, TakeInCall
<1>3. /\ r \in Call /\ r.op = calls[c].op /\ r.key = calls[c].key /\ r.ctx = calls[c].ctx
      /\ r.st = calls[c].st /\ r.result = calls[c].result /\ r.dead = calls[c].dead
      /\ r.got = calls[c].got /\ r.read = calls[c].read
      /\ ("account" \in r.wait <=> "account" \in calls[c].wait)
  BY <1>1 DEF Call
<1> HIDE DEF r
<1>4. CallOK(r, chain, now) /\ (Starting(r) => Starting(calls[c]))
  BY <1>1, <1>3 DEF CallOK, Starting
<1> QED
  BY <1>2, <1>3, <1>4, OneCall

LEMMA SponsorAnswersStep ==
  ASSUME ClientInv, NEW f \in fetches, NEW s \in live, SponsorAnswers(f, s)
  PROVE  ClientInv'
<1> USE DEF SponsorAnswers
<1>1. f \in Fetch /\ f.domain \in PaymasterDomains /\ s \in Sponsors
  BY DEF ClientInv, WorldInv, Fetch
<1>2. HoldingsInv'
  BY HoldingsFrame DEF ClientInv
<1>3. fetches' \subseteq Fetch /\ sponsorCache' \in [PaymasterDomains -> Sponsors \cup {None}]
  BY <1>1 DEF ClientInv, WorldInv
<1>4. CallsInv' /\ contexts' \in [Contexts -> Context]
  <2>1. CASE f.who \in Contexts /\ TakeInContext(f.who, f.domain, s) /\ UNCHANGED calls
    <3>1. contexts' = [contexts EXCEPT ![f.who] = Taken(contexts[f.who], f.domain, s)]
      BY <2>1 DEF TakeInContext, Taken
    <3>2. Taken(contexts[f.who], f.domain, s) \in Context
      BY <1>1, <2>1, TakenType DEF ClientInv, WorldInv
    <3> QED
      BY <2>1, <3>1, <3>2, CallsFrame DEF ClientInv, WorldInv
  <2>2. CASE f.who \in Calls /\ TakeInCall(f.who, s) /\ UNCHANGED contexts
    BY <1>1, <2>2, TakeInCallStep DEF ClientInv, WorldInv
  <2>3. CASE UNCHANGED <<calls, contexts>>
    BY <2>3, CallsFrame DEF ClientInv, WorldInv
  <2> QED
    BY <2>1, <2>2, <2>3
<1>5. WorldInv'
  BY <1>3, <1>4 DEF ClientInv, WorldInv
<1> QED
  BY <1>2, <1>4, <1>5 DEF ClientInv

LEMMA SponsorFailsStep ==
  ASSUME ClientInv, NEW f \in fetches, SponsorFails(f)
  PROVE  ClientInv'
<1> USE DEF SponsorFails
<1>1. HoldingsInv'
  BY HoldingsFrame DEF ClientInv
<1>2. CallsInv' /\ contexts' \in [Contexts -> Context]
  <2>1. CASE f.who \in Contexts /\ UNCHANGED calls
             /\ contexts' = [contexts EXCEPT ![f.who] =
                               IF @.st = "sponsors" THEN NoContext ELSE @]
    BY <2>1, CallsFrame, NoContextType DEF ClientInv, WorldInv
  <2>2. CASE f.who \in Calls /\ Settle(f.who, "threw") /\ UNCHANGED contexts
    <3>1. "threw" \in Results /\ "threw" # "valid"
      BY DEF Results
    <3> QED
      BY <2>2, <3>1, SettleStep DEF ClientInv, WorldInv
  <2>3. CASE UNCHANGED <<calls, contexts>>
    BY <2>3, CallsFrame DEF ClientInv, WorldInv
  <2> QED
    BY <2>1, <2>2, <2>3
<1>3. WorldInv'
  BY <1>2 DEF ClientInv, WorldInv
<1> QED
  BY <1>1, <1>2, <1>3 DEF ClientInv

LEMMA TickStep ==
  ASSUME ClientInv, Tick
  PROVE  ClientInv'
<1> USE DEF Tick, client
<1>1. now \in Nat /\ app.time \in 0 .. MaxTime
  BY AppsAssumption DEF ClientInv, WorldInv, App
<1>2. \A acc \in SessionAccount : DeadAccount(acc, now) => DeadAccount(acc, now')
  BY <1>1, ClientAssumption DEF DeadAccount, SessionAccount
<1>3. ASSUME NEW d \in Calls
      PROVE  CallOK(calls[d], chain, now')
  <2>1. CallOK(calls[d], chain, now) /\ calls[d] \in Call /\ chain \in [Keys -> SessionAccount]
    BY DEF ClientInv, CallsInv, WorldInv
  <2> DEFINE a == IF "account" \in calls[d].wait THEN chain[calls[d].key] ELSE calls[d].read
  <2>2. calls[d].st = "read" => a \in SessionAccount
    BY <2>1 DEF CallOK, Call
  <2>3. calls[d].op = "login" /\ calls[d].st = "read" /\ calls[d].dead => DeadAccount(a, now')
    <3>1. calls[d].op = "login" /\ calls[d].st = "read" /\ calls[d].dead => DeadAccount(a, now)
      BY <2>1 DEF CallOK
    <3> QED
      BY <1>2, <2>2, <3>1
  <2> QED
    BY <2>1, <2>3 DEF CallOK
<1>4. CallsInv'
  <2>1. (\A d \in Calls : CallOK(calls[d], chain, now))'
    BY <1>3
  <2> QED
    BY <2>1 DEF ClientInv, CallsInv, Starting
<1>5. HoldingsInv'
  BY HoldingsFrame DEF ClientInv
<1>6. now' \in 0 .. MaxTime
  BY <1>1, ClientAssumption
<1>7. WorldInv'
  BY <1>6 DEF ClientInv, WorldInv
<1> QED
  BY <1>4, <1>5, <1>7 DEF ClientInv

LEMMA ConfigurationSteps ==
  ASSUME ClientInv, RegistryChanges \/ SponsorsChange \/ FeeChanges
  PROVE  ClientInv'
<1> USE DEF RegistryChanges, SponsorsChange, FeeChanges, client
<1>1. app.sponsors \subseteq Sponsors /\ app.programs \subseteq Programs /\ app.fee \in 0 .. MaxFee
  BY AppsAssumption DEF ClientInv, WorldInv, App
<1>2. CallsInv' /\ HoldingsInv'
  BY CallsFrame, HoldingsFrame DEF ClientInv
<1>3. registry' \subseteq Programs /\ live' \subseteq Sponsors
  BY <1>1 DEF ClientInv, WorldInv
<1>4. fee' \in 0 .. MaxFee
  BY <1>1, ClientAssumption DEF ClientInv, WorldInv
<1>5. WorldInv'
  BY <1>3, <1>4 DEF ClientInv, WorldInv
<1> QED
  BY <1>2, <1>5 DEF ClientInv

-----------------------------------------------------------------------------
LEMMA ClientInit ==
  ASSUME Init
  PROVE  ClientInv
<1> USE DEF Init
<1>1. /\ app.sponsors \subseteq Sponsors /\ app.programs \subseteq Programs /\ app.old \subseteq 1 .. 4
      /\ app.time \in 0 .. MaxTime
  BY AppsAssumption DEF App
<1>2. Idle \in Call /\ Idle.st = "idle" /\ Idle.key = None /\ Idle.op = "idle"
      /\ Idle.result = "none" /\ ~Idle.got
  BY IdleType DEF Idle
<1>3. CallsInv
  <2>1. \A c \in Calls : CallOK(calls[c], chain, now) /\ ~Starting(calls[c])
    BY <1>2 DEF CallOK, Starting
  <2> QED
    BY <1>2, <2>1 DEF CallsInv
<1>4. HoldingsInv
  BY DEF HoldingsInv
<1>5. chain \in [Keys -> SessionAccount]
  <2>1. NoAccount \in SessionAccount
    BY ClientAssumption DEF NoAccount, SessionAccount
  <2>2. [state : {"active"}, minor : app.old, programs : {{}, app.programs},
         expires : 0 .. app.time] \subseteq SessionAccount
    BY <1>1, ClientAssumption DEF SessionAccount
  <2> QED
    BY <2>1, <2>2
<1>6. contexts \in [Contexts -> Context]
  BY NoContextType
<1>7. sponsorCache \in [PaymasterDomains -> Sponsors \cup {None}]
  OBVIOUS
<1>8. fee \in 0 .. MaxFee /\ now \in 0 .. MaxTime
  BY ClientAssumption
<1>9. WorldInv
  BY <1>1, <1>5, <1>6, <1>7, <1>8 DEF WorldInv
<1> QED
  BY <1>3, <1>4, <1>9 DEF ClientInv

LEMMA ClientStep ==
  ASSUME ClientInv, [Next]_vars
  PROVE  ClientInv'
<1>1. CASE UNCHANGED vars
  <2>1. UNCHANGED <<app, sponsorCache, tableCache, fetches, raced, contexts, calls, sessions,
                    chain, registry, live, fee, tokens, now>>
    BY <1>1 DEF vars, client
  <2> QED
    BY <2>1, CallsFrame, HoldingsFrame, WorldFrame DEF ClientInv, WorldInv
<1>2. CASE ContextStep
  <2>1. app.contexts \subseteq Contexts
    BY AppsAssumption DEF ClientInv, WorldInv, App
  <2> QED
    BY <1>2, <2>1, CreateContextStep, FetchChainIdStep, SponsorFailsStep, SponsorAnswersStep
    DEF ContextStep
<1>3. ASSUME NEW c \in Calls, StartStep(c)
      PROVE  ClientInv'
  BY <1>3, EstablishSessionStep, ReestablishSessionStep, SendToPaymasterStep,
     SendTransferStep, RevokeSessionStep, PrebuiltStep, SendTransactionStep,
     VerifyLogInTokenStep DEF StartStep
<1>4. ASSUME NEW c \in Calls, CallStep(c)
      PROVE  ClientInv'
  <2>1. CASE SignatureRefused(c) \/ BuildFails(c) \/ PaymasterRejects(c) \/ AnswerLost(c)
    BY <2>1, SettlingSteps
  <2>2. CASE BuildTransaction(c) \/ ExecutionFails(c)
    BY <2>2, PostingSteps
  <2>3. CASE BuildStartSession(c) \/ GetAddressLookupTable(c) \/ GetPaymasterFee(c)
             \/ Executes(c) \/ PaymasterAnswers(c)
    BY <2>3, BuildStartSessionStep, GetAddressLookupTableStep, GetPaymasterFeeStep,
       ExecutesStep, PaymasterAnswersStep
  <2>4. CASE GetSessionAccount(c) \/ GetDomainRegistryAuthorizedPrograms(c)
             \/ CreateSession(c) \/ LogInTokenReturns(c)
    BY <2>4, GetSessionAccountStep, GetDomainRegistryStep, CreateSessionStep,
       LogInTokenReturnsStep
  <2> QED
    BY <1>4, <2>1, <2>2, <2>3, <2>4 DEF CallStep
<1>5. ASSUME NEW k \in Keys, CreateLogInToken(k)
      PROVE  ClientInv'
  BY <1>5, CreateLogInTokenStep
<1>6. CASE Environment
  BY <1>6, TickStep, ConfigurationSteps DEF Environment
<1> QED
  BY <1>1, <1>2, <1>3, <1>4, <1>5, <1>6 DEF Next

(* ClientInv is an invariant: in particular a session account is created by *)
(* one establishSession alone, and no object or login token is handed out   *)
(* for an account that does not exist.                                      *)
THEOREM ClientInvariance == Spec => []ClientInv
<1>1. Init => ClientInv
  BY ClientInit
<1>2. ClientInv /\ [Next]_vars => ClientInv'
  BY ClientStep
<1> QED
  BY <1>1, <1>2, PTL DEF Spec

(* Type correctness; in particular getSponsor caches sponsors only. *)
THEOREM ClientTypes == Spec => []SCTypeOK
<1>1. ClientInv => SCTypeOK
  BY DEF ClientInv, CallsInv, HoldingsInv, WorldInv, SCTypeOK
<1> QED
  BY <1>1, ClientInvariance, PTL

(* verifyLogInToken accepts no token of a session that had ended, by        *)
(* revocation or expiry, when the verification began, however the steps of  *)
(* other calls, and the clock, fall between its reads.                      *)
THEOREM NoLoginOfDeadSessions == Spec => []DeadSessionNoLogin
<1>1. ClientInv => DeadSessionNoLogin
  BY DEF ClientInv, CallsInv, CallOK, DeadSessionNoLogin
<1> QED
  BY <1>1, ClientInvariance, PTL

-----------------------------------------------------------------------------
(* The sponsors, over a connection that fetches them. *)
Ready(x) == contexts[x].st = "ready"

(* The cache is filled, and overwritten only where requests have raced. *)
Grows(old, race, new, more) ==
  /\ race \subseteq more
  /\ \A d \in PaymasterDomains :
       old[d] # None => new[d] # None /\ (d \in more \/ new[d] = old[d])

LEMMA GrowsAgreed ==
  ASSUME NEW d \in PaymasterDomains, NEW s, NEW old, NEW race, NEW new, NEW more,
         Grows(old, race, new, more), Agreed(d, s, old, race)
  PROVE  Agreed(d, s, new, more)
BY DEF Grows, Agreed

LEMMA GrowsContext ==
  ASSUME NEW y, NEW old, NEW race, NEW new, NEW more,
         Grows(old, race, new, more), ContextOK(y, old, race)
  PROVE  ContextOK(y, new, more)
<1>1. "app" \in PaymasterDomains /\ "sessions" \in PaymasterDomains
  BY DEF PaymasterDomains
<1>2. Agreed("app", y.payer, new, more) /\ Agreed("sessions", y.internal, new, more)
  BY <1>1, GrowsAgreed DEF ContextOK
<1> QED
  BY <1>1, <1>2 DEF Grows, ContextOK

LEMMA DomainOfType == \A op : DomainOf(op) \in PaymasterDomains
BY DEF DomainOf, PaymasterDomains

LEMMA GrowsCall ==
  ASSUME NEW r, NEW old, NEW race, NEW new, NEW more,
         Grows(old, race, new, more), PayersOK(r, old, race)
  PROVE  PayersOK(r, new, more)
BY DomainOfType, GrowsAgreed DEF PayersOK, Agreed

(* Where a context is ready, both sponsors are cached. *)
LEMMA ReadyCached ==
  ASSUME SponsorInv, NEW x \in Contexts, Ready(x)
  PROVE  /\ \A d \in PaymasterDomains : sponsorCache[d] # None
         /\ Agreed("app", contexts[x].payer, sponsorCache, raced)
         /\ Agreed("sessions", contexts[x].internal, sponsorCache, raced)
BY DEF SponsorInv, ContextOK, Ready, PaymasterDomains

(* A step of one call, the requests aside. *)
LEMMA CallSponsor ==
  ASSUME ClientInv, SponsorInv, NEW c \in Calls, NEW r,
         calls' = [calls EXCEPT ![c] = r],
         PayersOK(r, sponsorCache, raced'), raced \subseteq raced',
         r.ctx # None => Ready(r.ctx),
         \A k \in Keys : sessions'[k] # None => Ready(sessions'[k]),
         FetchesInv',
         UNCHANGED <<sponsorCache, contexts>>
  PROVE  SponsorInv'
<1>1. \A d \in Calls : calls'[d] = IF d = c THEN r ELSE calls[d]
  BY DEF ClientInv, CallsInv
<1>0. Grows(sponsorCache, raced, sponsorCache, raced')
  BY DEF Grows
<1>2. (\A d \in Calls : PayersOK(calls[d], sponsorCache, raced))'
  <2>1. \A d \in Calls : PayersOK(calls[d], sponsorCache, raced')
    BY <1>0, GrowsCall DEF SponsorInv
  <2> QED
    BY <1>1, <2>1
<1>3. (\A d \in Calls : calls[d].ctx # None => contexts[calls[d].ctx].st = "ready")'
  BY <1>1 DEF SponsorInv, Ready
<1>4. (\A k \in Keys : sessions[k] # None => contexts[sessions[k]].st = "ready")'
  BY DEF Ready
<1>5. (\A x \in Contexts : ContextOK(contexts[x], sponsorCache, raced))'
  <2>1. \A x \in Contexts : ContextOK(contexts[x], sponsorCache, raced')
    BY <1>0, GrowsContext DEF SponsorInv
  <2> QED
    BY <2>1
<1> QED
  BY <1>2, <1>3, <1>4, <1>5 DEF SponsorInv

LEMMA OneCallSponsor ==
  ASSUME ClientInv, SponsorInv, NEW c \in Calls, NEW r,
         calls' = [calls EXCEPT ![c] = r],
         PayersOK(r, sponsorCache, raced),
         r.ctx # None => Ready(r.ctx),
         "sponsor" \in r.wait => \/ \A f \in fetches : f.who # c
                                 \/ "sponsor" \in calls[c].wait /\ r.op = calls[c].op,
         \A k \in Keys : sessions'[k] # None => Ready(sessions'[k]),
         fetches' \subseteq fetches,
         UNCHANGED <<sponsorCache, raced, contexts>>
  PROVE  SponsorInv'
<1>1. \A d \in Calls : calls'[d] = IF d = c THEN r ELSE calls[d]
  BY DEF ClientInv, CallsInv
<1>2. \A f \in fetches : f.who \in Calls /\ "sponsor" \in calls'[f.who].wait =>
        f.domain = DomainOf(calls'[f.who].op)
  <2> SUFFICES ASSUME NEW f \in fetches, f.who \in Calls, "sponsor" \in calls'[f.who].wait
               PROVE  f.domain = DomainOf(calls'[f.who].op)
    OBVIOUS
  <2>1. "sponsor" \in calls[f.who].wait => f.domain = DomainOf(calls[f.who].op)
    BY DEF SponsorInv, FetchesInv
  <2>2. CASE f.who = c
    BY <1>1, <2>1, <2>2
  <2>3. CASE f.who # c
    BY <1>1, <2>1, <2>3
  <2> QED
    BY <2>2, <2>3
<1>3. FetchesInv'
  <2>1. /\ \A f \in fetches : f.domain \in raced \/ sponsorCache[f.domain] = None
        /\ \A f, g \in fetches : f.domain = g.domain => f.domain \in raced \/ f = g
    BY DEF SponsorInv, FetchesInv
  <2>2. (\A f \in fetches : f.domain \in raced \/ sponsorCache[f.domain] = None)'
    BY <2>1
  <2>3. (\A f, g \in fetches : f.domain = g.domain => f.domain \in raced \/ f = g)'
    BY <2>1
  <2>4. (\A f \in fetches : f.who \in Calls /\ "sponsor" \in calls[f.who].wait =>
           f.domain = DomainOf(calls[f.who].op))'
    BY <1>2
  <2> QED
    BY <2>2, <2>3, <2>4 DEF FetchesInv
<1>4. raced \subseteq raced' /\ PayersOK(r, sponsorCache, raced')
  OBVIOUS
<1> QED
  BY <1>3, <1>4, CallSponsor

LEMMA SameSessions ==
  ASSUME SponsorInv, UNCHANGED sessions
  PROVE  \A k \in Keys : sessions'[k] # None => Ready(sessions'[k])
BY DEF SponsorInv, Ready

LEMMA SettleSponsor ==
  ASSUME ClientInv, SponsorInv, NEW c \in Calls, NEW result \in Results, Settle(c, result),
         \A k \in Keys : sessions'[k] # None => Ready(sessions'[k]),
         fetches' \subseteq fetches,
         UNCHANGED <<sponsorCache, raced, contexts>>
  PROVE  SponsorInv'
<1> DEFINE s == Settled(calls[c], result)
<1>1. calls[c] \in Call
  BY DEF ClientInv, CallsInv
<1>2. /\ s.st = "done" /\ s.ctx = None /\ s.payer = None /\ s.sponsor = None /\ s.wait = {}
  BY <1>1, SettledType
<1>3. calls' = [calls EXCEPT ![c] = s]
  BY DEF Settle, Settled
<1> HIDE DEF s
<1>4. PayersOK(s, sponsorCache, raced)
  BY <1>2 DEF PayersOK, Agreed
<1>5. "sponsor" \notin s.wait
  BY <1>2
<1> QED
  BY <1>2, <1>3, <1>4, <1>5, OneCallSponsor

(* A transaction built in a ready context requests no sponsor. *)
LEMMA StartBuildSponsor ==
  ASSUME ClientInv, SponsorInv, app.sponsor = None, NEW c \in Calls, NEW r \in Call,
         r.ctx # None, Ready(r.ctx),
         Agreed(DomainOf(r.op), r.sponsor, sponsorCache, raced),
         StartBuild(c, r), UNCHANGED <<sponsorCache, contexts, sessions>>
  PROVE  SponsorInv'
<1> DEFINE b == Built(r)
           d == DomainOf(r.op)
<1>1. sponsorCache[d] # None
  <2>1. r.ctx \in Contexts
    BY DEF Call
  <2> QED
    BY <2>1, ReadyCached, DomainOfType
<1>2. FeePayer(r.op) = sponsorCache[d]
  BY DEF FeePayer, getSponsor
<1>3. /\ b.op = r.op /\ b.st = "build" /\ b.ctx = r.ctx
      /\ b.payer = sponsorCache[d] /\ b.sponsor = r.sponsor /\ b.wait = Waits(r)
  BY <1>2, BuiltType DEF ClientInv
<1>4. "sponsor" \notin Waits(r)
  BY <1>1, <1>2 DEF Waits
<1>5. calls' = [calls EXCEPT ![c] = b]
  BY DEF StartBuild, Built, Waits
<1>6. fetches' \subseteq fetches /\ raced' = raced
  <2>1. Requests(c, {d}) = {}
    BY <1>1 DEF Requests, getSponsor
  <2> QED
    BY <2>1 DEF StartBuild, AddRequests
<1> HIDE DEF b
<1>7. PayersOK(b, sponsorCache, raced)
  BY <1>1, <1>3 DEF PayersOK, Agreed
<1>8. "sponsor" \notin b.wait /\ (b.ctx # None => Ready(b.ctx))
  BY <1>3, <1>4
<1> QED
  BY <1>5, <1>6, <1>7, <1>8, SameSessions, OneCallSponsor

LEMMA StartingSponsor ==
  ASSUME ClientInv, SponsorInv, NEW c \in Calls, NEW x \in Contexts, NEW k \in Keys,
         EstablishSession(c, x, k) \/ ReestablishSession(c, x, k)
  PROVE  SponsorInv'
<1> DEFINE op == IF chain[k].state = "none" THEN "establish" ELSE "reestablish"
           b == Begin(c, op, x, k)
           st == IF chain[k].state = "none" THEN "sign" ELSE "read"
           w == IF chain[k].state = "none" THEN b.wait ELSE {"account", "registry"}
           r == [b EXCEPT !.st = st, !.wait = w]
<1> USE DEF EstablishSession, ReestablishSession
<1>1. Began(b, op, x, k)
  <2>1. op \in AllOps /\ x \in MaybeContexts /\ k \in MaybeKeys
    BY DEF AllOps, MaybeContexts, MaybeKeys
  <2> HIDE DEF op
  <2> QED
    BY <2>1, BeginType
<1>2. calls' = [calls EXCEPT ![c] = r]
  <2>1. CASE chain[k].state = "none"
    <3>1. calls' = [calls EXCEPT ![c] = [b EXCEPT !.st = "sign"]]
      BY <2>1
    <3>2. [b EXCEPT !.st = "sign"] = r
      BY <1>1, <2>1 DEF Began, Call
    <3> QED
      BY <3>1, <3>2
  <2>2. CASE chain[k].state # "none"
    BY <2>2
  <2> QED
    BY <2>1, <2>2
<1>3. st \in {"sign", "read"} /\ w \in SUBSET {"account", "registry"}
  BY <1>1 DEF Began
<1> HIDE DEF b, st, w, op
<1>4. /\ r.ctx = x /\ r.payer = None /\ r.sponsor = None /\ r.wait = w /\ r.st = st
  BY <1>1 DEF Began, Call
<1> HIDE DEF r
<1>5. PayersOK(r, sponsorCache, raced) /\ "sponsor" \notin r.wait
  BY <1>3, <1>4 DEF PayersOK, Agreed
<1>6. Ready(x)
  BY DEF Ready
<1>7. fetches' \subseteq fetches /\ UNCHANGED <<sponsorCache, raced, contexts, sessions>>
  OBVIOUS
<1> QED
  BY <1>2, <1>4, <1>5, <1>6, <1>7, SameSessions, OneCallSponsor

LEMMA BuildStartSessionSponsor ==
  ASSUME ClientInv, SponsorInv, app.sponsor = None, NEW c \in Calls, BuildStartSession(c)
  PROVE  SponsorInv'
<1> DEFINE x == calls[c].ctx
           s == contexts[x].payer
           r == [calls[c] EXCEPT !.sponsor = s]
<1> USE DEF BuildStartSession
<1>1. /\ calls[c] \in Call /\ calls[c].op = "establish" /\ x # None
  BY DEF ClientInv, CallsInv, CallOK
<1>2. x \in Contexts /\ Ready(x)
  BY <1>1 DEF Call, SponsorInv, Ready
<1>3. Agreed("app", s, sponsorCache, raced) /\ s \in Sponsors \cup {None}
  BY <1>2, ReadyCached DEF ClientInv, WorldInv, Context
<1>4. StartBuild(c, r)
  OBVIOUS
<1>5. r \in Call /\ r.op = "establish" /\ r.ctx = x /\ r.sponsor = s
  <2> HIDE DEF s
  <2> QED
    BY <1>1, <1>3 DEF Call
<1> HIDE DEF r, s, x
<1>6. Agreed(DomainOf(r.op), r.sponsor, sponsorCache, raced)
  BY <1>3, <1>5 DEF DomainOf
<1>7. r.ctx # None /\ Ready(r.ctx)
  BY <1>1, <1>2, <1>5
<1> QED
  BY <1>4, <1>5, <1>6, <1>7, StartBuildSponsor

LEMMA RevokeSessionSponsor ==
  ASSUME ClientInv, SponsorInv, app.sponsor = None, NEW c \in Calls, NEW k \in Keys, RevokeSession(c, k)
  PROVE  SponsorInv'
<1> USE DEF RevokeSession
<1>1. sessions[k] \in Contexts /\ sessions[k] # None /\ Ready(sessions[k])
  BY DEF ClientInv, HoldingsInv, SponsorInv, Ready
<1>2. CASE chain[k].minor >= 2
  <2> DEFINE r == Begin(c, "revoke", sessions[k], k)
  <2>1. Began(r, "revoke", sessions[k], k)
    <3>1. "revoke" \in AllOps /\ sessions[k] \in MaybeContexts /\ k \in MaybeKeys
      BY <1>1 DEF AllOps, MaybeContexts, MaybeKeys
    <3> QED
      BY <3>1, BeginType
  <2>2. StartBuild(c, r)
    BY <1>2
  <2> HIDE DEF r
  <2>3. /\ r \in Call /\ r.ctx = sessions[k]
        /\ Agreed(DomainOf(r.op), r.sponsor, sponsorCache, raced)
    BY <2>1 DEF Began, Agreed
  <2> QED
    BY <1>1, <2>2, <2>3, StartBuildSponsor
<1>3. CASE ~(chain[k].minor >= 2)
  <2> DEFINE s == [Idle EXCEPT !.op = "revoke", !.st = "done", !.result = "undefined"]
  <2>1. "revoke" \in AllOps
    BY DEF AllOps
  <2>2. /\ s.st = "done" /\ s.ctx = None /\ s.payer = None /\ s.sponsor = None
        /\ s.wait = {}
    BY <2>1, ReturnedType
  <2>3. calls' = [calls EXCEPT ![c] = s] /\ fetches' \subseteq fetches
        /\ UNCHANGED <<sponsorCache, raced, contexts, sessions>>
    BY <1>3
  <2> HIDE DEF s
  <2>4. PayersOK(s, sponsorCache, raced) /\ "sponsor" \notin s.wait
    BY <2>2 DEF PayersOK, Agreed
  <2> QED
    BY <1>1, <2>2, <2>3, <2>4, SameSessions, OneCallSponsor
<1> QED
  BY <1>2, <1>3

LEMMA SendTransferSponsor ==
  ASSUME ClientInv, SponsorInv, app.sponsor = None, NEW c \in Calls, NEW x \in Contexts, SendTransfer(c, x)
  PROVE  SponsorInv'
<1> DEFINE b == Begin(c, "transfer", x, None)
           s == contexts[x].internal
           r == [b EXCEPT !.sponsor = s]
<1> USE DEF SendTransfer
<1>1. Began(b, "transfer", x, None)
  <2>1. "transfer" \in AllOps /\ x \in MaybeContexts /\ None \in MaybeKeys
    BY DEF AllOps, MaybeContexts, MaybeKeys
  <2> QED
    BY <2>1, BeginType
<1>2. x # None /\ Ready(x)
  BY ClientAssumption DEF Ready
<1>3. Agreed("sessions", s, sponsorCache, raced) /\ s \in Sponsors \cup {None}
  BY <1>2, ReadyCached DEF ClientInv, WorldInv, Context
<1>4. StartBuild(c, r)
  OBVIOUS
<1> HIDE DEF b, s
<1>5. r \in Call /\ r.op = "transfer" /\ r.ctx = x /\ r.sponsor = s
  BY <1>1, <1>3 DEF Began, Call
<1> HIDE DEF r
<1>6. Agreed(DomainOf(r.op), r.sponsor, sponsorCache, raced)
  BY <1>3, <1>5 DEF DomainOf
<1> QED
  BY <1>2, <1>4, <1>5, <1>6, StartBuildSponsor

LEMMA SendTransactionSponsor ==
  ASSUME ClientInv, SponsorInv, app.sponsor = None, NEW c \in Calls, NEW k \in Keys,
         NEW asks \in BOOLEAN, NEW own \in BOOLEAN, SendTransaction(c, k, asks, own)
  PROVE  SponsorInv'
<1> DEFINE b == Begin(c, "send", sessions[k], k)
           t == IF own THEN fee ELSE 0
           r == [b EXCEPT !.asks = asks, !.own = own, !.toll = t]
<1> USE DEF SendTransaction
<1>1. sessions[k] \in Contexts /\ sessions[k] # None /\ Ready(sessions[k])
  BY DEF ClientInv, HoldingsInv, SponsorInv, Ready
<1>2. Began(b, "send", sessions[k], k)
  <2>1. "send" \in AllOps /\ sessions[k] \in MaybeContexts /\ k \in MaybeKeys
    BY <1>1 DEF AllOps, MaybeContexts, MaybeKeys
  <2> QED
    BY <2>1, BeginType
<1>3. t \in 0 .. MaxFee
  BY ClientAssumption DEF ClientInv, WorldInv
<1>4. StartBuild(c, r)
  OBVIOUS
<1> HIDE DEF t, b
<1>5. /\ r \in Call /\ r.ctx = sessions[k]
      /\ Agreed(DomainOf(r.op), r.sponsor, sponsorCache, raced)
  BY <1>2, <1>3 DEF Began, Call, Agreed
<1> HIDE DEF r
<1> QED
  BY <1>1, <1>4, <1>5, StartBuildSponsor

LEMMA PrebuiltSponsor ==
  ASSUME ClientInv, SponsorInv, NEW c \in Calls, NEW k \in Keys,
         AddSignaturesToExistingTransaction(c, k)
  PROVE  SponsorInv'
<1> DEFINE b == Begin(c, "prebuilt", sessions[k], k)
           p == contexts[sessions[k]].payer
           b1 == [b EXCEPT !.st = "post", !.payer = p]
           r == [b1 EXCEPT !.toll = fee]
<1> USE DEF AddSignaturesToExistingTransaction
<1>1. sessions[k] \in Contexts /\ sessions[k] # None /\ Ready(sessions[k])
  BY DEF ClientInv, HoldingsInv, SponsorInv, Ready
<1>2. Began(b, "prebuilt", sessions[k], k)
  <2>1. "prebuilt" \in AllOps /\ sessions[k] \in MaybeContexts /\ k \in MaybeKeys
    BY <1>1 DEF AllOps, MaybeContexts, MaybeKeys
  <2> QED
    BY <2>1, BeginType
<1>3. Agreed("app", p, sponsorCache, raced)
  BY <1>1, ReadyCached
<1>4. calls' = [calls EXCEPT ![c] = r]
  OBVIOUS
<1> HIDE DEF b, p
<1>5. /\ b1.op = "prebuilt" /\ b1.ctx = sessions[k] /\ b1.payer = p /\ b1.sponsor = None
      /\ b1.wait = {} /\ b1.st = "post" /\ b1 = [b EXCEPT !.st = "post", !.payer = p]
  BY <1>2 DEF Began, Call
<1>6. /\ r.op = "prebuilt" /\ r.ctx = sessions[k] /\ r.payer = p /\ r.sponsor = None
      /\ r.wait = {} /\ r.st = "post"
  BY <1>2, <1>5 DEF Began, Call
<1> HIDE DEF b1, r
<1>7. PayersOK(r, sponsorCache, raced) /\ "sponsor" \notin r.wait
  BY <1>3, <1>6 DEF PayersOK, Agreed, DomainOf
<1>8. fetches' \subseteq fetches /\ UNCHANGED <<sponsorCache, raced, contexts, sessions>>
  OBVIOUS
<1> QED
  BY <1>1, <1>4, <1>6, <1>7, <1>8, SameSessions, OneCallSponsor

LEMMA VerifyLogInTokenSponsor ==
  ASSUME ClientInv, SponsorInv, NEW c \in Calls, NEW k \in Keys, NEW genuine \in BOOLEAN,
         VerifyLogInToken(c, k, genuine)
  PROVE  SponsorInv'
<1> DEFINE b == Begin(c, "login", None, k)
           b1 == [b EXCEPT !.st = "read", !.wait = {"account"}]
           r == [b1 EXCEPT !.dead = Dead(k)]
           s == [Idle EXCEPT !.op = "login", !.st = "done", !.result = "undefined"]
<1> USE DEF VerifyLogInToken
<1>1. fetches' \subseteq fetches /\ UNCHANGED <<sponsorCache, raced, contexts, sessions>>
  OBVIOUS
<1>2. "login" \in AllOps /\ None \in MaybeContexts /\ k \in MaybeKeys
  BY DEF AllOps, MaybeContexts, MaybeKeys
<1>3. CASE genuine
  <2>1. Began(b, "login", None, k)
    BY <1>2, BeginType
  <2>2. calls' = [calls EXCEPT ![c] = r]
    BY <1>3
  <2> HIDE DEF b
  <2>3. /\ b1.ctx = None /\ b1.payer = None /\ b1.sponsor = None /\ b1.wait = {"account"}
        /\ b1.st = "read" /\ b1 \in Call
    BY <2>1 DEF Began, Call
  <2> HIDE DEF b1
  <2>4. /\ r.ctx = None /\ r.payer = None /\ r.sponsor = None /\ r.wait = {"account"}
        /\ r.st = "read"
    BY <2>3 DEF Call
  <2> HIDE DEF r
  <2>5. PayersOK(r, sponsorCache, raced) /\ "sponsor" \notin r.wait
    BY <2>4 DEF PayersOK, Agreed
  <2> QED
    BY <1>1, <2>2, <2>4, <2>5, SameSessions, OneCallSponsor
<1>4. CASE ~genuine
  <2>1. /\ s.st = "done" /\ s.ctx = None /\ s.payer = None /\ s.sponsor = None
        /\ s.wait = {}
    BY <1>2, ReturnedType
  <2>2. calls' = [calls EXCEPT ![c] = s]
    BY <1>4
  <2> HIDE DEF s
  <2>3. PayersOK(s, sponsorCache, raced) /\ "sponsor" \notin s.wait
    BY <2>1 DEF PayersOK, Agreed
  <2> QED
    BY <1>1, <2>1, <2>2, <2>3, SameSessions, OneCallSponsor
<1> QED
  BY <1>3, <1>4

(* New requests of one caller, while the cache has none. *)
LEMMA RequestsOnce ==
  ASSUME SponsorInv, NEW w, NEW rs, AddRequests(rs), UNCHANGED sponsorCache,
         \A f \in rs : sponsorCache[f.domain] = None /\ f = [who |-> w, domain |-> f.domain],
         (\A f \in fetches : f.who \in Calls /\ "sponsor" \in calls[f.who].wait =>
            f.domain = DomainOf(calls[f.who].op))'
  PROVE  FetchesInv'
<1>1. \A f \in fetches' : f \in fetches \/ f \in rs
  BY DEF AddRequests
<1>2. raced \subseteq raced'
  BY DEF AddRequests
<1>3. \A f \in rs, g \in fetches : f.domain = g.domain => f.domain \in raced'
  BY DEF AddRequests
<1>4. (\A f \in fetches : f.domain \in raced \/ sponsorCache[f.domain] = None)'
  BY <1>1, <1>2 DEF SponsorInv, FetchesInv
<1>5. \A f, g \in fetches : f.domain = g.domain => f.domain \in raced \/ f = g
  BY DEF SponsorInv, FetchesInv
<1>6. \A f, g \in rs : f.domain = g.domain => f = g
  OBVIOUS
<1>7. \A f, g \in fetches' : f.domain = g.domain => f.domain \in raced' \/ f = g
  BY <1>1, <1>2, <1>3, <1>5, <1>6
<1>8. (\A f, g \in fetches : f.domain = g.domain => f.domain \in raced \/ f = g)'
  BY <1>7
<1> QED
  BY <1>4, <1>8 DEF FetchesInv

(* sendToPaymaster may be the one that requests the application's sponsor. *)
LEMMA SendToPaymasterSponsor ==
  ASSUME ClientInv, SponsorInv, app.sponsor = None, NEW c \in Calls,
         NEW asks \in BOOLEAN, SendToPaymaster(c, asks)
  PROVE  SponsorInv'
<1> DEFINE g == Begin(c, "direct", None, None)
           r == [g EXCEPT !.asks = asks]
           b == Built(r)
<1> USE DEF SendToPaymaster
<1>1. Began(g, "direct", None, None)
  <2>1. "direct" \in AllOps /\ None \in MaybeContexts /\ None \in MaybeKeys
    BY DEF AllOps, MaybeContexts, MaybeKeys
  <2> QED
    BY <2>1, BeginType
<1>2. StartBuild(c, r) /\ \A f \in fetches : f.who # c
  BY DEF Usable
<1>3. UNCHANGED <<sponsorCache, contexts, sessions>>
  OBVIOUS
<1> HIDE DEF g
<1>4. r \in Call /\ r.op = "direct" /\ r.ctx = None /\ r.sponsor = None
  BY <1>1 DEF Began, Call
<1> HIDE DEF r
<1>5. FeePayer("direct") = sponsorCache["app"]
  BY DEF FeePayer, getSponsor, DomainOf
<1>6. /\ b.op = "direct" /\ b.st = "build" /\ b.ctx = None
      /\ b.payer = sponsorCache["app"] /\ b.sponsor = None /\ b.wait = Waits(r)
  BY <1>4, <1>5, BuiltType DEF ClientInv
<1>7. calls' = [calls EXCEPT ![c] = b]
  BY <1>2 DEF StartBuild, Built, Waits
<1>8. "sponsor" \in b.wait <=> sponsorCache["app"] = None
  BY <1>4, <1>5, <1>6 DEF Waits
<1> HIDE DEF b
<1>9. PayersOK(b, sponsorCache, raced')
  BY <1>6, <1>8 DEF PayersOK, Agreed, DomainOf
<1> DEFINE rs == Requests(c, {"app"})
<1>10. AddRequests(rs)
  BY <1>2, <1>4 DEF StartBuild, DomainOf
<1>11. \A f \in rs : f.who = c /\ f.domain = "app" /\ sponsorCache["app"] = None
                      /\ f = [who |-> c, domain |-> "app"]
  BY DEF Requests, getSponsor
<1> HIDE DEF rs
<1>12. FetchesInv'
  <2>1. calls'[c] = b /\ \A d \in Calls \ {c} : calls'[d] = calls[d]
    BY <1>7 DEF ClientInv, CallsInv
  <2>2. \A f \in fetches' : f \in fetches \/ f \in rs
    BY <1>10 DEF AddRequests
  <2>3. \A f \in fetches : f.who \in Calls /\ "sponsor" \in calls'[f.who].wait =>
          f.domain = DomainOf(calls'[f.who].op)
    BY <1>2, <2>1 DEF SponsorInv, FetchesInv
  <2>4. (\A f \in fetches : f.who \in Calls /\ "sponsor" \in calls[f.who].wait =>
           f.domain = DomainOf(calls[f.who].op))'
    BY <1>6, <1>11, <2>1, <2>2, <2>3 DEF DomainOf
  <2> QED
    BY <1>3, <1>10, <1>11, <2>4, RequestsOnce
<1>13. raced \subseteq raced'
  BY <1>10 DEF AddRequests
<1> QED
  BY <1>3, <1>6, <1>7, <1>9, <1>12, <1>13, SameSessions, CallSponsor

-----------------------------------------------------------------------------
(* The sponsors of the calls in flight. *)
LEMMA SettlingSponsor ==
  ASSUME ClientInv, SponsorInv, NEW c \in Calls,
         SignatureRefused(c) \/ BuildFails(c) \/ PaymasterRejects(c) \/ AnswerLost(c)
  PROVE  SponsorInv'
<1> USE DEF SignatureRefused, BuildFails, PaymasterRejects, AnswerLost
<1>1. "threw" \in Results /\ Settle(c, "threw")
  BY DEF Results
<1>2. fetches' \subseteq fetches /\ UNCHANGED <<sponsorCache, raced, contexts, sessions>>
  OBVIOUS
<1> QED
  BY <1>1, <1>2, SameSessions, SettleSponsor

(* Steps that keep the operation, the context and the sponsors of a call,   *)
(* and let it wait for less.                                                *)
LEMMA GoingOn ==
  ASSUME ClientInv, SponsorInv, NEW c \in Calls, NEW r,
         calls' = [calls EXCEPT ![c] = r],
         r.op = calls[c].op, r.ctx = calls[c].ctx,
         r.payer = calls[c].payer, r.sponsor = calls[c].sponsor,
         r.st = "build" => calls[c].st = "build",
         "sponsor" \in r.wait <=> "sponsor" \in calls[c].wait,
         r.st = "post" => calls[c].st = "build" /\ calls[c].wait = {},
         r.st = "answer" => calls[c].st = "post",
         UNCHANGED <<fetches, raced, sponsorCache, contexts, sessions>>
  PROVE  SponsorInv'
<1>1. PayersOK(calls[c], sponsorCache, raced) /\ (calls[c].ctx # None => Ready(calls[c].ctx))
  BY DEF SponsorInv, Ready
<1>2. PayersOK(r, sponsorCache, raced)
  BY <1>1 DEF PayersOK, Agreed
<1>3. fetches' \subseteq fetches
  OBVIOUS
<1> QED
  BY <1>1, <1>2, <1>3, SameSessions, OneCallSponsor

LEMMA GoingOnSteps ==
  ASSUME ClientInv, SponsorInv, NEW c \in Calls,
         \/ GetAddressLookupTable(c) \/ GetPaymasterFee(c)
         \/ BuildTransaction(c) \/ Executes(c) \/ ExecutionFails(c)
         \/ GetSessionAccount(c) \/ GetDomainRegistryAuthorizedPrograms(c)
  PROVE  SponsorInv'
<1>1. calls[c] \in Call /\ calls \in [Calls -> Call]
  BY DEF ClientInv, CallsInv
<1>2. UNCHANGED <<fetches, raced, sponsorCache, contexts, sessions>>
  BY DEF GetAddressLookupTable, GetPaymasterFee, BuildTransaction, Executes, ExecutionFails,
     GetSessionAccount, GetDomainRegistryAuthorizedPrograms
<1>3. CASE GetAddressLookupTable(c)
  <2> DEFINE r == [calls[c] EXCEPT !.wait = @ \ {"table"}]
  <2>1. calls' = [calls EXCEPT ![c] = r] /\ calls[c].st = "build"
    BY <1>1, <1>3 DEF GetAddressLookupTable
  <2>2. /\ r.op = calls[c].op /\ r.ctx = calls[c].ctx /\ r.payer = calls[c].payer
        /\ r.sponsor = calls[c].sponsor /\ r.st = calls[c].st
        /\ ("sponsor" \in r.wait <=> "sponsor" \in calls[c].wait)
    BY <1>1 DEF Call
  <2> HIDE DEF r
  <2> QED
    BY <1>2, <2>1, <2>2, GoingOn
<1>4. CASE GetPaymasterFee(c)
  <2> DEFINE t == buildTollboothInstructionIfNeeded(calls[c])
             r == [calls[c] EXCEPT !.wait = @ \ {"fee"}, !.toll = t]
  <2>1. calls' = [calls EXCEPT ![c] = r] /\ calls[c].st = "build"
    BY <1>1, <1>4 DEF GetPaymasterFee
  <2> HIDE DEF t
  <2>2. /\ r.op = calls[c].op /\ r.ctx = calls[c].ctx /\ r.payer = calls[c].payer
        /\ r.sponsor = calls[c].sponsor /\ r.st = calls[c].st
        /\ ("sponsor" \in r.wait <=> "sponsor" \in calls[c].wait)
    BY <1>1 DEF Call
  <2> HIDE DEF r
  <2> QED
    BY <1>2, <2>1, <2>2, GoingOn
<1>5. CASE BuildTransaction(c)
  <2> DEFINE r == [calls[c] EXCEPT !.st = "post"]
  <2>1. calls' = [calls EXCEPT ![c] = r] /\ calls[c].st = "build" /\ calls[c].wait = {}
    BY <1>1, <1>5 DEF BuildTransaction
  <2>2. /\ r.op = calls[c].op /\ r.ctx = calls[c].ctx /\ r.payer = calls[c].payer
        /\ r.sponsor = calls[c].sponsor /\ r.st = "post" /\ r.wait = calls[c].wait
    BY <1>1 DEF Call
  <2> HIDE DEF r
  <2> QED
    BY <1>2, <2>1, <2>2, GoingOn
<1>6. CASE Executes(c)
  <2> DEFINE r == [calls[c] EXCEPT !.st = "answer", !.got = TRUE]
  <2>1. calls' = [calls EXCEPT ![c] = r] /\ calls[c].st = "post"
    BY <1>1, <1>6 DEF Executes
  <2>2. /\ r.op = calls[c].op /\ r.ctx = calls[c].ctx /\ r.payer = calls[c].payer
        /\ r.sponsor = calls[c].sponsor /\ r.st = "answer" /\ r.wait = calls[c].wait
    BY <1>1 DEF Call
  <2> HIDE DEF r
  <2> QED
    BY <1>2, <2>1, <2>2, GoingOn
<1>7. CASE ExecutionFails(c)
  <2> DEFINE r == [calls[c] EXCEPT !.st = "answer"]
  <2>1. calls' = [calls EXCEPT ![c] = r] /\ calls[c].st = "post"
    BY <1>1, <1>7 DEF ExecutionFails
  <2>2. /\ r.op = calls[c].op /\ r.ctx = calls[c].ctx /\ r.payer = calls[c].payer
        /\ r.sponsor = calls[c].sponsor /\ r.st = "answer" /\ r.wait = calls[c].wait
    BY <1>1 DEF Call
  <2> HIDE DEF r
  <2> QED
    BY <1>2, <2>1, <2>2, GoingOn
<1>8. CASE GetSessionAccount(c)
  <2> DEFINE a == chain[calls[c].key]
             r == [calls[c] EXCEPT !.wait = @ \ {"account"}, !.read = a]
  <2>1. calls' = [calls EXCEPT ![c] = r] /\ calls[c].st = "read"
    BY <1>1, <1>8 DEF GetSessionAccount
  <2> HIDE DEF a
  <2>2. /\ r.op = calls[c].op /\ r.ctx = calls[c].ctx /\ r.payer = calls[c].payer
        /\ r.sponsor = calls[c].sponsor /\ r.st = calls[c].st
        /\ ("sponsor" \in r.wait <=> "sponsor" \in calls[c].wait)
    BY <1>1 DEF Call
  <2> HIDE DEF r
  <2> QED
    BY <1>2, <2>1, <2>2, GoingOn
<1>9. CASE GetDomainRegistryAuthorizedPrograms(c)
  <2> DEFINE r == [calls[c] EXCEPT !.wait = @ \ {"registry"}, !.listed = registry]
  <2>1. calls' = [calls EXCEPT ![c] = r] /\ calls[c].st = "read"
    BY <1>1, <1>9 DEF GetDomainRegistryAuthorizedPrograms
  <2>2. /\ r.op = calls[c].op /\ r.ctx = calls[c].ctx /\ r.payer = calls[c].payer
        /\ r.sponsor = calls[c].sponsor /\ r.st = calls[c].st
        /\ ("sponsor" \in r.wait <=> "sponsor" \in calls[c].wait)
    BY <1>1 DEF Call
  <2> HIDE DEF r
  <2> QED
    BY <1>2, <2>1, <2>2, GoingOn
<1> QED
  BY <1>3, <1>4, <1>5, <1>6, <1>7, <1>8, <1>9

LEMMA ReturningSponsor ==
  ASSUME ClientInv, SponsorInv, NEW c \in Calls,
         PaymasterAnswers(c) \/ CreateSession(c) \/ LogInTokenReturns(c)
  PROVE  SponsorInv'
<1>1. calls[c] \in Call /\ CallOK(calls[c], chain, now)
  BY DEF ClientInv, CallsInv
<1>2. PayersOK(calls[c], sponsorCache, raced) /\ (calls[c].ctx # None => Ready(calls[c].ctx))
  BY DEF SponsorInv, Ready
<1>3. CASE PaymasterAnswers(c)
  <2> USE <1>3 DEF PaymasterAnswers
  <2>1. fetches' \subseteq fetches /\ UNCHANGED <<sponsorCache, raced, contexts, sessions>>
    OBVIOUS
  <2>2. CASE calls[c].op = "establish" /\ calls[c].got
    <3> DEFINE r == [calls[c] EXCEPT !.st = "read", !.wait = {"account", "registry"}]
    <3>1. calls' = [calls EXCEPT ![c] = r]
      BY <2>2 DEF ClientInv, CallsInv
    <3>2. /\ r.op = calls[c].op /\ r.ctx = calls[c].ctx /\ r.payer = calls[c].payer
          /\ r.sponsor = calls[c].sponsor /\ r.st = "read" /\ r.wait = {"account", "registry"}
      BY <1>1 DEF Call
    <3> HIDE DEF r
    <3>3. PayersOK(r, sponsorCache, raced) /\ "sponsor" \notin r.wait
      BY <1>2, <3>2 DEF PayersOK, Agreed
    <3> QED
      BY <1>2, <2>1, <3>1, <3>2, <3>3, SameSessions, OneCallSponsor
  <2>3. CASE ~(calls[c].op = "establish" /\ calls[c].got)
    <3> DEFINE res == IF calls[c].got THEN "success" ELSE "failed"
    <3>1. res \in Results /\ Settle(c, res)
      BY <2>3 DEF Results
    <3> HIDE DEF res
    <3> QED
      BY <2>1, <3>1, SameSessions, SettleSponsor
  <2> QED
    BY <2>2, <2>3
<1>4. CASE CreateSession(c)
  <2> DEFINE r == calls[c]
             ok == /\ sessionInfoSchema(r.read)
                   /\ authorizedProgramsMatchDomainRegistry(r.read, r.listed)
             res == IF ok THEN "success"
                    ELSE IF r.op = "establish" THEN "failed" ELSE "undefined"
  <2>1. fetches' \subseteq fetches /\ UNCHANGED <<sponsorCache, raced, contexts>>
    BY <1>4 DEF CreateSession
  <2>2. /\ res \in Results /\ Settle(c, res)
        /\ sessions' = IF ok THEN [sessions EXCEPT ![r.key] = r.ctx] ELSE sessions
    BY <1>4 DEF CreateSession, Results
  <2> HIDE DEF ok, res
  <2>3. \A k \in Keys : sessions'[k] # None => Ready(sessions'[k])
    <3>1. \A k \in Keys : sessions[k] # None => Ready(sessions[k])
      BY DEF SponsorInv, Ready
    <3>2. \A k \in Keys : sessions'[k] \in {sessions[k], r.ctx}
      BY <2>2 DEF ClientInv, HoldingsInv
    <3> QED
      BY <1>2, <3>1, <3>2
  <2> HIDE DEF r
  <2> QED
    BY <2>1, <2>2, <2>3, SettleSponsor
<1>5. CASE LogInTokenReturns(c)
  <2> DEFINE res == IF ~sessionInfoSchema(calls[c].read) THEN "undefined"
                    ELSE IF calls[c].read.expires < now THEN "threw" ELSE "valid"
  <2>1. fetches' \subseteq fetches /\ UNCHANGED <<sponsorCache, raced, contexts, sessions>>
    BY <1>5 DEF LogInTokenReturns
  <2>2. res \in Results /\ Settle(c, res)
    BY <1>5 DEF LogInTokenReturns, Results
  <2> HIDE DEF res
  <2> QED
    BY <2>1, <2>2, SameSessions, SettleSponsor
<1> QED
  BY <1>3, <1>4, <1>5

-----------------------------------------------------------------------------
(* The sponsors of the contexts. *)

(* A step of one context, or of the cache, that leaves the calls alone. *)
LEMMA ContextsSponsor ==
  ASSUME SponsorInv, ClientInv, Grows(sponsorCache, raced, sponsorCache', raced'),
         \A x \in Contexts : ContextOK(contexts'[x], sponsorCache', raced'),
         \A x \in Contexts : contexts[x].st = "ready" => contexts'[x].st = "ready",
         FetchesInv', UNCHANGED <<calls, sessions>>
  PROVE  SponsorInv'
<1>1. \A c \in Calls : PayersOK(calls[c], sponsorCache', raced')
  BY GrowsCall DEF SponsorInv
<1>2. \A c \in Calls : calls[c].ctx # None => contexts'[calls[c].ctx].st = "ready"
  BY DEF SponsorInv, ClientInv, CallsInv, Call
<1>3. \A k \in Keys : sessions[k] # None => contexts'[sessions[k]].st = "ready"
  BY DEF SponsorInv, ClientInv, HoldingsInv
<1>4. (\A c \in Calls : /\ PayersOK(calls[c], sponsorCache, raced)
                        /\ calls[c].ctx # None => contexts[calls[c].ctx].st = "ready")'
  BY <1>1, <1>2
<1>5. (\A k \in Keys : sessions[k] # None => contexts[sessions[k]].st = "ready")'
  BY <1>3
<1>6. (\A x \in Contexts : ContextOK(contexts[x], sponsorCache, raced))'
  OBVIOUS
<1> QED
  BY <1>4, <1>5, <1>6 DEF SponsorInv

LEMMA FewerFetches ==
  ASSUME FetchesInv, fetches' \subseteq fetches, UNCHANGED <<sponsorCache, raced, calls>>
  PROVE  FetchesInv'
BY DEF FetchesInv

LEMMA CreateContextSponsor ==
  ASSUME ClientInv, SponsorInv, NEW x \in Contexts, CreateContext(x)
  PROVE  SponsorInv'
<1> DEFINE st == IF Requests(x, PaymasterDomains) = {} THEN "chainId" ELSE "sponsors"
           y == [st |-> st, payer |-> getSponsor("app"), internal |-> getSponsor("sessions")]
           rs == Requests(x, PaymasterDomains)
<1> USE DEF CreateContext
<1>1. AddRequests(rs)
  OBVIOUS
<1>2. contexts' = [contexts EXCEPT ![x] = y]
  OBVIOUS
<1>3. st = "chainId" => \A d \in PaymasterDomains : sponsorCache[d] # None
  BY DEF Requests, getSponsor
<1>4. st \in {"chainId", "sponsors"}
  OBVIOUS
<1>5. \A f \in rs : /\ f.domain \in PaymasterDomains /\ sponsorCache[f.domain] = None
                    /\ f.who = x /\ f = [who |-> x, domain |-> f.domain]
  BY DEF Requests, getSponsor
<1> HIDE DEF st, rs
<1>6. ContextOK(y, sponsorCache, raced')
  BY <1>3, <1>4 DEF ContextOK, Agreed, getSponsor, PaymasterDomains
<1> HIDE DEF y
<1>7. Grows(sponsorCache, raced, sponsorCache', raced') /\ UNCHANGED <<calls, sessions>>
  BY <1>1 DEF Grows, AddRequests
<1>8. \A z \in Contexts : ContextOK(contexts'[z], sponsorCache', raced')
  <2>1. \A z \in Contexts : ContextOK(contexts[z], sponsorCache', raced')
    BY <1>7, GrowsContext DEF SponsorInv
  <2> QED
    BY <1>2, <1>6, <2>1 DEF ClientInv, WorldInv
<1>9. \A z \in Contexts : contexts[z].st = "ready" => contexts'[z].st = "ready"
  BY <1>2 DEF ClientInv, WorldInv
<1>10. FetchesInv'
  <2>1. x \notin Calls
    BY ClientAssumption
  <2>2. \A f \in fetches' : f \in fetches \/ f.who \notin Calls
    BY <1>1, <1>5, <2>1 DEF AddRequests
  <2>3. (\A f \in fetches : f.who \in Calls /\ "sponsor" \in calls[f.who].wait =>
           f.domain = DomainOf(calls[f.who].op))'
    BY <2>2 DEF SponsorInv, FetchesInv
  <2> QED
    BY <1>1, <1>5, <2>3, RequestsOnce
<1> QED
  BY <1>7, <1>8, <1>9, <1>10, ContextsSponsor

LEMMA NoContextOK ==
  ASSUME NEW cache, NEW race
  PROVE  ContextOK(NoContext, cache, race)
BY DEF ContextOK, Agreed, NoContext

LEMMA FetchChainIdSponsor ==
  ASSUME ClientInv, SponsorInv, NEW x \in Contexts, FetchChainId(x)
  PROVE  SponsorInv'
<1> USE DEF FetchChainId
<1>1. PICK y \in {[contexts[x] EXCEPT !.st = "ready"], NoContext} :
        contexts' = [contexts EXCEPT ![x] = y]
  OBVIOUS
<1>2. contexts[x] \in Context /\ ContextOK(contexts[x], sponsorCache, raced)
  BY DEF ClientInv, WorldInv, SponsorInv
<1>3. ContextOK([contexts[x] EXCEPT !.st = "ready"], sponsorCache, raced)
  BY <1>2 DEF ContextOK, Context
<1>4. ContextOK(y, sponsorCache, raced)
  BY <1>3, NoContextOK
<1>5. \A z \in Contexts : ContextOK(contexts'[z], sponsorCache', raced')
  BY <1>1, <1>4 DEF SponsorInv, ClientInv, WorldInv
<1>6. \A z \in Contexts : contexts[z].st = "ready" => contexts'[z].st = "ready"
  BY <1>1 DEF ClientInv, WorldInv
<1>7. FetchesInv'
  BY FewerFetches DEF SponsorInv
<1>8. Grows(sponsorCache, raced, sponsorCache', raced') /\ UNCHANGED <<calls, sessions>>
  BY DEF Grows
<1> QED
  BY <1>5, <1>6, <1>7, <1>8, ContextsSponsor

LEMMA SponsorFailsSponsor ==
  ASSUME ClientInv, SponsorInv, NEW f \in fetches, SponsorFails(f)
  PROVE  SponsorInv'
<1> USE DEF SponsorFails
<1>1. fetches' \subseteq fetches /\ UNCHANGED <<sponsorCache, raced, sessions>>
  OBVIOUS
<1>2. CASE UNCHANGED calls /\ f.who \in Contexts
           /\ contexts' = [contexts EXCEPT ![f.who] =
                             IF @.st = "sponsors" THEN NoContext ELSE @]
  <2>1. \A z \in Contexts : ContextOK(contexts'[z], sponsorCache', raced')
    BY <1>1, <1>2, NoContextOK DEF SponsorInv, ClientInv, WorldInv
  <2>2. \A z \in Contexts : contexts[z].st = "ready" => contexts'[z].st = "ready"
    BY <1>2 DEF ClientInv, WorldInv
  <2>3. FetchesInv'
    BY <1>1, <1>2, FewerFetches DEF SponsorInv
  <2>4. Grows(sponsorCache, raced, sponsorCache', raced')
    BY <1>1 DEF Grows
  <2> QED
    BY <1>1, <1>2, <2>1, <2>2, <2>3, <2>4, ContextsSponsor
<1>3. CASE f.who \in Calls /\ Settle(f.who, "threw") /\ UNCHANGED contexts
  <2>1. "threw" \in Results
    BY DEF Results
  <2> QED
    BY <1>1, <1>3, <2>1, SameSessions, SettleSponsor
<1>4. CASE UNCHANGED <<calls, contexts>>
  <2>1. FetchesInv'
    BY <1>1, <1>4, FewerFetches DEF SponsorInv
  <2>2. Grows(sponsorCache, raced, sponsorCache', raced')
    BY <1>1 DEF Grows
  <2> QED
    BY <1>1, <1>4, <2>1, <2>2, ContextsSponsor DEF SponsorInv
<1> QED
  BY <1>2, <1>3, <1>4

(* The answer is the first one for its domain, unless requests raced:       *)
(* whoever holds a sponsor of that domain afterwards holds this one.        *)
LEMMA SponsorAnswersSponsor ==
  ASSUME ClientInv, SponsorInv, NEW f \in fetches, NEW s \in live, SponsorAnswers(f, s)
  PROVE  SponsorInv'
<1> USE DEF SponsorAnswers
<1>1. f \in Fetch /\ f.domain \in PaymasterDomains /\ s \in Sponsors /\ s # None
  BY ClientAssumption DEF ClientInv, WorldInv, Fetch
<1>2. f.domain \in raced \/ sponsorCache[f.domain] = None
  BY DEF SponsorInv, FetchesInv
<1>3. \A d \in PaymasterDomains :
        sponsorCache'[d] = IF d = f.domain THEN s ELSE sponsorCache[d]
  BY DEF ClientInv, WorldInv
<1>4. Grows(sponsorCache, raced, sponsorCache', raced') /\ UNCHANGED <<raced, sessions>>
  BY <1>1, <1>2, <1>3 DEF Grows
<1>5. \A g \in fetches' : /\ g \in fetches /\ g.domain \in PaymasterDomains
                          /\ g.domain # f.domain \/ g.domain \in raced
  BY DEF SponsorInv, FetchesInv, ClientInv, WorldInv, Fetch
<1>6. (\A g \in fetches : g.domain \in raced \/ sponsorCache[g.domain] = None)'
  BY <1>3, <1>4, <1>5 DEF SponsorInv, FetchesInv
<1>7. (\A g, h \in fetches : g.domain = h.domain => g.domain \in raced \/ g = h)'
  BY <1>5 DEF SponsorInv, FetchesInv
<1>8. CASE /\ f.who \in Contexts /\ contexts[f.who].st = "sponsors"
           /\ TakeInContext(f.who, f.domain, s) /\ UNCHANGED calls
  <2> DEFINE x == f.who
             y == contexts[x]
             t == Taken(y, f.domain, s)
  <2>1. y \in Context /\ ContextOK(y, sponsorCache, raced) /\ y.st = "sponsors"
    BY <1>8 DEF ClientInv, WorldInv, SponsorInv
  <2>2. contexts' = [contexts EXCEPT ![x] = t]
    BY <1>8 DEF TakeInContext, Taken
  <2>3. /\ t.payer = IF f.domain = "app" THEN s ELSE y.payer
        /\ t.internal = IF f.domain = "app" THEN y.internal ELSE s
        /\ t.st = IF t.payer # None /\ t.internal # None THEN "chainId" ELSE y.st
    BY <1>1, <2>1, TakenType
  <2> HIDE DEF t
  <2>4. ContextOK(y, sponsorCache', raced')
    BY <1>4, <2>1, GrowsContext
  <2>5. sponsorCache'[f.domain] = s /\ f.domain \in {"app", "sessions"}
    BY <1>1, <1>3 DEF PaymasterDomains
  <2> HIDE DEF y, x
  <2>6. ContextOK(t, sponsorCache', raced')
    BY <1>1, <2>1, <2>3, <2>4, <2>5 DEF ContextOK, Agreed
  <2>7. \A z \in Contexts : ContextOK(contexts[z], sponsorCache', raced')
    BY <1>4, GrowsContext DEF SponsorInv
  <2>8. \A z \in Contexts : ContextOK(contexts'[z], sponsorCache', raced')
    BY <2>2, <2>6, <2>7 DEF ClientInv, WorldInv
  <2>9. \A z \in Contexts : contexts[z].st = "ready" => contexts'[z].st = "ready"
    BY <2>1, <2>2 DEF ClientInv, WorldInv, x, y
  <2>10. (\A g \in fetches : g.who \in Calls /\ "sponsor" \in calls[g.who].wait =>
            g.domain = DomainOf(calls[g.who].op))'
    BY <1>5, <1>8 DEF SponsorInv, FetchesInv
  <2>11. FetchesInv'
    BY <1>6, <1>7, <2>10 DEF FetchesInv
  <2> QED
    BY <1>4, <1>8, <2>8, <2>9, <2>11, ContextsSponsor
<1>9. CASE /\ f.who \in Calls /\ "sponsor" \in calls[f.who].wait
           /\ TakeInCall(f.who, s) /\ UNCHANGED contexts
  <2> DEFINE c == f.who
             r == [calls[c] EXCEPT !.payer = s, !.wait = @ \ {"sponsor"}]
  <2>1. calls[c] \in Call /\ PayersOK(calls[c], sponsorCache, raced)
        /\ (calls[c].ctx # None => contexts[calls[c].ctx].st = "ready")
    BY <1>9 DEF ClientInv, CallsInv, SponsorInv
  <2>2. f.domain = DomainOf(calls[c].op)
    BY <1>9 DEF SponsorInv, FetchesInv
  <2>3. calls' = [calls EXCEPT ![c] = r]
    BY <1>9 DEF TakeInCall, ClientInv, CallsInv
  <2>4. /\ r.op = calls[c].op /\ r.ctx = calls[c].ctx /\ r.payer = s
        /\ r.sponsor = calls[c].sponsor /\ r.st = calls[c].st /\ "sponsor" \notin r.wait
    BY <2>1 DEF Call
  <2> HIDE DEF r
  <2>5. /\ sponsorCache'[DomainOf(r.op)] = s
        /\ DomainOf(r.op) \in raced \/ sponsorCache[DomainOf(r.op)] = None
    BY <1>1, <1>2, <1>3, <2>2, <2>4
  <2>6. PayersOK(r, sponsorCache', raced')
    BY <1>1, <1>4, <2>1, <2>4, <2>5 DEF PayersOK, Agreed
  <2>7. \A d \in Calls : calls'[d] = IF d = c THEN r ELSE calls[d]
    BY <1>9, <2>3 DEF ClientInv, CallsInv
  <2>8. \A d \in Calls : PayersOK(calls[d], sponsorCache', raced')
    BY <1>4, GrowsCall DEF SponsorInv
  <2>9. (\A d \in Calls : /\ PayersOK(calls[d], sponsorCache, raced)
                          /\ calls[d].ctx # None => contexts[calls[d].ctx].st = "ready")'
    <3>1. \A d \in Calls : calls[d].ctx # None => contexts[calls[d].ctx].st = "ready"
      BY DEF SponsorInv
    <3> QED
      BY <1>9, <2>1, <2>4, <2>6, <2>7, <2>8, <3>1
  <2>10. (\A g \in fetches : g.who \in Calls /\ "sponsor" \in calls[g.who].wait =>
            g.domain = DomainOf(calls[g.who].op))'
    <3>1. \A g \in fetches : g.who \in Calls /\ "sponsor" \in calls[g.who].wait =>
            g.domain = DomainOf(calls[g.who].op)
      BY DEF SponsorInv, FetchesInv
    <3> QED
      BY <1>5, <2>4, <2>7, <3>1
  <2>11. FetchesInv'
    BY <1>6, <1>7, <2>10 DEF FetchesInv
  <2>12. (\A x \in Contexts : ContextOK(contexts[x], sponsorCache, raced))'
    BY <1>4, <1>9, GrowsContext DEF SponsorInv
  <2>13. (\A k \in Keys : sessions[k] # None => contexts[sessions[k]].st = "ready")'
    BY <1>4, <1>9 DEF SponsorInv
  <2> QED
    BY <2>9, <2>11, <2>12, <2>13 DEF SponsorInv
<1>10. CASE UNCHANGED <<calls, contexts>>
  <2>1. (\A g \in fetches : g.who \in Calls /\ "sponsor" \in calls[g.who].wait =>
           g.domain = DomainOf(calls[g.who].op))'
    BY <1>5, <1>10 DEF SponsorInv, FetchesInv
  <2>2. FetchesInv'
    BY <1>6, <1>7, <2>1 DEF FetchesInv
  <2>3. \A z \in Contexts : ContextOK(contexts'[z], sponsorCache', raced')
    BY <1>4, <1>10, GrowsContext DEF SponsorInv
  <2>4. \A z \in Contexts : contexts[z].st = "ready" => contexts'[z].st = "ready"
    BY <1>10
  <2> QED
    BY <1>4, <1>10, <2>2, <2>3, <2>4, ContextsSponsor
<1> QED
  BY <1>8, <1>9, <1>10

LEMMA SponsorFrame ==
  ASSUME SponsorInv, UNCHANGED <<sponsorCache, fetches, raced, contexts, calls, sessions>>
  PROVE  SponsorInv'
BY DEF SponsorInv, FetchesInv

LEMMA SponsorInit ==
  ASSUME Init
  PROVE  SponsorInv
<1> USE DEF Init
<1>1. Idle.payer = None /\ Idle.sponsor = None /\ Idle.st = "idle" /\ Idle.ctx = None
  BY DEF Idle
<1>2. \A c \in Calls : PayersOK(calls[c], sponsorCache, raced) /\ calls[c].ctx = None
  BY <1>1 DEF PayersOK, Agreed
<1>3. \A x \in Contexts : ContextOK(contexts[x], sponsorCache, raced)
  BY NoContextOK
<1>4. FetchesInv
  BY DEF FetchesInv
<1> QED
  BY <1>2, <1>3, <1>4 DEF SponsorInv

(* No step changes the application. *)
LEMMA SameApp == [Next]_vars => app' = app
<1> SUFFICES ASSUME [Next]_vars PROVE app' = app
  OBVIOUS
<1>1. CASE UNCHANGED vars
  BY <1>1 DEF vars
<1>2. CASE ContextStep
  BY <1>2 DEF ContextStep, CreateContext, FetchChainId, SponsorFails, SponsorAnswers
<1>3. ASSUME NEW c \in Calls, StartStep(c)
      PROVE  app' = app
  BY <1>3 DEF StartStep, EstablishSession, ReestablishSession, SendToPaymaster, SendTransfer,
              RevokeSession, AddSignaturesToExistingTransaction, SendTransaction,
              VerifyLogInToken
<1>4. ASSUME NEW c \in Calls, CallStep(c)
      PROVE  app' = app
  BY <1>4 DEF CallStep, BuildStartSession, SignatureRefused, GetAddressLookupTable,
              GetPaymasterFee, BuildTransaction, BuildFails, PaymasterRejects, Executes,
              ExecutionFails, PaymasterAnswers, AnswerLost, GetSessionAccount,
              GetDomainRegistryAuthorizedPrograms, CreateSession, LogInTokenReturns
<1>5. ASSUME NEW k \in Keys, CreateLogInToken(k)
      PROVE  app' = app
  BY <1>5 DEF CreateLogInToken
<1>6. CASE Environment
  BY <1>6 DEF Environment, Tick, RegistryChanges, SponsorsChange, FeeChanges
<1> QED
  BY <1>1, <1>2, <1>3, <1>4, <1>5, <1>6 DEF Next

LEMMA SponsorStep ==
  ASSUME ClientInv, SponsorInv, app.sponsor = None, [Next]_vars
  PROVE  SponsorInv'
<1>1. CASE UNCHANGED vars
  BY <1>1, SponsorFrame DEF vars, client
<1>2. CASE ContextStep
  <2>1. app.contexts \subseteq Contexts
    BY AppsAssumption DEF ClientInv, WorldInv, App
  <2> QED
    BY <1>2, <2>1, CreateContextSponsor, FetchChainIdSponsor, SponsorFailsSponsor,
       SponsorAnswersSponsor DEF ContextStep
<1>3. ASSUME NEW c \in Calls, StartStep(c)
      PROVE  SponsorInv'
  BY <1>3, StartingSponsor, SendToPaymasterSponsor, SendTransferSponsor,
     RevokeSessionSponsor, PrebuiltSponsor, SendTransactionSponsor,
     VerifyLogInTokenSponsor DEF StartStep
<1>4. ASSUME NEW c \in Calls, CallStep(c)
      PROVE  SponsorInv'
  <2>1. CASE SignatureRefused(c) \/ BuildFails(c) \/ PaymasterRejects(c) \/ AnswerLost(c)
    BY <2>1, SettlingSponsor
  <2>2. CASE BuildStartSession(c)
    BY <2>2, BuildStartSessionSponsor
  <2>3. CASE PaymasterAnswers(c) \/ CreateSession(c) \/ LogInTokenReturns(c)
    BY <2>3, ReturningSponsor
  <2>4. CASE \/ GetAddressLookupTable(c) \/ GetPaymasterFee(c)
             \/ BuildTransaction(c) \/ Executes(c) \/ ExecutionFails(c)
             \/ GetSessionAccount(c) \/ GetDomainRegistryAuthorizedPrograms(c)
    BY <2>4, GoingOnSteps
  <2> QED
    BY <1>4, <2>1, <2>2, <2>3, <2>4 DEF CallStep
<1>5. ASSUME NEW k \in Keys, CreateLogInToken(k)
      PROVE  SponsorInv'
  BY <1>5, SponsorFrame DEF CreateLogInToken
<1>6. CASE Environment
  BY <1>6, SponsorFrame
  DEF Environment, Tick, RegistryChanges, SponsorsChange, FeeChanges, client
<1> QED
  BY <1>1, <1>2, <1>3, <1>4, <1>5, <1>6 DEF Next

(* A transaction is paid for by the sponsor that its instruction names,     *)
(* unless requests for that sponsor have raced or the connection has a      *)
(* sponsor of its own: elsewhere the connection's cache is filled once for  *)
(* each domain, so the sponsor a context captured and the fee payer that    *)
(* buildTransaction finds are the same.                                     *)
THEOREM SponsorPaysFees == Spec => []PayerIsFeePayer
<1> DEFINE Captured == app.sponsor = None => SponsorInv
<1>1. Init => ClientInv /\ Captured
  BY ClientInit, SponsorInit
<1>2. ClientInv /\ Captured /\ [Next]_vars => (ClientInv /\ Captured)'
  BY ClientStep, SponsorStep, SameApp
<1>3. Captured => PayerIsFeePayer
  BY DEF SponsorInv, PayersOK, Agreed, PayerIsFeePayer
<1> QED
  BY <1>1, <1>2, <1>3, PTL DEF Spec

=============================================================================
