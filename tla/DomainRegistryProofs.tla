------------------------ MODULE DomainRegistryProofs ------------------------
(***************************************************************************)
(* Proofs about DomainRegistry for any number of domains, programs and     *)
(* authorities.  NoDuplicates and RecordSurvives are inductive with the    *)
(* types; the refinement of DomainLists needs NoDuplicates, because only   *)
(* then does swap_remove unlist the program it finds.  That rent is        *)
(* conserved needs the types and facts about sums.                         *)
(***************************************************************************)
EXTENDS DomainRegistry, FiniteSetTheorems, TLAPS

TypeInv == /\ config \in Authorities \union {NoAuthority}
           /\ record \in [Domains -> Seq(Programs)]
           /\ owned \in [Domains -> BOOLEAN]
           /\ lamports \in [Domains -> Nat]
           /\ wallet \in [Authorities -> Nat]
           /\ donated \in Nat

RegistryInv == TypeInv /\ NoDuplicates /\ RecordSurvives

(* What a record must hold is a natural number. *)
LEMMA RentType ==
    ASSUME NEW n \in Nat
    PROVE  /\ MinimumBalance(n) \in Nat \ {0}
           /\ AmountRequired(n) \in Nat
           /\ n # 0 => AmountRequired(n) = MinimumBalance(n)
<1>1. n * ItemRent \in Nat
  BY RegistryAssumption
<1> DEFINE x == n * ItemRent
<1> HIDE DEF x
<1>2. x \in Nat
  BY <1>1 DEF x
<1>3. BaseRent + x \in Nat \ {0}
  BY <1>2, RegistryAssumption
<1> QED  BY <1>3 DEF MinimumBalance, AmountRequired, x

(* The indices of an array are 1 up to its length. *)
LEMMA IndexLemma ==
    ASSUME NEW l \in Nat
    PROVE  /\ \A j \in 1 .. l - 1 : j \in 1 .. l /\ l \in 1 .. l /\ j # l
           /\ \A j \in 1 .. l : j # l => j \in 1 .. l - 1
  OBVIOUS

(* What swap_remove does to an array without duplicates. *)
LEMMA SwapRemoveLemma ==
    ASSUME NEW s \in Seq(Programs), NEW n \in DOMAIN s,
           \A i, j \in DOMAIN s : s[i] = s[j] => i = j
    PROVE  /\ SwapRemove(s, n) \in Seq(Programs)
           /\ Len(SwapRemove(s, n)) = Len(s) - 1
           /\ Elements(SwapRemove(s, n)) = Elements(s) \ {s[n]}
           /\ \A i, j \in DOMAIN SwapRemove(s, n) :
                 SwapRemove(s, n)[i] = SwapRemove(s, n)[j] => i = j
<1> DEFINE t == SwapRemove(s, n)
<1>1. Len(s) \in Nat /\ DOMAIN s = 1 .. Len(s) /\ n \in 1 .. Len(s)
  OBVIOUS
<1>2. /\ DOMAIN t = 1 .. Len(s) - 1
      /\ \A j \in 1 .. Len(s) - 1 : t[j] = IF j = n THEN s[Len(s)] ELSE s[j]
  BY DEF SwapRemove
<1>3. \A j \in 1 .. Len(s) - 1 : t[j] \in Programs
  BY <1>1, <1>2
<1>4. t \in Seq(Programs) /\ Len(t) = Len(s) - 1
  <2>1. Len(s) - 1 \in Nat
    BY <1>1
  <2>2. t = [j \in 1 .. Len(s) - 1 |-> t[j]]
    BY <1>2 DEF SwapRemove
  <2> QED  BY <1>2, <1>3, <2>1, <2>2
<1>5. Elements(t) = Elements(s) \ {s[n]}
  <2>1. ASSUME NEW x \in Elements(t)
        PROVE  x \in Elements(s) /\ x # s[n]
    <3>1. PICK j \in 1 .. Len(s) - 1 : x = t[j]
      BY <1>2 DEF Elements
    <3>2. j \in 1 .. Len(s) /\ Len(s) \in 1 .. Len(s) /\ j # Len(s)
      BY <1>1, IndexLemma, Zenon
    <3>3. CASE j = n
      BY <1>1, <1>2, <3>1, <3>2, <3>3 DEF Elements
    <3>4. CASE j # n
      BY <1>1, <1>2, <3>1, <3>2, <3>4 DEF Elements
    <3> QED  BY <3>3, <3>4
  <2>2. ASSUME NEW x \in Elements(s), x # s[n]
        PROVE  x \in Elements(t)
    <3>1. PICK j \in 1 .. Len(s) : x = s[j]
      BY <1>1 DEF Elements
    <3>2. CASE j = Len(s)
      <4>1. n \in 1 .. Len(s) - 1
        BY <1>1, <2>2, <3>1, <3>2
      <4> QED  BY <1>2, <3>1, <3>2, <4>1 DEF Elements
    <3>3. CASE j # Len(s)
      <4>1. j \in 1 .. Len(s) - 1
        BY <1>1, <3>3, IndexLemma, Zenon
      <4>2. j # n
        BY <2>2, <3>1
      <4> QED  BY <1>2, <3>1, <4>1, <4>2 DEF Elements
    <3> QED  BY <3>2, <3>3
  <2> QED  BY <2>1, <2>2
<1>6. ASSUME NEW i \in DOMAIN t, NEW j \in DOMAIN t, t[i] = t[j]
      PROVE  i = j
  <2>1. /\ i \in 1 .. Len(s) /\ i # Len(s)
        /\ j \in 1 .. Len(s) /\ j # Len(s)
        /\ Len(s) \in 1 .. Len(s)
    BY <1>1, <1>2
  <2>2. CASE i = n /\ j # n
    BY <1>1, <1>2, <1>6, <2>1, <2>2
  <2>3. CASE j = n /\ i # n
    BY <1>1, <1>2, <1>6, <2>1, <2>3
  <2>4. CASE i # n /\ j # n
    BY <1>1, <1>2, <1>6, <2>1, <2>4
  <2> QED  BY <2>2, <2>3, <2>4
<1> QED  BY <1>4, <1>5, <1>6

(* What push does to an array that does not hold the program yet. *)
LEMMA AppendLemma ==
    ASSUME NEW s \in Seq(Programs), NEW p \in Programs, p \notin Elements(s),
           \A i, j \in DOMAIN s : s[i] = s[j] => i = j
    PROVE  /\ Append(s, p) \in Seq(Programs)
           /\ Len(Append(s, p)) = Len(s) + 1
           /\ Elements(Append(s, p)) = Elements(s) \union {p}
           /\ \A i, j \in DOMAIN Append(s, p) :
                 Append(s, p)[i] = Append(s, p)[j] => i = j
<1> DEFINE t == Append(s, p)
<1>1. /\ t \in Seq(Programs)
      /\ Len(t) = Len(s) + 1
      /\ Len(s) \in Nat
      /\ DOMAIN s = 1 .. Len(s)
      /\ DOMAIN t = 1 .. Len(s) + 1
      /\ \A j \in 1 .. Len(s) : t[j] = s[j]
      /\ t[Len(s) + 1] = p
  OBVIOUS
<1>2. \A j \in 1 .. Len(s) : s[j] # p
  BY <1>1 DEF Elements
<1> HIDE DEF t
<1>3. Elements(t) = Elements(s) \union {p}
  <2>1. ASSUME NEW x \in Elements(t)
        PROVE  x \in Elements(s) \union {p}
    BY <1>1, <2>1 DEF Elements
  <2>2. ASSUME NEW x \in Elements(s)
        PROVE  x \in Elements(t)
    <3>1. PICK j \in 1 .. Len(s) : x = s[j]
      BY <1>1 DEF Elements
    <3>2. j \in 1 .. Len(s) + 1
      BY <1>1
    <3> QED  BY <1>1, <3>1, <3>2 DEF Elements
  <2>3. p \in Elements(t)
    <3>1. Len(s) + 1 \in 1 .. Len(s) + 1
      BY <1>1
    <3> QED  BY <1>1, <3>1 DEF Elements
  <2> QED  BY <2>1, <2>2, <2>3
<1>4. ASSUME NEW i \in DOMAIN t, NEW j \in DOMAIN t, t[i] = t[j]
      PROVE  i = j
  <2>1. CASE i = Len(s) + 1 /\ j # Len(s) + 1
    BY <1>1, <1>2, <1>4, <2>1
  <2>2. CASE j = Len(s) + 1 /\ i # Len(s) + 1
    BY <1>1, <1>2, <1>4, <2>2
  <2>3. CASE i # Len(s) + 1 /\ j # Len(s) + 1
    <3>1. i \in 1 .. Len(s) /\ j \in 1 .. Len(s)
      BY <1>1, <2>3
    <3> QED  BY <1>1, <1>4, <3>1
  <2> QED  BY <2>1, <2>2, <2>3
<1> QED  BY <1>1, <1>3, <1>4 DEF t

-----------------------------------------------------------------------------
(* Resizing keeps the types, and leaves the record able to pay its rent. *)
LEMMA ResizeLemma ==
    ASSUME TypeInv, NEW a \in Authorities, NEW d \in Domains,
           NEW s \in Seq(Programs), Resize(a, d, s)
    PROVE  /\ record' = [record EXCEPT ![d] = s]
           /\ lamports' = [lamports EXCEPT ![d] = AmountRequired(Len(s))]
           /\ lamports' \in [Domains -> Nat]
           /\ wallet' \in [Authorities -> Nat]
           /\ record' \in [Domains -> Seq(Programs)]
<1> DEFINE required == AmountRequired(Len(s))
<1>1. required \in Nat
  BY RentType
<1>2. /\ wallet[a] + (lamports[d] - required) >= 0
      /\ record' = [record EXCEPT ![d] = s]
      /\ lamports' = [lamports EXCEPT ![d] = @ - (lamports[d] - required)]
      /\ wallet' = [wallet EXCEPT ![a] = @ + (lamports[d] - required)]
  BY DEF Resize
<1> HIDE DEF required
<1>3. lamports[d] \in Nat /\ wallet[a] \in Nat
  BY DEF TypeInv
<1>4. lamports[d] - (lamports[d] - required) = required
  BY <1>1, <1>3
<1>5. wallet[a] + (lamports[d] - required) \in Nat
  BY <1>1, <1>2, <1>3
<1>6. lamports' = [lamports EXCEPT ![d] = required]
  BY <1>2, <1>4
<1>7. /\ lamports' \in [Domains -> Nat]
      /\ wallet' \in [Authorities -> Nat]
      /\ record' \in [Domains -> Seq(Programs)]
  BY <1>1, <1>2, <1>5, <1>6 DEF TypeInv
<1> QED  BY <1>2, <1>6, <1>7 DEF required

(* A resized record without duplicates keeps the invariant. *)
LEMMA ResizeStep ==
    ASSUME RegistryInv, NEW a \in Authorities, NEW d \in Domains,
           NEW s \in Seq(Programs), Resize(a, d, s),
           \A i, j \in DOMAIN s : s[i] = s[j] => i = j,
           owned' \in [Domains -> BOOLEAN],
           \A e \in Domains : owned[e] => owned'[e],
           s # << >> => owned'[d],
           UNCHANGED << config, donated >>
    PROVE  RegistryInv'
<1>1. /\ record' = [record EXCEPT ![d] = s]
      /\ lamports' = [lamports EXCEPT ![d] = AmountRequired(Len(s))]
      /\ lamports' \in [Domains -> Nat]
      /\ wallet' \in [Authorities -> Nat]
      /\ record' \in [Domains -> Seq(Programs)]
  BY ResizeLemma DEF RegistryInv
<1>2. TypeInv'
  BY <1>1 DEF RegistryInv, TypeInv
<1>3. NoDuplicates'
  BY <1>1 DEF RegistryInv, NoDuplicates, TypeInv
<1>4. RecordSurvives'
  <2> SUFFICES ASSUME NEW e \in Domains, record'[e] # << >>
               PROVE  owned'[e] /\ lamports'[e] >= MinimumBalance(Len(record'[e]))
    BY DEF RecordSurvives
  <2>1. CASE e = d
    <3>1. record'[e] = s /\ lamports'[e] = AmountRequired(Len(s))
      BY <1>1, <2>1 DEF RegistryInv, TypeInv
    <3>2. Len(s) \in Nat /\ Len(s) # 0
      BY <3>1
    <3>3. /\ AmountRequired(Len(s)) = MinimumBalance(Len(s))
          /\ MinimumBalance(Len(s)) \in Nat
      BY <3>2, RentType
    <3> QED  BY <2>1, <3>1, <3>3
  <2>2. CASE e # d
    <3>1. record'[e] = record[e] /\ lamports'[e] = lamports[e]
      BY <1>1, <2>2 DEF RegistryInv, TypeInv
    <3> QED  BY <3>1 DEF RegistryInv, RecordSurvives
  <2> QED  BY <2>1, <2>2
<1> QED  BY <1>2, <1>3, <1>4 DEF RegistryInv

(* The registry starts without records, so the invariant holds. *)
LEMMA RegistryInit == Init => RegistryInv
  BY RegistryAssumption
     DEF Init, RegistryInv, TypeInv, NoDuplicates, RecordSurvives

(* Every instruction, lamport transfer and reaping keeps the invariant. *)
LEMMA RegistryStep == RegistryInv /\ [Next]_vars => RegistryInv'
<1> SUFFICES ASSUME RegistryInv, [Next]_vars
             PROVE  RegistryInv'
  OBVIOUS
<1>1. ASSUME NEW a \in Authorities, NEW b \in Authorities,
             Initialize(a) \/ UpdateAuthority(a, b)
      PROVE  RegistryInv'
  BY <1>1 DEF Initialize, UpdateAuthority, HasAuthority, RegistryInv, TypeInv, NoDuplicates,
              RecordSurvives
<1>2. ASSUME NEW a \in Authorities, NEW d \in Domains, NEW p \in Programs,
             AddProgram(a, d, p)
      PROVE  RegistryInv'
  <2>1. record[d] \in Seq(Programs) /\ p \notin Elements(record[d])
    BY <1>2 DEF AddProgram, HasAuthority, CreateRecordIfNeeded, Contains, RegistryInv, TypeInv
  <2>2. /\ Append(record[d], p) \in Seq(Programs)
        /\ \A i, j \in DOMAIN Append(record[d], p) :
              Append(record[d], p)[i] = Append(record[d], p)[j] => i = j
    BY <2>1, AppendLemma DEF RegistryInv, NoDuplicates
  <2>3. /\ owned' \in [Domains -> BOOLEAN]
        /\ \A e \in Domains : owned[e] => owned'[e]
        /\ owned'[d]
    BY <1>2 DEF AddProgram, HasAuthority, CreateRecordIfNeeded, RegistryInv, TypeInv
  <2> QED  BY <1>2, <2>2, <2>3, ResizeStep DEF AddProgram, HasAuthority, CreateRecordIfNeeded
<1>3. ASSUME NEW a \in Authorities, NEW d \in Domains, NEW p \in Programs,
             RemoveProgram(a, d, p)
      PROVE  RegistryInv'
  <2>1. PICK n \in DOMAIN record[d] :
            record[d][n] = p /\ Resize(a, d, SwapRemove(record[d], n))
    BY <1>3 DEF RemoveProgram, HasAuthority
  <2>2. record[d] \in Seq(Programs)
    BY DEF RegistryInv, TypeInv
  <2>3. /\ SwapRemove(record[d], n) \in Seq(Programs)
        /\ \A i, j \in DOMAIN SwapRemove(record[d], n) :
              SwapRemove(record[d], n)[i] = SwapRemove(record[d], n)[j] => i = j
    BY <2>1, <2>2, SwapRemoveLemma DEF RegistryInv, NoDuplicates
  <2>4. owned[d] /\ owned' = owned /\ UNCHANGED << config, donated >>
    BY <1>3, <2>1, <2>2 DEF RemoveProgram, HasAuthority, RegistryInv, RecordSurvives
  <2>5. owned' \in [Domains -> BOOLEAN]
    BY <2>4 DEF RegistryInv, TypeInv
  <2> QED  BY <2>1, <2>3, <2>4, <2>5, ResizeStep
<1>4. ASSUME NEW d \in Domains, Donate(d)
      PROVE  RegistryInv'
  <2>1. /\ lamports' \in [Domains -> Nat]
        /\ \A e \in Domains : lamports'[e] >= lamports[e]
    BY <1>4 DEF Donate, RegistryInv, TypeInv
  <2>2. UNCHANGED << config, record, owned, wallet >> /\ donated' \in Nat
    BY <1>4 DEF Donate, RegistryInv, TypeInv
  <2>3. \A e \in Domains : /\ lamports[e] \in Nat
                           /\ MinimumBalance(Len(record[e])) \in Nat
    <3>1. \A e \in Domains : Len(record[e]) \in Nat
      BY DEF RegistryInv, TypeInv
    <3> QED  BY <3>1, RentType DEF RegistryInv, TypeInv
  <2>4. RecordSurvives'
    BY <2>1, <2>2, <2>3 DEF RegistryInv, RecordSurvives
  <2> QED  BY <2>1, <2>2, <2>4 DEF RegistryInv, TypeInv, NoDuplicates
<1>5. ASSUME NEW d \in Domains, Reap(d)
      PROVE  RegistryInv'
  <2>1. /\ UNCHANGED << config, lamports, wallet, donated >>
        /\ owned' = [owned EXCEPT ![d] = FALSE]
        /\ record' = [record EXCEPT ![d] = << >>]
    BY <1>5 DEF Reap
  <2>2. TypeInv'
    BY <2>1 DEF RegistryInv, TypeInv
  <2>3. NoDuplicates'
    BY <2>1 DEF RegistryInv, TypeInv, NoDuplicates
  <2>4. RecordSurvives'
    BY <2>1 DEF RegistryInv, TypeInv, RecordSurvives
  <2> QED  BY <2>2, <2>3, <2>4 DEF RegistryInv
<1>6. CASE UNCHANGED vars
  BY <1>6 DEF vars, RegistryInv, TypeInv, NoDuplicates, RecordSurvives
<1> QED  BY <1>1, <1>2, <1>3, <1>4, <1>5, <1>6 DEF Next

(* The inductive invariant of the registry: typed, without duplicates, and *)
(* every record that lists programs owned and rent paid.                   *)
THEOREM RegistryInvariance == Spec => []RegistryInv
  BY RegistryInit, RegistryStep, PTL DEF Spec

(* No sequence of add_program and remove_program lists a program twice. *)
THEOREM NeverDuplicates == Spec => []NoDuplicates
<1>1. RegistryInv => NoDuplicates
  BY DEF RegistryInv
<1> QED  BY <1>1, RegistryInvariance, PTL

(* A record that lists programs can always pay its rent. *)
THEOREM RecordsSurvive == Spec => []RecordSurvives
<1>1. RegistryInv => RecordSurvives
  BY DEF RegistryInv
<1> QED  BY <1>1, RegistryInvariance, PTL

-----------------------------------------------------------------------------
Abstract == [d \in Domains |-> Elements(record[d])]

(* Replacing one array changes one abstract list. *)
LEMMA AbstractResize ==
    ASSUME TypeInv, NEW d \in Domains, NEW s, record' = [record EXCEPT ![d] = s]
    PROVE  Abstract' = [Abstract EXCEPT ![d] = Elements(s)]
  BY DEF TypeInv, Abstract

(* No record means an empty list. *)
LEMMA ListsInit == Init => Lists!LInit
<1> SUFFICES ASSUME Init PROVE Lists!LInit
  OBVIOUS
<1>1. Elements(<< >>) = {}
  BY DEF Elements
<1> QED  BY <1>1 DEF Init, Lists!LInit

(* Each instruction changes the abstract list by one program, or not at    *)
(* all.                                                                    *)
LEMMA ListsStep == RegistryInv /\ [Next]_vars => [Lists!LNext]_(Lists!lvars)
<1> SUFFICES ASSUME RegistryInv, [Next]_vars
             PROVE  Lists!LNext \/ UNCHANGED << config, Abstract >>
  BY DEF Lists!lvars, Abstract
<1>1. ASSUME NEW a \in Authorities, NEW b \in Authorities,
             Initialize(a) \/ UpdateAuthority(a, b)
      PROVE  Lists!LNext
  <2>1. Lists!LHandOver
    BY <1>1 DEF Initialize, UpdateAuthority, HasAuthority, Lists!LHandOver
  <2> QED  BY <2>1 DEF Lists!LNext
<1>2. ASSUME NEW a \in Authorities, NEW d \in Domains, NEW p \in Programs,
             AddProgram(a, d, p)
      PROVE  Lists!LNext
  <2>1. /\ record[d] \in Seq(Programs)
        /\ p \notin Elements(record[d])
        /\ record' = [record EXCEPT ![d] = Append(record[d], p)]
        /\ config # NoAuthority
        /\ config' = config
    BY <1>2, RegistryAssumption
       DEF AddProgram, HasAuthority, CreateRecordIfNeeded, Contains, Resize, RegistryInv, TypeInv
  <2>2. Elements(Append(record[d], p)) = Elements(record[d]) \union {p}
    BY <2>1, AppendLemma DEF RegistryInv, NoDuplicates
  <2>3. Abstract' = [Abstract EXCEPT ![d] = Elements(record[d]) \union {p}]
    BY <2>1, <2>2, AbstractResize DEF RegistryInv
  <2>4. Lists!LAdd(d, p)
    BY <2>1, <2>3 DEF Lists!LAdd, Abstract
  <2> QED  BY <2>4 DEF Lists!LNext
<1>3. ASSUME NEW a \in Authorities, NEW d \in Domains, NEW p \in Programs,
             RemoveProgram(a, d, p)
      PROVE  Lists!LNext
  <2>1. PICK n \in DOMAIN record[d] :
            record[d][n] = p /\ Resize(a, d, SwapRemove(record[d], n))
    BY <1>3 DEF RemoveProgram, HasAuthority
  <2>2. /\ record[d] \in Seq(Programs)
        /\ record' = [record EXCEPT ![d] = SwapRemove(record[d], n)]
        /\ config # NoAuthority
        /\ config' = config
    BY <1>3, <2>1, RegistryAssumption
       DEF RemoveProgram, HasAuthority, Resize, RegistryInv, TypeInv
  <2>3. Elements(SwapRemove(record[d], n)) = Elements(record[d]) \ {p}
    BY <2>1, <2>2, SwapRemoveLemma DEF RegistryInv, NoDuplicates
  <2>4. Abstract' = [Abstract EXCEPT ![d] = Elements(record[d]) \ {p}]
    BY <2>2, <2>3, AbstractResize DEF RegistryInv
  <2>5. p \in Elements(record[d])
    BY <2>1 DEF Elements
  <2>6. Lists!LRemove(d, p)
    BY <2>2, <2>4, <2>5 DEF Lists!LRemove, Abstract
  <2> QED  BY <2>6 DEF Lists!LNext
<1>4. ASSUME NEW d \in Domains, Donate(d)
      PROVE  UNCHANGED << config, Abstract >>
  BY <1>4 DEF Donate, Abstract
<1>5. ASSUME NEW d \in Domains, Reap(d)
      PROVE  UNCHANGED << config, Abstract >>
  <2>1. Len(record[d]) \in Nat /\ lamports[d] = 0
    BY <1>5 DEF Reap, RegistryInv, TypeInv
  <2>2. MinimumBalance(Len(record[d])) \in Nat \ {0}
    BY <2>1, RentType
  <2>3. record[d] = << >>
    BY <2>1, <2>2 DEF RegistryInv, RecordSurvives
  <2>4. record' = record
    BY <1>5, <2>3 DEF Reap, RegistryInv, TypeInv
  <2> QED  BY <1>5, <2>4 DEF Reap, Abstract
<1>6. CASE UNCHANGED vars
  BY <1>6 DEF vars, Abstract
<1> QED  BY <1>1, <1>2, <1>3, <1>4, <1>5, <1>6 DEF Next

(* A removal unlists exactly the program it names. *)
THEOREM RemovalIsExact == Spec => RemoveUnlists
<1>1. ASSUME RegistryInv, NEW a \in Authorities, NEW d \in Domains, NEW p \in Programs,
             RemoveProgram(a, d, p)
      PROVE  Elements(record'[d]) = Elements(record[d]) \ {p}
  <2>1. PICK n \in DOMAIN record[d] :
            record[d][n] = p /\ Resize(a, d, SwapRemove(record[d], n))
    BY <1>1 DEF RemoveProgram
  <2>2. record[d] \in Seq(Programs) /\ record'[d] = SwapRemove(record[d], n)
    BY <1>1, <2>1 DEF Resize, RegistryInv, TypeInv
  <2> QED
    BY <1>1, <2>1, <2>2, SwapRemoveLemma DEF RegistryInv, NoDuplicates
<1>2. RegistryInv /\ [Next]_vars =>
         [\A a \in Authorities, d \in Domains, p \in Programs :
             RemoveProgram(a, d, p) =>
                 Elements(record'[d]) = Elements(record[d]) \ {p}]_vars
  BY <1>1
<1> QED
  BY <1>2, RegistryInvariance, PTL DEF Spec, RemoveUnlists

(* The registry implements the sets of programs the session manager reads: *)
(* they change by one program at a time, and a record that vanishes with   *)
(* its last program, or is created again, loses and revives nothing.       *)
THEOREM RegistryRefinement == Spec => ImplementsLists
  BY ListsInit, ListsStep, RegistryInvariance, PTL
     DEF Spec, ImplementsLists, Lists!LSpec

-----------------------------------------------------------------------------
(***************************************************************************)
(* Rent is conserved.  The facts about sums are those that                 *)
(* SessionManagerProofs explains, as far as a change of one balance needs  *)
(* them.                                                                   *)
(***************************************************************************)
(* Every nonempty collection of subsets of a finite set has a smallest one. *)
LEMMA SmallestSubset ==
    ASSUME NEW S, IsFiniteSet(S), NEW C \in SUBSET (SUBSET S), C # {}
    PROVE  \E T \in C : \A U \in SUBSET T : U # T => U \notin C
<1>1. IsWellFoundedOn(StrictSubsetOrdering(S), SUBSET S)
  BY FS_StrictSubsetOrderingWellFounded, FS_FiniteSubsetsOfFinite
<1>2. PICK T \in C : \A U \in C : ~ (<<U, T>> \in StrictSubsetOrdering(S))
  BY <1>1, WFMin
<1> QED  BY <1>2 DEF StrictSubsetOrdering

LEMMA LeastNumber ==
    ASSUME NEW N \in SUBSET Nat, N # {}
    PROVE  \E n \in N : \A m \in N : n <= m
<1>1. PICK n \in N : \A m \in N : ~ (<<m, n>> \in OpToRel(<, Nat))
  BY NatLessThanWellFounded, WFMin, Zenon
<1>2. \A m \in N : ~ (m < n)
  BY <1>1 DEF OpToRel
<1> QED  BY <1>2

(* The recursion of the sum, for the subsets of S up to a size. *)
Pick(s) == CHOOSE x \in s : TRUE

UpTo(S, n) == {s \in SUBSET S : Cardinality(s) <= n}

AddsUp(g, f, D) ==
    \A s \in D : g[s] = IF s = {} THEN 0 ELSE f[Pick(s)] + g[s \ {Pick(s)}]

Sums(g, f, D) == g \in [D -> Int] /\ AddsUp(g, f, D)

LEMMA PickIn == ASSUME NEW s, s # {} PROVE Pick(s) \in s
  BY DEF Pick

LEMMA SumsExist ==
    ASSUME NEW S, IsFiniteSet(S), NEW f, \A x \in S : f[x] \in Int
    PROVE  \E g : Sums(g, f, SUBSET S)
<1> DEFINE N == {n \in Nat : ~ \E g : Sums(g, f, UpTo(S, n))}
<1>1. N = {}
  <2> SUFFICES ASSUME N # {} PROVE FALSE
    OBVIOUS
  <2>1. PICK n \in N : \A m \in N : n <= m
    BY LeastNumber
  <2>2. n \in Nat /\ ~ \E g : Sums(g, f, UpTo(S, n))
    OBVIOUS
  <2> HIDE DEF N
  <2>3. \A s \in SUBSET S : IsFiniteSet(s) /\ Cardinality(s) \in Nat
                            /\ (Cardinality(s) = 0 => s = {})
    BY FS_Subset, FS_CardinalityType, FS_EmptySet
  <2>4. \A s \in SUBSET S : s # {} =>
          /\ Pick(s) \in S /\ s \ {Pick(s)} \in SUBSET S
          /\ Cardinality(s \ {Pick(s)}) = Cardinality(s) - 1
    BY <2>3, PickIn, FS_RemoveElement
  <2>5. CASE n = 0
    <3> DEFINE g == [s \in UpTo(S, 0) |-> 0]
    <3>1. \A s \in UpTo(S, 0) : s = {}
      BY <2>3 DEF UpTo
    <3>2. Sums(g, f, UpTo(S, 0))
      BY <3>1 DEF Sums, AddsUp
    <3> QED  BY <2>2, <2>5, <3>2
  <2>6. CASE n # 0
    <3>1. n - 1 \in Nat /\ n - 1 \notin N
      BY <2>1, <2>2, <2>6
    <3>2. PICK h : Sums(h, f, UpTo(S, n - 1))
      BY <3>1 DEF N
    <3> DEFINE g == [s \in UpTo(S, n) |->
                        IF s = {} THEN 0 ELSE f[Pick(s)] + h[s \ {Pick(s)}]]
    <3>3. \A s \in UpTo(S, n) : s # {} =>
            Pick(s) \in S /\ s \ {Pick(s)} \in UpTo(S, n - 1)
                          /\ s \ {Pick(s)} \in UpTo(S, n)
      BY <2>2, <2>3, <2>4 DEF UpTo
    <3>4. \A s \in UpTo(S, n - 1) : s \in UpTo(S, n) /\ h[s] \in Int
            /\ h[s] = IF s = {} THEN 0 ELSE f[Pick(s)] + h[s \ {Pick(s)}]
      BY <2>2, <2>3, <3>2 DEF UpTo, Sums, AddsUp
    <3>5. \A s \in UpTo(S, n - 1) : g[s] = h[s]
      BY <3>4
    <3>6. g \in [UpTo(S, n) -> Int]
      <4>1. ASSUME NEW s \in UpTo(S, n), s # {}
            PROVE  f[Pick(s)] + h[s \ {Pick(s)}] \in Int
        <5>1. f[Pick(s)] \in Int
          BY <3>3, <4>1
        <5>2. h[s \ {Pick(s)}] \in Int
          BY <3>3, <3>4, <4>1
        <5> QED  BY <5>1, <5>2
      <4> QED  BY <4>1
    <3>7. \A s \in UpTo(S, n) : g[s] = IF s = {} THEN 0 ELSE f[Pick(s)] + g[s \ {Pick(s)}]
      BY <3>3, <3>5
    <3> HIDE DEF g
    <3> QED  BY <2>2, <3>6, <3>7 DEF Sums, AddsUp
  <2> QED  BY <2>5, <2>6
<1>2. Cardinality(S) \in Nat /\ \A s \in SUBSET S : Cardinality(s) <= Cardinality(S)
  BY FS_Subset, FS_CardinalityType
<1>3. UpTo(S, Cardinality(S)) = SUBSET S
  BY <1>2 DEF UpTo
<1> QED  BY <1>1, <1>2, <1>3

(* Two sums agree where the functions agree. *)
LEMMA SumsAgree ==
    ASSUME NEW S, IsFiniteSet(S), NEW f, NEW g, NEW h,
           AddsUp(g, f, SUBSET S), AddsUp(h, f, SUBSET S)
    PROVE  \A s \in SUBSET S : g[s] = h[s]
<1> DEFINE C == {s \in SUBSET S : g[s] # h[s]}
<1> SUFFICES ASSUME C # {} PROVE FALSE
  OBVIOUS
<1>0. C \in SUBSET (SUBSET S)
  OBVIOUS
<1>1. PICK T \in C : \A U \in SUBSET T : U # T => U \notin C
  <2> HIDE DEF C
  <2> QED  BY <1>0, SmallestSubset
<1>2. T # {}
  BY DEF AddsUp
<1>3. Pick(T) \in T
  BY <1>2, PickIn
<1>4. g[T \ {Pick(T)}] = h[T \ {Pick(T)}]
  BY <1>1, <1>3
<1> QED  BY <1>2, <1>4 DEF AddsUp

LEMMA SumIs ==
    ASSUME NEW S, IsFiniteSet(S), NEW f, \A x \in S : f[x] \in Int,
           NEW g, Sums(g, f, SUBSET S)
    PROVE  SumOver(f, S) = g[S]
<1> DEFINE Rec(h) == h = [s \in SUBSET S |->
                           IF s = {} THEN 0 ELSE f[Pick(s)] + h[s \ {Pick(s)}]]
           h == CHOOSE e : Rec(e)
<1>1. SumOver(f, S) = h[S]
  BY DEF SumOver, MapThenSumSet, MapThenFoldSet, Pick
<1>2. Rec(g)
  BY DEF Sums, AddsUp
<1>3. Rec(h)
  BY <1>2
<1>4. AddsUp(h, f, SUBSET S)
  <2> HIDE DEF h
  <2> QED  BY <1>3 DEF AddsUp
<1> HIDE DEF h
<1>5. \A s \in SUBSET S : g[s] = h[s]
  BY <1>4, SumsAgree DEF Sums
<1> QED  BY <1>1, <1>5

IntOn(f, S) == IsFiniteSet(S) /\ \A x \in S : f[x] \in Int

(* One value changes. *)
LEMMA SumUpdate ==
    ASSUME NEW S, NEW f, NEW h, IntOn(f, S), IntOn(h, S), NEW x \in S,
           \A y \in S \ {x} : h[y] = f[y]
    PROVE  /\ SumOver(f, S) \in Int
           /\ SumOver(h, S) = SumOver(f, S) + (h[x] - f[x])
<1>0. IsFiniteSet(S) /\ \A y \in S : f[y] \in Int /\ h[y] \in Int
  BY DEF IntOn
<1>1. PICK G : Sums(G, f, SUBSET S)
  BY <1>0, SumsExist
<1>2. PICK H : Sums(H, h, SUBSET S)
  BY <1>0, SumsExist
<1>3. SumOver(f, S) = G[S] /\ SumOver(h, S) = H[S] /\ G[S] \in Int
  BY <1>0, <1>1, <1>2, SumIs DEF Sums
<1> DEFINE d == h[x] - f[x]
           more(s) == IF x \in s THEN d ELSE 0
           C == {s \in SUBSET S : H[s] # G[s] + more(s)}
<1>4. C = {}
  <2> SUFFICES ASSUME C # {} PROVE FALSE
    OBVIOUS
  <2>1. C \in SUBSET (SUBSET S)
    OBVIOUS
  <2>2. PICK T \in C : \A U \in SUBSET T : U # T => U \notin C
    <3> HIDE DEF C
    <3> QED  BY <1>0, <2>1, SmallestSubset
  <2>3. T \in SUBSET S /\ H[T] # G[T] + more(T)
    OBVIOUS
  <2>4. T # {}
    <3>1. SUFFICES ASSUME T = {} PROVE FALSE
      OBVIOUS
    <3>2. G[T] = 0 /\ H[T] = 0 /\ more(T) = 0
      BY <1>1, <1>2, <2>3, <3>1 DEF Sums, AddsUp
    <3> QED  BY <2>3, <3>2
  <2> DEFINE p == Pick(T)
             W == T \ {p}
  <2>5. p \in T /\ W \in SUBSET S /\ W \notin C
    BY <2>2, <2>3, <2>4, PickIn
  <2>6. H[W] = G[W] + more(W)
    BY <2>5
  <2>7. /\ G[T] = f[p] + G[W] /\ H[T] = h[p] + H[W] /\ G[W] \in Int
    BY <1>1, <1>2, <2>3, <2>4, <2>5 DEF Sums, AddsUp
  <2>8. f[p] \in Int /\ h[p] \in Int /\ d \in Int
    BY <1>0, <2>3, <2>5
  <2>9. CASE p = x
    <3>1. x \notin W /\ x \in T
      BY <2>5, <2>9
    <3> HIDE DEF p, W, C
    <3> QED  BY <2>3, <2>6, <2>7, <2>8, <2>9, <3>1
  <2>10. CASE p # x
    <3>1. h[p] = f[p] /\ (x \in W <=> x \in T)
      BY <2>3, <2>5, <2>10
    <3> HIDE DEF p, W, C, d
    <3> QED  BY <2>3, <2>6, <2>7, <2>8, <3>1
  <2> QED  BY <2>9, <2>10
<1>5. H[S] = G[S] + more(S)
  BY <1>4
<1> QED  BY <1>3, <1>5

(* All values are the same. *)
LEMMA SumOfConstant ==
    ASSUME NEW S, IsFiniteSet(S), NEW f, NEW c \in Int, \A x \in S : f[x] = c
    PROVE  SumOver(f, S) = Cardinality(S) * c
<1>1. PICK G : Sums(G, f, SUBSET S)
  BY SumsExist
<1>2. SumOver(f, S) = G[S]
  BY <1>1, SumIs
<1> DEFINE C == {s \in SUBSET S : G[s] # Cardinality(s) * c}
<1>3. C = {}
  <2> SUFFICES ASSUME C # {} PROVE FALSE
    OBVIOUS
  <2>1. C \in SUBSET (SUBSET S)
    OBVIOUS
  <2>2. PICK T \in C : \A U \in SUBSET T : U # T => U \notin C
    <3> HIDE DEF C
    <3> QED  BY <2>1, SmallestSubset
  <2>3. T \in SUBSET S /\ G[T] # Cardinality(T) * c /\ IsFiniteSet(T)
    BY FS_Subset
  <2>4. T # {}
    <3>1. SUFFICES ASSUME T = {} PROVE FALSE
      OBVIOUS
    <3>2. G[T] = 0
      BY <1>1, <2>3, <3>1 DEF Sums, AddsUp
    <3>3. Cardinality(T) = 0 /\ 0 * c = 0
      BY <3>1, FS_EmptySet
    <3> QED  BY <2>3, <3>2, <3>3
  <2> DEFINE W == T \ {Pick(T)}
  <2>5. Pick(T) \in T /\ W \in SUBSET S /\ W \notin C
    BY <2>2, <2>3, <2>4, PickIn
  <2>6. G[W] = Cardinality(W) * c
    BY <2>5
  <2>7. G[T] = c + G[W]
    BY <1>1, <2>3, <2>4, <2>5 DEF Sums, AddsUp
  <2>8. Cardinality(W) = Cardinality(T) - 1 /\ Cardinality(T) \in Nat
    BY <2>3, <2>5, FS_RemoveElement, FS_CardinalityType
  <2> HIDE DEF C, W
  <2>9. c + (Cardinality(T) - 1) * c = Cardinality(T) * c
    BY <2>8
  <2> QED  BY <2>3, <2>6, <2>7, <2>8, <2>9
<1> QED  BY <1>2, <1>3

(* Each step moves lamports between one wallet and one record, or receives *)
(* one from outside.                                                       *)
LEMMA RentStep ==
    ASSUME RegistryInv, RegistryInv', RentConserved, [Next]_vars
    PROVE  RentConserved'
<1> DEFINE all == Cardinality(Authorities) * InitialWallet
<1>1. /\ IsFiniteSet(Domains) /\ IsFiniteSet(Authorities) /\ donated \in Int
      /\ \A d \in Domains : lamports[d] \in Int /\ lamports'[d] \in Int
      /\ \A a \in Authorities : wallet[a] \in Int /\ wallet'[a] \in Int
  BY RegistryAssumption DEF RegistryInv, TypeInv
<1>0. IntOn(lamports, Domains) /\ IntOn(lamports', Domains)
      /\ IntOn(wallet, Authorities) /\ IntOn(wallet', Authorities)
  BY <1>1 DEF IntOn
<1>2. all \in Int
  BY <1>1, RegistryAssumption, FS_CardinalityType
<1> HIDE DEF all
<1>3. SumOver(wallet, Authorities) + SumOver(lamports, Domains) = all + donated
  BY DEF RentConserved, all
<1>4. SUFFICES SumOver(wallet', Authorities) + SumOver(lamports', Domains) = all + donated'
  BY DEF RentConserved, all
<1>5. ASSUME NEW a \in Authorities, NEW d \in Domains, NEW s \in Seq(Programs),
             Resize(a, d, s), donated' = donated
      PROVE  SumOver(wallet', Authorities) + SumOver(lamports', Domains) = all + donated'
  <2> DEFINE x == lamports[d] - AmountRequired(Len(s))
  <2>1. AmountRequired(Len(s)) \in Nat
    BY RentType
  <2>2. /\ lamports' = [lamports EXCEPT ![d] = @ - x]
        /\ wallet' = [wallet EXCEPT ![a] = @ + x]
    BY <1>5 DEF Resize
  <2>3. x \in Int
    BY <1>1, <2>1
  <2> HIDE DEF x
  <2>4. /\ lamports'[d] = lamports[d] - x
        /\ \A e \in Domains \ {d} : lamports'[e] = lamports[e]
        /\ wallet'[a] = wallet[a] + x
        /\ \A b \in Authorities \ {a} : wallet'[b] = wallet[b]
    BY <2>2 DEF RegistryInv, TypeInv
  <2>5. /\ SumOver(lamports, Domains) \in Int
        /\ SumOver(lamports', Domains) = SumOver(lamports, Domains) + (lamports'[d] - lamports[d])
    BY <1>0, <2>4, SumUpdate
  <2>6. /\ SumOver(wallet, Authorities) \in Int
        /\ SumOver(wallet', Authorities) = SumOver(wallet, Authorities) + (wallet'[a] - wallet[a])
    BY <1>0, <2>4, SumUpdate
  <2> QED  BY <1>1, <1>3, <1>5, <2>3, <2>4, <2>5, <2>6
<1>6. ASSUME NEW a \in Authorities, NEW d \in Domains, NEW p \in Programs,
             AddProgram(a, d, p)
      PROVE  SumOver(wallet', Authorities) + SumOver(lamports', Domains) = all + donated'
  <2>1. Append(record[d], p) \in Seq(Programs)
    BY DEF RegistryInv, TypeInv
  <2> QED  BY <1>5, <1>6, <2>1 DEF AddProgram
<1>7. ASSUME NEW a \in Authorities, NEW d \in Domains, NEW p \in Programs,
             RemoveProgram(a, d, p)
      PROVE  SumOver(wallet', Authorities) + SumOver(lamports', Domains) = all + donated'
  <2>1. PICK n \in DOMAIN record[d] : Resize(a, d, SwapRemove(record[d], n))
    BY <1>7 DEF RemoveProgram
  <2>2. record[d] \in Seq(Programs)
    BY DEF RegistryInv, TypeInv
  <2>3. SwapRemove(record[d], n) \in Seq(Programs)
    BY <2>2, SwapRemoveLemma DEF RegistryInv, NoDuplicates
  <2> QED  BY <1>5, <1>7, <2>1, <2>3 DEF RemoveProgram
<1>8. ASSUME NEW d \in Domains, Donate(d)
      PROVE  SumOver(wallet', Authorities) + SumOver(lamports', Domains) = all + donated'
  <2>1. /\ lamports'[d] = lamports[d] + 1
        /\ \A e \in Domains \ {d} : lamports'[e] = lamports[e]
        /\ wallet' = wallet /\ donated' = donated + 1
    BY <1>8 DEF Donate, RegistryInv, TypeInv
  <2>2. /\ SumOver(lamports, Domains) \in Int
        /\ SumOver(lamports', Domains) = SumOver(lamports, Domains) + (lamports'[d] - lamports[d])
    BY <1>0, <2>1, SumUpdate
  <2>3. SumOver(wallet, Authorities) \in Int
    <3>1. PICK G : Sums(G, wallet, SUBSET Authorities)
      BY <1>1, SumsExist
    <3>2. SumOver(wallet, Authorities) = G[Authorities]
      BY <1>1, <3>1, SumIs
    <3> QED  BY <3>1, <3>2 DEF Sums
  <2> QED  BY <1>1, <1>2, <1>3, <2>1, <2>2, <2>3
<1>9. CASE UNCHANGED << lamports, wallet, donated >>
  BY <1>3, <1>9
<1> QED
  BY <1>6, <1>7, <1>8, <1>9 DEF Next, Initialize, UpdateAuthority, Reap, vars

(* adjust_rent_if_needed, which writes both balances by hand, and the end  *)
(* of a record create and destroy no lamports.                             *)
THEOREM RentIsConserved == Spec => []RentConserved
<1>1. RegistryInv /\ RegistryInv' /\ RentConserved /\ [Next]_vars => RentConserved'
  BY RentStep
<1>2. Init => RentConserved
  <2> SUFFICES ASSUME Init PROVE RentConserved
    OBVIOUS
  <2>1. /\ IsFiniteSet(Domains) /\ IsFiniteSet(Authorities) /\ InitialWallet \in Int
        /\ \A a \in Authorities : wallet[a] = InitialWallet
        /\ \A d \in Domains : lamports[d] = 0
        /\ donated = 0
    BY RegistryAssumption DEF Init
  <2>2. SumOver(wallet, Authorities) = Cardinality(Authorities) * InitialWallet
    BY <2>1, SumOfConstant
  <2>3. SumOver(lamports, Domains) = Cardinality(Domains) * 0
    BY <2>1, SumOfConstant
  <2>4. SumOver(lamports, Domains) = 0
    BY <2>1, <2>3, FS_CardinalityType
  <2>5. Cardinality(Authorities) * InitialWallet \in Int
    BY <2>1, FS_CardinalityType
  <2>6. SumOver(wallet, Authorities) + SumOver(lamports, Domains)
          = Cardinality(Authorities) * InitialWallet + donated
    BY <2>1, <2>2, <2>4, <2>5
  <2> QED  BY <2>6 DEF RentConserved
<1> QED  BY <1>1, <1>2, RegistryInvariance, PTL DEF Spec
=============================================================================
