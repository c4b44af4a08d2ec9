----------------------------- MODULE DomainLists -----------------------------
(***************************************************************************)
(* What the domain registry promises to the session manager: for every     *)
(* domain a set of programs, changed one program at a time and not before  *)
(* there is an authority.  SessionManager's registry variable and its      *)
(* AddProgram and RemoveProgram actions use this abstraction.              *)
(***************************************************************************)
CONSTANTS Domains, Programs, Authorities, NoAuthority

VARIABLES authority, lists

lvars == << authority, lists >>

LInit == /\ authority = NoAuthority
         /\ lists = [d \in Domains |-> {}]

LHandOver == /\ authority' \in Authorities
             /\ UNCHANGED lists

LAdd(d, p) == /\ authority # NoAuthority
              /\ p \notin lists[d]
              /\ lists' = [lists EXCEPT ![d] = @ \union {p}]
              /\ UNCHANGED authority

LRemove(d, p) == /\ authority # NoAuthority
                 /\ p \in lists[d]
                 /\ lists' = [lists EXCEPT ![d] = @ \ {p}]
                 /\ UNCHANGED authority

LNext == \/ LHandOver
         \/ \E d \in Domains, p \in Programs : LAdd(d, p) \/ LRemove(d, p)

LSpec == LInit /\ [][LNext]_lvars
=============================================================================
