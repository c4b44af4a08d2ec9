---------------------------- MODULE SessionAccount ----------------------------
(***************************************************************************)
(* The session account as packages/sessions-sdk-rs/src/session reads it:   *)
(* the checks every program makes on it before it acts for the user.       *)
(*                                                                         *)
(* "minor" is the variant of SessionInfo (V1 .. V4).  What a variant does  *)
(* not store is None, {} or FALSE: V1 and V2 store no mints, a revoked V2  *)
(* stores nothing but its expiration, a revoked V3 or V4 stores neither    *)
(* programs nor domain.  The major version is always 0 (SignedIntent).     *)
(***************************************************************************)
EXTENDS SignedIntent

CONSTANTS Sponsors,     \* fee payers that fund session accounts
          None          \* a value the account does not store

Session == [sponsor    : Sponsors,
            minor      : 1 .. 4,
            status     : {"active", "revoked"},
            user       : Users \union {None},
            domain     : Domains \union {None},
            expiration : Int,
            programs   : SUBSET Programs,
            unlimited  : BOOLEAN,
            mints      : SUBSET Mints]

ASSUME NoneAssumption ==
    /\ None \notin Session
    /\ None \notin Users
    /\ None \notin Domains

(* Session::is_live: revoked sessions are live until their expiration. *)
IsLive(s, t) == t <= s.expiration

CheckIsUnrevoked(s) == s.status = "active"

(* Mutant: only revocation is checked. *)
CheckOnlyUnrevoked(s, t) == CheckIsUnrevoked(s)

CheckIsLiveAndUnrevoked(s, t) == CheckIsUnrevoked(s) /\ IsLive(s, t)

(* check_authorized_program on the program's id, or                        *)
(* check_authorized_program_signer on its signer PDA: the registry derives *)
(* the PDA from the id, so the two lists name the same programs.           *)
CheckAuthorizedProgram(s, p) == p \in s.programs

(* Session::get_user_checked succeeds for program p. *)
UserChecked(s, p, t) == /\ CheckIsLiveAndUnrevoked(s, t)
                        /\ CheckAuthorizedProgram(s, p)

(* Session::get_domain_hash_checked succeeds: only V4 stores the hash. *)
DomainHashChecked(s, t) == /\ CheckIsLiveAndUnrevoked(s, t)
                           /\ s.minor = 4

(* Mutant: the token account's owner is not compared with the user. *)
PermissionsForAnyOwner(s, u, p, t) == /\ CheckIsLiveAndUnrevoked(s, t)
                                      /\ CheckAuthorizedProgram(s, p)

(* Session::get_token_permissions_checked succeeds for a token account of  *)
(* user u and the signer of program p; s.unlimited is what it returns.     *)
TokenPermissionsChecked(s, u, p, t) == /\ CheckIsLiveAndUnrevoked(s, t)
                                       /\ s.user = u
                                       /\ CheckAuthorizedProgram(s, p)

(* Mutant: every variant forgets what to clean up, as V2 does. *)
RevokedForgetsTokens(s) ==
    [s EXCEPT !.status = "revoked", !.user = None, !.programs = {},
              !.unlimited = FALSE, !.domain = None, !.mints = {}]

(* The session after revoke_session, by variant. *)
RevokedSession(s) ==
    IF s.minor = 2
    THEN [s EXCEPT !.status = "revoked", !.user = None, !.programs = {},
                   !.unlimited = FALSE]
    ELSE [s EXCEPT !.status = "revoked", !.programs = {}, !.domain = None]

(* Mutant: old variants close whatever they were approved for. *)
ClosableWithLimits(s) == s.minor >= 3 \/ s.status = "active"

(* Variants close_session accepts: V1 and V2 only without token limits. *)
Closable(s) == \/ s.minor >= 3
               \/ s.status = "active" /\ s.unlimited
=============================================================================
