------------------------------ MODULE AuthStore ------------------------------
(***************************************************************************)
(* The durable state behind one account of the auth block, the statements  *)
(* the repositories of blocks/auth/repo run on it, and the local state of  *)
(* the HTTP requests that run them.                                        *)
(*                                                                         *)
(* A request that mints something is the identity of what it minted: the   *)
(* login family a sign-in starts, the refresh token (row and JWT) a sign-in *)
(* or a rotation mints, the API key, the reset link.  The claims of the    *)
(* minted JWTs are the minting request's own fam, ver and role.            *)
(*                                                                         *)
(* Every database statement is atomic and is one step; requests interleave *)
(* between statements.  A request whose process dies is one that takes no  *)
(* further step.                                                           *)
(***************************************************************************)
EXTENDS Naturals, FiniteSets

CONSTANTS
  Req,        \* the requests of the instance, each run once
  None,       \* no request
  Seed,       \* requests that are finished sign-ins in the initial state
  Kinds,      \* the handlers the instance exercises
  MaxFaults   \* bound on failed or unacknowledged database statements

ASSUME NoneAssumption == None \notin Req
ASSUME SeedAssumption == Seed \subseteq Req
ASSUME FaultAssumption == MaxFaults \in Nat

VARIABLES
  sessions,   \* families with a row in wafer_run__auth__sessions
  row,        \* refresh rows: "none", "live" or "revoked"
  keys,       \* API-key rows: "none", "live" or "revoked"
  link,       \* the account's reset_token column
  version,    \* the account's auth_version column
  pwd,        \* generation of the stored password hash
  roles,      \* generation of the account's role grants
  active,     \* neither disabled nor deleted
  faults,     \* database faults so far
  pc,         \* where each request is
  cred,       \* the token, key or link the request presented
  fam,        \* the family the request acts in
  ver,        \* the auth_version the request read, or the claim it presented
  epoch,      \* password generation its credential stands on, or that it wrote
  role,       \* generation of the role grants it read, or that it wrote
  why,        \* what the shared tails of the handler answer to
  bad,        \* a step that must not be answered as success has failed
  ended       \* families whose session row the request deleted

tables  == <<sessions, row, keys, link>>
account == <<version, pwd, roles, active>>
locals  == <<cred, fam, ver, epoch, role, why, bad, ended>>
vars    == <<tables, account, faults, pc, locals>>

RowState == {"none", "live", "revoked"}

(* Where a request can be.  The last line holds the answers. *)
Label ==
  {"idle",
   "login_cred", "login_roles", "login_write",
   "rf_replay", "rf_user", "rf_roles", "rf_claim", "rf_insert", "rf_touch",
   "ended_revoke", "end_delete", "end_revoke", "all_delete", "all_rows",
   "bump", "revoke_keys", "update_password", "rs_take", "rs_restore",
   "key_insert", "key_check", "key_check_row", "key_check_ver", "key_withdraw",
   "ad_prebump", "ad_write",
   "issued", "keyed", "mailed", "changed", "done", "refused", "failed"}

Reason ==
  {"none", "revoke", "replay", "stale", "unconfirmed",
   "logout", "change", "reset", "roles", "disable", "recheck", "unreadable"}

(***************************************************************************)
(* A database statement answers ok, fails with no effect, or takes effect  *)
(* and is answered as a failure (the connection or the request's deadline  *)
(* went first).                                                            *)
(***************************************************************************)
Outcomes == {"ok", "lost", "unacked"}

Outcome(o) ==
  \/ o = "ok" /\ UNCHANGED faults
  \/ o # "ok" /\ faults < MaxFaults /\ faults' = faults + 1

Lands(o) == o # "lost"

Go(r, l) == pc' = [pc EXCEPT ![r] = l]

-----------------------------------------------------------------------------
(* repo::tokens *)

Family(f) == {t \in Req : fam[t] = f /\ row[t] # "none"}

family_has_live_row(f) == \E t \in Family(f) : row[t] = "live"

Revoked(S) == [t \in Req |-> IF t \in S THEN "revoked" ELSE row[t]]

AllRows == {t \in Req : row[t] # "none"}

(* repo::api_keys *)

RevokedKeys(S) == [k \in Req |-> IF k \in S THEN "revoked" ELSE keys[k]]

LiveKeys == {k \in Req : keys[k] = "live"}

-----------------------------------------------------------------------------
(* The request-time credential checks. *)

(* verify_access_token: the family's session row is read from the table; the *)
(* version comparison goes through a per-isolate cache that another isolate's *)
(* bump does not reach, so here any claim may still pass it.                  *)
AccessAccepted(t) == pc[t] = "issued" /\ fam[t] \in sessions

authenticate_api_key(k) == pc[k] = "keyed" /\ keys[k] = "live" /\ active

(* The pipeline gave the request a user id. *)
SignedIn == \E t \in Req : AccessAccepted(t) \/ authenticate_api_key(t)

-----------------------------------------------------------------------------

Init ==
  /\ sessions = Seed
  /\ row    = [r \in Req |-> IF r \in Seed THEN "live" ELSE "none"]
  /\ keys   = [r \in Req |-> "none"]
  /\ link   = None
  /\ version = 0 /\ pwd = 0 /\ roles = 0 /\ active = TRUE
  /\ faults = 0
  /\ pc     = [r \in Req |-> IF r \in Seed THEN "issued" ELSE "idle"]
  /\ cred   = [r \in Req |-> None]
  /\ fam    = [r \in Req |-> IF r \in Seed THEN r ELSE None]
  /\ ver    = [r \in Req |-> 0]
  /\ epoch  = [r \in Req |-> 0]
  /\ role   = [r \in Req |-> 0]
  /\ why    = [r \in Req |-> "none"]
  /\ bad    = [r \in Req |-> FALSE]
  /\ ended  = [r \in Req |-> {}]

(* Types of the tables, the account and the requests' local state. *)
TypeOK ==
  /\ sessions \subseteq Req
  /\ row \in [Req -> RowState]
  /\ keys \in [Req -> RowState]
  /\ link \in Req \cup {None}
  /\ version \in Nat /\ pwd \in Nat /\ roles \in Nat /\ active \in BOOLEAN
  /\ faults \in Nat
  /\ pc \in [Req -> Label]
  /\ cred \in [Req -> Req \cup {None}]
  /\ fam \in [Req -> Req \cup {None}]
  /\ ver \in [Req -> Nat]
  /\ epoch \in [Req -> Nat]
  /\ role \in [Req -> Nat]
  /\ why \in [Req -> Reason]
  /\ bad \in [Req -> BOOLEAN]
  /\ ended \in [Req -> SUBSET Req]
=============================================================================
