----------------------------- MODULE AuthAccount -----------------------------
(***************************************************************************)
(* One account's credentials: the login families of AuthSessions composed  *)
(* with password change and reset, reset links, API keys, and the          *)
(* administrator's role and lifecycle changes, all racing each other.      *)
(*                                                                         *)
(* auth_ui/api/{change_password,reset_password,forgot_password,api_keys}.rs, *)
(* end_credentials_after_password_change, bump_auth_version and            *)
(* presented_credential_is_live of blocks/auth/mod.rs, admin/{ops,iam}.rs. *)
(***************************************************************************)
EXTENDS AuthSessions

-----------------------------------------------------------------------------
(* change_password::handle: the stored hash is read and checked, and later *)
(* overwritten whatever it then is.                                        *)
ChangeCheckPassword(r) ==
  /\ "change" \in Kinds /\ pc[r] = "idle" /\ SignedIn
  /\ why' = [why EXCEPT ![r] = "change"]
  /\ Go(r, "update_password") \/ Go(r, "refused")
  /\ UNCHANGED <<tables, account, faults, cred, fam, ver, epoch, role, bad, ended>>

(* forgot_password::send_reset_link, after the response: the newest link   *)
(* replaces the one before it; unacked is a link stored and not mailed.    *)
ForgotPassword(r, o) ==
  /\ "forgot" \in Kinds /\ pc[r] = "idle" /\ Outcome(o)
  /\ link' = IF Lands(o) THEN r ELSE link
  /\ Go(r, IF o = "ok" THEN "mailed" ELSE "failed")
  /\ UNCHANGED <<sessions, row, keys, account, locals>>

(* reset_password::handle: the link is looked up, then spent.  A link that *)
(* is not the account's, has expired, or comes with a password the policy  *)
(* refuses is refused unspent.                                             *)
ResetLookup(r, l) ==
  /\ "reset" \in Kinds /\ pc[r] = "idle"
  /\ pc[l] = "mailed"
  /\ cred' = [cred EXCEPT ![r] = l]
  /\ why' = [why EXCEPT ![r] = "reset"]
  /\ (link = l /\ Go(r, "rs_take")) \/ Go(r, "refused")
  /\ UNCHANGED <<tables, account, faults, fam, ver, epoch, role, bad, ended>>

(* Bug: the column is cleared without comparing it to the link. *)
ResetTakeUnchecked(r, o) ==
  /\ pc[r] = "rs_take" /\ Outcome(o)
  /\ link' = IF Lands(o) THEN None ELSE link
  /\ Go(r, IF o = "ok" THEN "update_password" ELSE "failed")
  /\ UNCHANGED <<sessions, row, keys, account, locals>>

(* users::take_reset_token, the compare-and-set. *)
ResetTake(r, o) ==
  /\ pc[r] = "rs_take" /\ Outcome(o)
  /\ link' = IF Lands(o) /\ link = cred[r] THEN None ELSE link
  /\ Go(r, IF o # "ok" THEN "failed"
           ELSE IF link = cred[r] THEN "update_password" ELSE "refused")
  /\ UNCHANGED <<sessions, row, keys, account, locals>>

(* users::restore_reset_token: only a column that is still clear. *)
ResetRestore(r, o) ==
  /\ pc[r] = "rs_restore" /\ Outcome(o)
  /\ link' = IF Lands(o) /\ link = None THEN cred[r] ELSE link
  /\ Go(r, "failed")
  /\ UNCHANGED <<sessions, row, keys, account, locals>>

(* local_credentials::update_password, for a change and for a reset. *)
UpdatePassword(r, o) ==
  /\ pc[r] = "update_password" /\ Outcome(o)
  /\ IF Lands(o)
     THEN pwd' = pwd + 1 /\ epoch' = [epoch EXCEPT ![r] = pwd + 1]
     ELSE UNCHANGED <<pwd, epoch>>
  /\ Go(r, IF o = "ok" THEN "all_delete"
           ELSE IF why[r] = "reset" THEN "rs_restore" ELSE "failed")
  /\ UNCHANGED <<tables, version, roles, active, cred, fam, ver, role, why, bad, ended>>

(* bump_auth_version.  In end_credentials_after_password_change an error is *)
(* remembered and the keys are revoked all the same; an administrator's    *)
(* change ends here, and a role removal's first bump goes on to the write. *)
BumpAuthVersion(r, o) ==
  /\ pc[r] \in {"bump", "ad_prebump"} /\ Outcome(o)
  /\ version' = IF Lands(o) THEN version + 1 ELSE version
  /\ bad' = IF o = "ok" THEN bad ELSE [bad EXCEPT ![r] = TRUE]
  /\ Go(r, IF why[r] \in {"change", "reset"} THEN "revoke_keys"
           ELSE IF o # "ok" THEN "failed"
           ELSE IF pc[r] = "ad_prebump" THEN "ad_write" ELSE "done")
  /\ UNCHANGED <<tables, pwd, roles, active, cred, fam, ver, epoch, role, why, ended>>

(* api_keys::revoke_all_for_user, and the handler's answer. *)
RevokeKeys(r, o) ==
  /\ pc[r] = "revoke_keys" /\ Outcome(o)
  /\ keys' = IF Lands(o) THEN RevokedKeys(LiveKeys) ELSE keys
  /\ Go(r, IF o = "ok" /\ ~bad[r] THEN "changed"
           ELSE IF why[r] = "reset" THEN "rs_restore" ELSE "failed")
  /\ UNCHANGED <<sessions, row, link, account, locals>>

-----------------------------------------------------------------------------
(* api_keys::handle_create, presenting an access token or an API key. *)

KeyByToken(r, t) ==
  /\ "key" \in Kinds /\ pc[r] = "idle" /\ AccessAccepted(t)
  /\ fam' = [fam EXCEPT ![r] = fam[t]]
  /\ ver' = [ver EXCEPT ![r] = ver[t]]
  /\ epoch' = [epoch EXCEPT ![r] = epoch[t]]
  /\ Go(r, "key_insert")
  /\ UNCHANGED <<tables, account, faults, cred, role, why, bad, ended>>

KeyByKey(r, k) ==
  /\ "key" \in Kinds /\ pc[r] = "idle" /\ authenticate_api_key(k)
  /\ cred' = [cred EXCEPT ![r] = k]
  /\ epoch' = [epoch EXCEPT ![r] = epoch[k]]
  /\ Go(r, "key_insert")
  /\ UNCHANGED <<tables, account, faults, fam, ver, role, why, bad, ended>>

(* Bug: the key is answered without re-checking what authorised it. *)
KeyInsertAnswers(r, o) ==
  /\ pc[r] = "key_insert" /\ Outcome(o)
  /\ keys' = IF Lands(o) THEN [keys EXCEPT ![r] = "live"] ELSE keys
  /\ Go(r, IF o = "ok" THEN "keyed" ELSE "failed")
  /\ UNCHANGED <<sessions, row, link, account, locals>>

KeyInsert(r, o) ==
  /\ pc[r] = "key_insert" /\ Outcome(o)
  /\ keys' = IF Lands(o) THEN [keys EXCEPT ![r] = "live"] ELSE keys
  /\ Go(r, IF o = "ok" THEN "key_check" ELSE "failed")
  /\ UNCHANGED <<sessions, row, link, account, locals>>

(* presented_credential_is_live for an access token: the family's row and  *)
(* the uncached version, two reads in either order.                        *)
KeyRecheckFamily(r) ==
  /\ pc[r] \in {"key_check", "key_check_row"} /\ cred[r] = None
  /\ Go(r, IF fam[r] \notin sessions THEN "key_withdraw"
           ELSE IF pc[r] = "key_check" THEN "key_check_ver" ELSE "keyed")
  /\ why' = [why EXCEPT ![r] = "recheck"]
  /\ UNCHANGED <<tables, account, faults, cred, fam, ver, epoch, role, bad, ended>>

KeyRecheckVersion(r) ==
  /\ pc[r] \in {"key_check", "key_check_ver"} /\ cred[r] = None
  /\ Go(r, IF ver[r] < version THEN "key_withdraw"
           ELSE IF pc[r] = "key_check" THEN "key_check_row" ELSE "keyed")
  /\ why' = [why EXCEPT ![r] = "recheck"]
  /\ UNCHANGED <<tables, account, faults, cred, fam, ver, epoch, role, bad, ended>>

(* ... and for an API key: the key's own row. *)
KeyRecheckKey(r) ==
  /\ pc[r] = "key_check" /\ cred[r] # None
  /\ Go(r, IF keys[cred[r]] = "live" THEN "keyed" ELSE "key_withdraw")
  /\ why' = [why EXCEPT ![r] = "recheck"]
  /\ UNCHANGED <<tables, account, faults, cred, fam, ver, epoch, role, bad, ended>>

KeyRecheckFails(r) ==
  /\ pc[r] \in {"key_check", "key_check_row", "key_check_ver"}
  /\ Outcome("lost")
  /\ Go(r, "key_withdraw")
  /\ why' = [why EXCEPT ![r] = "unreadable"]
  /\ UNCHANGED <<tables, account, cred, fam, ver, epoch, role, bad, ended>>

KeyWithdraw(r, o) ==
  /\ pc[r] = "key_withdraw" /\ Outcome(o)
  /\ keys' = IF Lands(o) THEN RevokedKeys({r}) ELSE keys
  /\ Go(r, IF o = "ok" /\ why[r] = "recheck" THEN "refused" ELSE "failed")
  /\ UNCHANGED <<sessions, row, link, account, locals>>

(* api_keys::handle_revoke and handle_delete, by the key's owner. *)
KeyRevoke(r, k, o) ==
  /\ "keyrevoke" \in Kinds /\ pc[r] = "idle" /\ SignedIn
  /\ keys[k] # "none" /\ Outcome(o)
  /\ keys' = IF Lands(o) THEN RevokedKeys({k}) ELSE keys
  /\ Go(r, IF o = "ok" THEN "done" ELSE "failed")
  /\ UNCHANGED <<sessions, row, link, account, locals>>

-----------------------------------------------------------------------------
(* admin: assigning a role, disabling, enabling or deleting the account    *)
(* writes and then bumps; removing a role bumps before the write as well.  *)
(* A change of one's own account, a role that does not exist and a grant   *)
(* that is already there or already gone are refused.                      *)

AdminStart(r) ==
  /\ "admin" \in Kinds /\ pc[r] = "idle"
  /\ \/ Go(r, "ad_prebump") /\ why' = [why EXCEPT ![r] = "roles"]
     \/ /\ Go(r, "ad_write")
        /\ \E w \in {"roles", "disable"} : why' = [why EXCEPT ![r] = w]
     \/ Go(r, "refused") /\ UNCHANGED why
  /\ UNCHANGED <<tables, account, faults, cred, fam, ver, epoch, role, bad, ended>>

AdminWrite(r, o) ==
  /\ pc[r] = "ad_write" /\ Outcome(o)
  /\ IF Lands(o) /\ why[r] = "roles"
     THEN roles' = roles + 1 /\ role' = [role EXCEPT ![r] = roles + 1]
     ELSE UNCHANGED <<roles, role>>
  /\ IF Lands(o) /\ why[r] = "disable" THEN active' \in BOOLEAN ELSE UNCHANGED active
  /\ Go(r, IF o = "ok" THEN "bump" ELSE "failed")
  /\ UNCHANGED <<tables, version, pwd, cred, fam, ver, epoch, why, bad, ended>>

-----------------------------------------------------------------------------

AccountStep(r) ==
  \/ ChangeCheckPassword(r) \/ AdminStart(r)
  \/ KeyRecheckFamily(r) \/ KeyRecheckVersion(r) \/ KeyRecheckKey(r)
  \/ KeyRecheckFails(r)
  \/ \E t \in Req : ResetLookup(r, t) \/ KeyByToken(r, t) \/ KeyByKey(r, t)
  \/ \E o \in Outcomes :
       \/ ForgotPassword(r, o) \/ ResetTake(r, o) \/ ResetRestore(r, o)
       \/ UpdatePassword(r, o) \/ BumpAuthVersion(r, o) \/ RevokeKeys(r, o)
       \/ KeyInsert(r, o) \/ KeyWithdraw(r, o) \/ AdminWrite(r, o)
       \/ \E k \in Req : KeyRevoke(r, k, o)

Step(r) == SessionStep(r) \/ AccountStep(r)

Next == \E r \in Req : Step(r)

Spec == Init /\ [][Next]_vars

(* The runtime drives a request it has accepted to its answer; whether a   *)
(* request arrives, and whether the database fails, is left open.          *)
RunsOn(r) == pc[r] # "idle" /\ Step(r)

FairSpec == Spec /\ \A r \in Req : WF_vars(RunsOn(r))

-----------------------------------------------------------------------------
(* What still works, judged by the tables and not by any cache.            *)

SessionUsable(t) == AccessAccepted(t) /\ ver[t] >= version

(* A request answered that the families in ended[r] are signed out. *)
AnsweredEnd(r) ==
  \/ pc[r] = "done" /\ why[r] \in {"revoke", "logout"}
  \/ pc[r] = "refused" /\ why[r] = "replay"

-----------------------------------------------------------------------------
(* Safety properties. *)

(* A family never holds two live refresh rows, whatever refreshes, replays  *)
(* and revocations of it race (refresh.rs claims the presented row before it *)
(* mints; tokens::family_has_live_row reads "one per" family).              *)
OneLiveGeneration ==
  \A a, b \in Req :
    row[a] = "live" /\ row[b] = "live" /\ fam[a] = fam[b] => a = b

(* One refresh token is exchanged for at most one successor: of all the     *)
(* requests that ever present it, one at most is answered with tokens.      *)
RotatedOnce ==
  \A a, b \in Req :
    /\ pc[a] = "issued" /\ pc[b] = "issued"
    /\ cred[a] # None /\ cred[a] = cred[b]
    => a = b

(* Once a device revocation, a logout or a replay burn has answered, the    *)
(* families it deleted have no session row and no refresh token anybody was *)
(* handed is live in them: a rotation racing it leaves nothing usable.      *)
RevokedDeviceIsOut ==
  \A r \in Req : AnsweredEnd(r) =>
    \A f \in ended[r] :
      /\ f \notin sessions
      /\ \A t \in Req : row[t] = "live" /\ fam[t] = f => pc[t] # "issued"

(* No request is answered with tokens of a family once some revocation has  *)
(* deleted that family's session row: the row is never brought back.        *)
NoTokensAfterRevocation ==
  [][\A r \in Req : pc[r] # "issued" /\ pc'[r] = "issued" =>
       \A q \in Req : fam'[r] \notin ended[q]]_vars

(* When a password change or reset is answered as success, every session    *)
(* token and API key still usable stands on a sign-in that checked the new  *)
(* password or a later one, however sign-ins, refreshes and key creations   *)
(* raced the change (end_credentials_after_password_change).                *)
ChangeEndsOldCredentials ==
  \A c \in Req : pc[c] = "changed" =>
    \A x \in Req :
      SessionUsable(x) \/ authenticate_api_key(x) => epoch[x] >= epoch[c]

(* When a role assignment or removal is answered as success, no usable      *)
(* access token carries roles read before it (TokenGrant reads the version  *)
(* first; the change bumps it after the write).                             *)
RoleChangeReachesTokens ==
  \A c \in Req : pc[c] = "done" /\ why[c] = "roles" =>
    \A x \in Req : SessionUsable(x) => role[x] >= role[c]

(* A reset link whose redemption succeeded is spent for good: it is not the *)
(* account's link again and no second redemption of it succeeds, in spite   *)
(* of the failed attempts that gave it back (take/restore_reset_token).     *)
ResetLinkSpentOnce ==
  \A a \in Req : pc[a] = "changed" /\ why[a] = "reset" =>
    /\ link # cred[a]
    /\ \A b \in Req :
         pc[b] = "changed" /\ why[b] = "reset" /\ cred[b] = cred[a] => b = a

(* Liveness, with a database that answers: once a family has lost its       *)
(* session row, its refresh rows end up revoked, the successor a racing     *)
(* rotation inserted after the revocation included.                         *)
EndedFamilyIsRevoked ==
  \A f \in Req :
    (f \in Family(f) /\ f \notin sessions) ~> ~family_has_live_row(f)
=============================================================================
