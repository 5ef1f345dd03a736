----------------------------- MODULE AuthSessions -----------------------------
(***************************************************************************)
(* Login families: password sign-in, refresh rotation with replay          *)
(* detection, the revocation of one device and the sign-out of all.        *)
(*                                                                         *)
(* auth_ui/api/{login,refresh,logout}.rs, userportal/pages/sessions.rs and *)
(* the issuance tail of blocks/auth/mod.rs (establish_family, end_family,  *)
(* end_all_families).                                                      *)
(***************************************************************************)
EXTENDS AuthStore

-----------------------------------------------------------------------------
(* login::handle *)

(* The account row: its version, and whether the account may sign in.  An *)
(* inactive account is answered as a wrong password.                      *)
LoginReadUser(r) ==
  /\ "login" \in Kinds /\ pc[r] = "idle"
  /\ ver' = [ver EXCEPT ![r] = version]
  /\ Go(r, IF active THEN "login_cred" ELSE "refused")
  /\ UNCHANGED <<tables, account, faults, cred, fam, epoch, role, why, bad, ended>>

(* The stored hash, read after the row, and the password check.  A hash    *)
(* that cannot be read or checked is answered as a wrong password, and an  *)
(* address that is required and not proved is refused too.                 *)
LoginCheckPassword(r) ==
  /\ pc[r] = "login_cred"
  /\ \/ Go(r, "login_roles") /\ epoch' = [epoch EXCEPT ![r] = pwd]
     \/ Go(r, "refused") /\ UNCHANGED epoch
  /\ UNCHANGED <<tables, account, faults, cred, fam, ver, role, why, bad, ended>>

(* TokenGrant::resolve: the role grants, read after the version. *)
LoginReadRoles(r) ==
  /\ pc[r] = "login_roles"
  /\ role' = [role EXCEPT ![r] = roles]
  /\ Go(r, "login_write")
  /\ UNCHANGED <<tables, account, faults, cred, fam, ver, epoch, why, bad, ended>>

(* Bug: the session row is written before the family is minted. *)
LoginWriteNoFamily(r, o) ==
  /\ pc[r] = "login_write" /\ Outcome(o)
  /\ IF Lands(o)
     THEN /\ row' = [row EXCEPT ![r] = "live"]
          /\ sessions' = sessions \cup {fam[r]}
          /\ fam' = [fam EXCEPT ![r] = r]
     ELSE UNCHANGED <<row, sessions, fam>>
  /\ Go(r, IF o = "ok" THEN "issued" ELSE "failed")
  /\ UNCHANGED <<keys, link, account, cred, ver, epoch, role, why, bad, ended>>

(* Bug: the tokens carry the version of the moment they are minted. *)
LoginWriteLate(r, o) ==
  /\ pc[r] = "login_write" /\ Outcome(o)
  /\ IF Lands(o)
     THEN /\ row' = [row EXCEPT ![r] = "live"]
          /\ sessions' = sessions \cup {r}
          /\ fam' = [fam EXCEPT ![r] = r]
     ELSE UNCHANGED <<row, sessions, fam>>
  /\ ver' = [ver EXCEPT ![r] = version]
  /\ Go(r, IF o = "ok" THEN "issued" ELSE "failed")
  /\ UNCHANGED <<keys, link, account, cred, epoch, role, why, bad, ended>>

(* establish_family, NewFamily: both rows in one batch.  unacked is also   *)
(* a configuration read that fails after the batch.                        *)
LoginWrite(r, o) ==
  /\ pc[r] = "login_write" /\ Outcome(o)
  /\ IF Lands(o)
     THEN /\ row' = [row EXCEPT ![r] = "live"]
          /\ sessions' = sessions \cup {r}
          /\ fam' = [fam EXCEPT ![r] = r]
     ELSE UNCHANGED <<row, sessions, fam>>
  /\ Go(r, IF o = "ok" THEN "issued" ELSE "failed")
  /\ UNCHANGED <<keys, link, account, cred, ver, epoch, role, why, bad, ended>>

-----------------------------------------------------------------------------
(* refresh::handle.  A client may present any refresh token it was handed, *)
(* as often as it likes.                                                   *)

RefreshLookup(r, t) ==
  /\ "refresh" \in Kinds /\ pc[r] = "idle"
  /\ pc[t] = "issued"
  /\ cred' = [cred EXCEPT ![r] = t]
  /\ fam' = [fam EXCEPT ![r] = fam[t]]
  /\ Go(r, IF row[t] = "revoked" THEN "rf_replay" ELSE "rf_user")
  /\ UNCHANGED <<tables, account, faults, ver, epoch, role, why, bad, ended>>

(* refuse_not_live, RevokedAtRead: burn the family when one is still live. *)
RefreshReplay(r) ==
  /\ pc[r] = "rf_replay"
  /\ IF family_has_live_row(fam[r])
     THEN Go(r, "end_delete") /\ why' = [why EXCEPT ![r] = "replay"]
     ELSE Go(r, "refused") /\ UNCHANGED why
  /\ UNCHANGED <<tables, account, faults, cred, fam, ver, epoch, role, bad, ended>>

(* The account row: inactive is refused, a family behind the version is    *)
(* ended (refuse_stale_family), else the successor carries this version,   *)
(* unless the deployment requires an address the account has not proved.   *)
RefreshReadUser(r) ==
  /\ pc[r] = "rf_user"
  /\ \/ ~active /\ Go(r, "refused") /\ UNCHANGED <<ver, epoch, why>>
     \/ /\ active /\ ver[cred[r]] < version
        /\ Go(r, "end_delete") /\ why' = [why EXCEPT ![r] = "stale"]
        /\ UNCHANGED <<ver, epoch>>
     \/ /\ active /\ ver[cred[r]] >= version
        /\ ver' = [ver EXCEPT ![r] = version]
        /\ epoch' = [epoch EXCEPT ![r] = epoch[cred[r]]]
        /\ Go(r, "rf_roles") \/ Go(r, "refused")
        /\ UNCHANGED why
  /\ UNCHANGED <<tables, account, faults, cred, fam, role, bad, ended>>

RefreshReadRoles(r) ==
  /\ pc[r] = "rf_roles"
  /\ role' = [role EXCEPT ![r] = roles]
  /\ Go(r, "rf_claim")
  /\ UNCHANGED <<tables, account, faults, cred, fam, ver, epoch, why, bad, ended>>

(* Bug: an update by id alone, whatever the row then holds. *)
RefreshClaimUnchecked(r, o) ==
  /\ pc[r] = "rf_claim" /\ Outcome(o)
  /\ row' = IF Lands(o) THEN Revoked({cred[r]}) ELSE row
  /\ Go(r, IF o = "ok" THEN "rf_insert" ELSE "failed")
  /\ UNCHANGED <<sessions, keys, link, account, locals>>

(* tokens::revoke_if_live, the compare-and-set.  Losing it refuses and does *)
(* not burn the family (NotLive::CasLoss).                                  *)
RefreshClaim(r, o) ==
  /\ pc[r] = "rf_claim" /\ Outcome(o)
  /\ row' = IF Lands(o) THEN Revoked({cred[r]}) ELSE row
  /\ Go(r, IF o # "ok" THEN "failed"
           ELSE IF row[cred[r]] = "live" THEN "rf_insert" ELSE "refused")
  /\ UNCHANGED <<sessions, keys, link, account, locals>>

(* establish_family, Within: the successor's row, then the touch. *)
RefreshInsert(r, o) ==
  /\ pc[r] = "rf_insert" /\ Outcome(o)
  /\ row' = IF Lands(o) THEN [row EXCEPT ![r] = "live"] ELSE row
  /\ Go(r, IF o = "ok" THEN "rf_touch" ELSE "failed")
  /\ UNCHANGED <<sessions, keys, link, account, locals>>

(* Bug: the touch's count of rows is not looked at. *)
RefreshTouchUnchecked(r, o) ==
  /\ pc[r] = "rf_touch" /\ Outcome(o)
  /\ \/ o = "ok" /\ Go(r, "issued") /\ UNCHANGED why
     \/ /\ o # "ok"
        /\ Go(r, "end_delete") /\ why' = [why EXCEPT ![r] = "unconfirmed"]
  /\ UNCHANGED <<tables, account, cred, fam, ver, epoch, role, bad, ended>>

RefreshTouch(r, o) ==
  /\ pc[r] = "rf_touch" /\ Outcome(o)
  /\ \/ /\ o = "ok" /\ fam[r] \in sessions
        /\ Go(r, "issued") /\ UNCHANGED why
     \/ /\ o = "ok" /\ fam[r] \notin sessions
        /\ Go(r, "ended_revoke") /\ UNCHANGED why
     \/ /\ o # "ok"
        /\ Go(r, "end_delete") /\ why' = [why EXCEPT ![r] = "unconfirmed"]
  /\ UNCHANGED <<tables, account, cred, fam, ver, epoch, role, bad, ended>>

(* The touch found the row, and a configuration read after it failed. *)
RefreshUnanswered(r) ==
  /\ pc[r] = "rf_touch" /\ Outcome("lost")
  /\ fam[r] \in sessions
  /\ Go(r, "failed")
  /\ UNCHANGED <<tables, account, locals>>

(* Bug: the rotation refuses and leaves the row it wrote. *)
RefreshEndedLeavesRow(r, o) ==
  /\ pc[r] = "ended_revoke" /\ Outcome(o)
  /\ Go(r, IF o = "ok" THEN "refused" ELSE "failed")
  /\ UNCHANGED <<tables, account, locals>>

(* The touch found no row: revoke what the rotation wrote, and refuse. *)
RefreshEnded(r, o) ==
  /\ pc[r] = "ended_revoke" /\ Outcome(o)
  /\ row' = IF Lands(o) THEN Revoked(Family(fam[r])) ELSE row
  /\ Go(r, IF o = "ok" THEN "refused" ELSE "failed")
  /\ UNCHANGED <<sessions, keys, link, account, locals>>

-----------------------------------------------------------------------------
(* end_family: the session row first, then the refresh rows; the caller    *)
(* decides what an error means.                                            *)

EndAnswer(r, o) ==
  CASE why[r] = "stale"       -> "refused"
    [] why[r] = "unconfirmed" -> "failed"
    [] why[r] = "replay"      -> IF o = "ok" THEN "refused" ELSE "failed"
    [] OTHER                  -> IF o = "ok" THEN "done" ELSE "failed"

EndDelete(r, o) ==
  /\ pc[r] = "end_delete" /\ Outcome(o)
  /\ sessions' = IF Lands(o) THEN sessions \ {fam[r]} ELSE sessions
  /\ ended' = IF o = "ok" THEN [ended EXCEPT ![r] = {fam[r]}] ELSE ended
  /\ Go(r, IF o = "ok" THEN "end_revoke" ELSE EndAnswer(r, o))
  /\ UNCHANGED <<row, keys, link, account, cred, fam, ver, epoch, role, why, bad>>

(* Bug: only the family's first refresh row is revoked. *)
EndRevokeFirst(r, o) ==
  /\ pc[r] = "end_revoke" /\ Outcome(o)
  /\ row' = IF Lands(o) THEN Revoked({fam[r]}) ELSE row
  /\ Go(r, EndAnswer(r, o))
  /\ UNCHANGED <<sessions, keys, link, account, locals>>

EndRevoke(r, o) ==
  /\ pc[r] = "end_revoke" /\ Outcome(o)
  /\ row' = IF Lands(o) THEN Revoked(Family(fam[r])) ELSE row
  /\ Go(r, EndAnswer(r, o))
  /\ UNCHANGED <<sessions, keys, link, account, locals>>

(* userportal sessions::handle_revoke: the device must be the caller's. *)
RevokeDevice(r, f) ==
  /\ "revoke" \in Kinds /\ pc[r] = "idle" /\ SignedIn
  /\ row[f] # "none" /\ fam[f] = f
  /\ fam' = [fam EXCEPT ![r] = f]
  /\ why' = [why EXCEPT ![r] = "revoke"]
  /\ Go(r, IF f \in sessions THEN "end_delete" ELSE "done")
  /\ UNCHANGED <<tables, account, faults, cred, ver, epoch, role, bad, ended>>

-----------------------------------------------------------------------------
(* end_all_families, for logout and for a password change or reset.  A     *)
(* logout answers either failure; a change remembers a failed delete and   *)
(* goes on, and only logs a failed row revocation.                         *)

Logout(r) ==
  /\ "logout" \in Kinds /\ pc[r] = "idle" /\ SignedIn
  /\ why' = [why EXCEPT ![r] = "logout"]
  /\ Go(r, "all_delete")
  /\ UNCHANGED <<tables, account, faults, cred, fam, ver, epoch, role, bad, ended>>

AllDelete(r, o) ==
  /\ pc[r] = "all_delete" /\ Outcome(o)
  /\ sessions' = IF Lands(o) THEN {} ELSE sessions
  /\ ended' = IF o = "ok" THEN [ended EXCEPT ![r] = sessions] ELSE ended
  /\ bad' = IF o = "ok" THEN bad ELSE [bad EXCEPT ![r] = TRUE]
  /\ Go(r, IF o = "ok" THEN "all_rows"
           ELSE IF why[r] = "logout" THEN "failed" ELSE "bump")
  /\ UNCHANGED <<row, keys, link, account, cred, fam, ver, epoch, role, why>>

AllRevoke(r, o) ==
  /\ pc[r] = "all_rows" /\ Outcome(o)
  /\ row' = IF Lands(o) THEN Revoked(AllRows) ELSE row
  /\ Go(r, IF why[r] # "logout" THEN "bump"
           ELSE IF o = "ok" THEN "done" ELSE "failed")
  /\ UNCHANGED <<sessions, keys, link, account, locals>>

-----------------------------------------------------------------------------
(* A read or check that cannot run, before the handler has written         *)
(* anything, is answered as the deployment's failure and changes nothing.  *)
ReadFails(r) ==
  /\ pc[r] \in {"login_cred", "login_roles", "rf_replay", "rf_user", "rf_roles"}
  /\ Outcome("lost")
  /\ Go(r, "failed")
  /\ UNCHANGED <<tables, account, locals>>

SessionStep(r) ==
  \/ LoginReadUser(r) \/ LoginCheckPassword(r) \/ LoginReadRoles(r)
  \/ RefreshReplay(r) \/ RefreshReadUser(r) \/ RefreshReadRoles(r)
  \/ RefreshUnanswered(r) \/ Logout(r) \/ ReadFails(r)
  \/ \E t \in Req : RefreshLookup(r, t) \/ RevokeDevice(r, t)
  \/ \E o \in Outcomes :
       \/ LoginWrite(r, o) \/ RefreshClaim(r, o) \/ RefreshInsert(r, o)
       \/ RefreshTouch(r, o) \/ RefreshEnded(r, o)
       \/ EndDelete(r, o) \/ EndRevoke(r, o)
       \/ AllDelete(r, o) \/ AllRevoke(r, o)

=============================================================================
