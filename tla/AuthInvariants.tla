---------------------------- MODULE AuthInvariants ----------------------------
(***************************************************************************)
(* The inductive invariant behind the safety properties of AuthAccount, in *)
(* the parts the proofs take one at a time.                                *)
(***************************************************************************)
EXTENDS AuthAccount

(* A request that has not started, and a sign-in before its batch, has     *)
(* written nothing and acts in no family.                                  *)
FreshRequest(r) ==
  /\ row[r] = "none" /\ keys[r] = "none"
  /\ fam[r] = None /\ cred[r] = None
  /\ why[r] = "none" /\ ended[r] = {}

(* A rotation up to its insert acts on a token that was handed out, in that *)
(* token's family.                                                          *)
RotationRequest(r) ==
  /\ row[r] = "none" /\ why[r] = "none" /\ ended[r] = {}
  /\ cred[r] \in Req /\ fam[r] \in Req
  /\ pc[cred[r]] = "issued" /\ fam[r] = fam[cred[r]]

(* What the place of a request in its handler says of its local state. *)
RequestShape ==
  \A r \in Req :
    /\ pc[r] \in {"idle", "login_cred", "login_roles", "login_write"}
         => FreshRequest(r)
    /\ pc[r] \in {"rf_replay", "rf_user", "rf_roles", "rf_claim", "rf_insert"}
         => RotationRequest(r)
    /\ pc[r] \in {"rf_touch", "ended_revoke"}
         => why[r] = "none" /\ ended[r] = {} /\ fam[r] \in Req
    /\ pc[r] = "rf_touch" => row[r] # "none"
    /\ pc[r] = "issued" => row[r] # "none" /\ fam[r] \in Req
    /\ pc[r] = "end_delete" => ended[r] = {} /\ fam[r] \in Req
    /\ pc[r] = "end_revoke" => ended[r] = {fam[r]}

(* Which handlers reach the shared tails. *)
TailShape ==
  \A r \in Req :
    /\ pc[r] \in {"end_delete", "end_revoke"}
         => why[r] \in {"revoke", "replay", "stale", "unconfirmed"}
    /\ pc[r] \in {"all_delete", "all_rows"} => why[r] \in {"logout", "change", "reset"}
    /\ pc[r] \in {"update_password", "revoke_keys"} => why[r] \in {"change", "reset"}
    /\ pc[r] = "bump" => why[r] \in {"change", "reset", "roles", "disable"}
    /\ pc[r] \in {"ad_prebump", "ad_write"} => why[r] \in {"roles", "disable"}
    /\ pc[r] \in {"rs_take", "rs_restore"} => why[r] = "reset"

(* Every family is the sign-in whose batch wrote its first rows, and a     *)
(* family whose session row was deleted has none again.                    *)
FamilyShape ==
  /\ \A r \in Req : row[r] # "none" => fam[r] # None
  /\ \A r \in Req : fam[r] # None => row[fam[r]] # "none"
  /\ \A f \in sessions : row[f] # "none"
  /\ \A r \in Req : \A f \in ended[r] : f \notin sessions /\ row[f] # "none"

(* The right to continue a family is held once: by its live row, or by the *)
(* rotation that claimed that row and has not inserted the successor.      *)
Holds(r) == row[r] = "live" \/ pc[r] = "rf_insert"

OneHolder ==
  /\ \A p, q \in Req : Holds(p) /\ Holds(q) /\ fam[p] = fam[q] => p = q
  /\ \A r \in Req :
       pc[r] \in {"rf_insert", "rf_touch", "issued"} /\ cred[r] # None =>
         /\ cred[r] \in Req /\ row[cred[r]] = "revoked"
         /\ \A q \in Req :
              pc[q] \in {"rf_insert", "rf_touch", "issued"} /\ cred[q] = cred[r]
                => q = r

(* Nothing a request read is ahead of the account. *)
ReadsBehind ==
  \A r \in Req : ver[r] <= version /\ epoch[r] <= pwd /\ role[r] <= roles

(* Requests whose ver was read before the password generation they stand   *)
(* on was, and whose tokens and re-checks are judged by it.                *)
Judged(x) ==
  \/ pc[x] \in {"login_roles", "login_write", "rf_roles", "rf_claim",
                "rf_insert", "rf_touch", "issued"}
  \/ pc[x] \in {"key_insert", "key_check", "key_check_row", "key_check_ver"}
       /\ cred[x] = None

(* A change whose bump was acknowledged. *)
Bumped(c) == pc[c] = "changed" \/ (pc[c] = "revoke_keys" /\ ~bad[c])

BumpOutdatesOldPasswords ==
  \A c, x \in Req :
    Bumped(c) /\ Judged(x) /\ epoch[x] < epoch[c] => ver[x] < version

CarriesRoles(x) ==
  pc[x] \in {"login_write", "rf_claim", "rf_insert", "rf_touch", "issued"}

BumpOutdatesOldRoles ==
  \A c, x \in Req :
    /\ pc[c] = "done" /\ why[c] = "roles"
    /\ CarriesRoles(x) /\ role[x] < role[c]
    => ver[x] < version

(* A key created with a key stands on what that key stands on; a key from  *)
(* before a finished change, if still live, has not passed the version     *)
(* re-check and will not.                                                  *)
KeyShape ==
  /\ \A k \in Req :
       /\ pc[k] \in {"key_insert", "key_check"} /\ cred[k] # None =>
            cred[k] \in Req /\ pc[cred[k]] = "keyed" /\ epoch[cred[k]] = epoch[k]
       /\ pc[k] \in {"key_check_row", "key_check_ver"} => cred[k] = None
  /\ \A c, k \in Req :
       pc[c] = "changed" /\ keys[k] = "live" /\ epoch[k] < epoch[c] =>
         pc[k] \notin {"key_check_row", "keyed"}

(* A redemption past the take owns its link. *)
TookLink(r) ==
  /\ why[r] = "reset"
  /\ pc[r] \in {"update_password", "all_delete", "all_rows", "bump",
                "revoke_keys", "rs_restore", "changed"}

OneRedeemer ==
  \A r \in Req :
    /\ pc[r] = "rs_take" \/ TookLink(r) => cred[r] \in Req /\ pc[cred[r]] = "mailed"
    /\ TookLink(r) =>
         /\ link # cred[r]
         /\ \A q \in Req : TookLink(q) /\ cred[q] = cred[r] => q = r

AuthInv ==
  /\ RequestShape
  /\ TailShape
  /\ FamilyShape
  /\ OneHolder
  /\ ReadsBehind
  /\ BumpOutdatesOldPasswords
  /\ BumpOutdatesOldRoles
  /\ KeyShape
  /\ OneRedeemer
  /\ RevokedDeviceIsOut
=============================================================================
