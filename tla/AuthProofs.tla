----------------------------- MODULE AuthProofs -----------------------------
(***************************************************************************)
(* Proofs of the safety properties of AuthAccount, for every set of        *)
(* requests, seeds, handlers and any number of database faults.            *)
(*                                                                         *)
(* AuthInv with TypeOK is inductive.  Each of its parts has two lemmas, one *)
(* for the steps of AuthSessions and one for those AuthAccount adds, with  *)
(* one case per action; Invariance puts them together, and each property   *)
(* follows from the invariant alone.                                       *)
(***************************************************************************)
EXTENDS AuthInvariants, TLAPS

(* Every step keeps the types. *)
LEMMA TypeSession ==
  ASSUME TypeOK, AuthInv, NEW r \in Req, SessionStep(r)
  PROVE  TypeOK'
<1> USE DEF Go, Outcome, Lands, tables, account, locals, TypeOK, AuthInv,
     RequestShape, RotationRequest, Label, Reason, RowState
<1>1. CASE LoginReadUser(r)
  BY <1>1, NoneAssumption DEF LoginReadUser
<1>2. CASE LoginCheckPassword(r)
  BY <1>2, NoneAssumption DEF LoginCheckPassword
<1>3. CASE LoginReadRoles(r)
  BY <1>3, NoneAssumption DEF LoginReadRoles
<1>4. ASSUME NEW o \in Outcomes, LoginWrite(r, o) PROVE TypeOK'
  BY <1>4, NoneAssumption DEF LoginWrite
<1>5. ASSUME NEW t \in Req, RefreshLookup(r, t) PROVE TypeOK'
  BY <1>5, NoneAssumption DEF RefreshLookup
<1>6. CASE RefreshReplay(r)
  BY <1>6, NoneAssumption DEF RefreshReplay
<1>7. CASE RefreshReadUser(r)
  BY <1>7, NoneAssumption DEF RefreshReadUser
<1>8. CASE RefreshReadRoles(r)
  BY <1>8, NoneAssumption DEF RefreshReadRoles
<1>9. ASSUME NEW o \in Outcomes, RefreshClaim(r, o) PROVE TypeOK'
  BY <1>9, NoneAssumption DEF RefreshClaim, Revoked
<1>10. ASSUME NEW o \in Outcomes, RefreshInsert(r, o) PROVE TypeOK'
  BY <1>10, NoneAssumption DEF RefreshInsert
<1>11. ASSUME NEW o \in Outcomes, RefreshTouch(r, o) PROVE TypeOK'
  BY <1>11, NoneAssumption DEF RefreshTouch
<1>12. CASE RefreshUnanswered(r)
  BY <1>12, NoneAssumption DEF RefreshUnanswered
<1>13. ASSUME NEW o \in Outcomes, RefreshEnded(r, o) PROVE TypeOK'
  BY <1>13, NoneAssumption DEF RefreshEnded, Revoked, Family
<1>14. ASSUME NEW o \in Outcomes, EndDelete(r, o) PROVE TypeOK'
  BY <1>14, NoneAssumption DEF EndDelete, EndAnswer
<1>15. ASSUME NEW o \in Outcomes, EndRevoke(r, o) PROVE TypeOK'
  BY <1>15, NoneAssumption DEF EndRevoke, Revoked, EndAnswer, Family
<1>16. ASSUME NEW t \in Req, RevokeDevice(r, t) PROVE TypeOK'
  BY <1>16, NoneAssumption DEF RevokeDevice
<1>17. CASE Logout(r)
  BY <1>17, NoneAssumption DEF Logout
<1>18. ASSUME NEW o \in Outcomes, AllDelete(r, o) PROVE TypeOK'
  BY <1>18, NoneAssumption DEF AllDelete
<1>19. ASSUME NEW o \in Outcomes, AllRevoke(r, o) PROVE TypeOK'
  BY <1>19, NoneAssumption DEF AllRevoke, Revoked, AllRows
<1>20. CASE ReadFails(r)
  BY <1>20, NoneAssumption DEF ReadFails
<1>21. QED
  BY <1>1, <1>2, <1>3, <1>4, <1>5, <1>6, <1>7, <1>8, <1>9, <1>10, <1>11,
     <1>12, <1>13, <1>14, <1>15, <1>16, <1>17, <1>18, <1>19, <1>20 DEF SessionStep

(* The same, for the steps of AuthAccount. *)
LEMMA TypeAccount ==
  ASSUME TypeOK, AuthInv, NEW r \in Req, AccountStep(r)
  PROVE  TypeOK'
<1> USE DEF Go, Outcome, Lands, tables, account, locals, TypeOK, AuthInv,
     RequestShape, RotationRequest, Label, Reason, RowState
<1>1. CASE ChangeCheckPassword(r)
  BY <1>1, NoneAssumption DEF ChangeCheckPassword
<1>2. ASSUME NEW o \in Outcomes, ForgotPassword(r, o) PROVE TypeOK'
  BY <1>2, NoneAssumption DEF ForgotPassword
<1>3. ASSUME NEW t \in Req, ResetLookup(r, t) PROVE TypeOK'
  BY <1>3, NoneAssumption DEF ResetLookup
<1>4. ASSUME NEW o \in Outcomes, ResetTake(r, o) PROVE TypeOK'
  BY <1>4, NoneAssumption DEF ResetTake
<1>5. ASSUME NEW o \in Outcomes, ResetRestore(r, o) PROVE TypeOK'
  BY <1>5, NoneAssumption DEF ResetRestore
<1>6. ASSUME NEW o \in Outcomes, UpdatePassword(r, o) PROVE TypeOK'
  BY <1>6, NoneAssumption DEF UpdatePassword
<1>7. ASSUME NEW o \in Outcomes, BumpAuthVersion(r, o) PROVE TypeOK'
  BY <1>7, NoneAssumption DEF BumpAuthVersion
<1>8. ASSUME NEW o \in Outcomes, RevokeKeys(r, o) PROVE TypeOK'
  BY <1>8, NoneAssumption DEF RevokeKeys, RevokedKeys, LiveKeys
<1>9. ASSUME NEW t \in Req, KeyByToken(r, t) PROVE TypeOK'
  BY <1>9, NoneAssumption DEF KeyByToken, AccessAccepted
<1>10. ASSUME NEW t \in Req, KeyByKey(r, t) PROVE TypeOK'
  BY <1>10, NoneAssumption DEF KeyByKey, authenticate_api_key
<1>11. ASSUME NEW o \in Outcomes, KeyInsert(r, o) PROVE TypeOK'
  BY <1>11, NoneAssumption DEF KeyInsert
<1>12. CASE KeyRecheckFamily(r)
  BY <1>12, NoneAssumption DEF KeyRecheckFamily
<1>13. CASE KeyRecheckVersion(r)
  BY <1>13, NoneAssumption DEF KeyRecheckVersion
<1>14. CASE KeyRecheckKey(r)
  BY <1>14, NoneAssumption DEF KeyRecheckKey
<1>15. CASE KeyRecheckFails(r)
  BY <1>15, NoneAssumption DEF KeyRecheckFails
<1>16. ASSUME NEW o \in Outcomes, KeyWithdraw(r, o) PROVE TypeOK'
  BY <1>16, NoneAssumption DEF KeyWithdraw, RevokedKeys
<1>17. ASSUME NEW k \in Req, NEW o \in Outcomes, KeyRevoke(r, k, o)
      PROVE TypeOK'
  BY <1>17, NoneAssumption DEF KeyRevoke, RevokedKeys
<1>18. CASE AdminStart(r)
  BY <1>18, NoneAssumption DEF AdminStart
<1>19. ASSUME NEW o \in Outcomes, AdminWrite(r, o) PROVE TypeOK'
  BY <1>19, NoneAssumption DEF AdminWrite
<1>20. QED
  BY <1>1, <1>2, <1>3, <1>4, <1>5, <1>6, <1>7, <1>8, <1>9, <1>10, <1>11,
     <1>12, <1>13, <1>14, <1>15, <1>16, <1>17, <1>18, <1>19 DEF AccountStep

(* A request's place in its handler fixes what it holds. *)
LEMMA RequestSession ==
  ASSUME TypeOK, AuthInv, NEW r \in Req, SessionStep(r)
  PROVE  RequestShape'
<1> USE DEF Go, Outcome, Lands, tables, account, locals, TypeOK, AuthInv,
     RequestShape, FreshRequest, RotationRequest, FamilyShape, TailShape
<1>1. CASE LoginReadUser(r)
  BY <1>1, NoneAssumption DEF LoginReadUser
<1>2. CASE LoginCheckPassword(r)
  BY <1>2, NoneAssumption DEF LoginCheckPassword
<1>3. CASE LoginReadRoles(r)
  BY <1>3, NoneAssumption DEF LoginReadRoles
<1>4. ASSUME NEW o \in Outcomes, LoginWrite(r, o) PROVE RequestShape'
  BY <1>4, NoneAssumption DEF LoginWrite
<1>5. ASSUME NEW t \in Req, RefreshLookup(r, t) PROVE RequestShape'
  BY <1>5, NoneAssumption DEF RefreshLookup
<1>6. CASE RefreshReplay(r)
  BY <1>6, NoneAssumption DEF RefreshReplay
<1>7. CASE RefreshReadUser(r)
  BY <1>7, NoneAssumption DEF RefreshReadUser
<1>8. CASE RefreshReadRoles(r)
  BY <1>8, NoneAssumption DEF RefreshReadRoles
<1>9. ASSUME NEW o \in Outcomes, RefreshClaim(r, o) PROVE RequestShape'
  BY <1>9, NoneAssumption DEF RefreshClaim, Revoked
<1>10. ASSUME NEW o \in Outcomes, RefreshInsert(r, o) PROVE RequestShape'
  BY <1>10, NoneAssumption DEF RefreshInsert
<1>11. ASSUME NEW o \in Outcomes, RefreshTouch(r, o) PROVE RequestShape'
  BY <1>11, NoneAssumption DEF RefreshTouch
<1>12. CASE RefreshUnanswered(r)
  BY <1>12, NoneAssumption DEF RefreshUnanswered
<1>13. ASSUME NEW o \in Outcomes, RefreshEnded(r, o) PROVE RequestShape'
  BY <1>13, NoneAssumption DEF RefreshEnded, Revoked, Family
<1>14. ASSUME NEW o \in Outcomes, EndDelete(r, o) PROVE RequestShape'
  BY <1>14, NoneAssumption DEF EndDelete, EndAnswer
<1>15. ASSUME NEW o \in Outcomes, EndRevoke(r, o) PROVE RequestShape'
  BY <1>15, NoneAssumption DEF EndRevoke, Revoked, EndAnswer, Family
<1>16. ASSUME NEW t \in Req, RevokeDevice(r, t) PROVE RequestShape'
  BY <1>16, NoneAssumption DEF RevokeDevice
<1>17. CASE Logout(r)
  BY <1>17, NoneAssumption DEF Logout
<1>18. ASSUME NEW o \in Outcomes, AllDelete(r, o) PROVE RequestShape'
  BY <1>18, NoneAssumption DEF AllDelete
<1>19. ASSUME NEW o \in Outcomes, AllRevoke(r, o) PROVE RequestShape'
  BY <1>19, NoneAssumption DEF AllRevoke, Revoked, AllRows
<1>20. CASE ReadFails(r)
  BY <1>20, NoneAssumption DEF ReadFails
<1>21. QED
  BY <1>1, <1>2, <1>3, <1>4, <1>5, <1>6, <1>7, <1>8, <1>9, <1>10, <1>11,
     <1>12, <1>13, <1>14, <1>15, <1>16, <1>17, <1>18, <1>19, <1>20 DEF SessionStep

(* The same, for the steps of AuthAccount. *)
LEMMA RequestAccount ==
  ASSUME TypeOK, AuthInv, NEW r \in Req, AccountStep(r)
  PROVE  RequestShape'
<1> USE DEF Go, Outcome, Lands, tables, account, locals, TypeOK, AuthInv,
     RequestShape, FreshRequest, RotationRequest, FamilyShape, TailShape
<1>1. CASE ChangeCheckPassword(r)
  BY <1>1, NoneAssumption DEF ChangeCheckPassword
<1>2. ASSUME NEW o \in Outcomes, ForgotPassword(r, o) PROVE RequestShape'
  BY <1>2, NoneAssumption DEF ForgotPassword
<1>3. ASSUME NEW t \in Req, ResetLookup(r, t) PROVE RequestShape'
  BY <1>3, NoneAssumption DEF ResetLookup
<1>4. ASSUME NEW o \in Outcomes, ResetTake(r, o) PROVE RequestShape'
  BY <1>4, NoneAssumption DEF ResetTake
<1>5. ASSUME NEW o \in Outcomes, ResetRestore(r, o) PROVE RequestShape'
  BY <1>5, NoneAssumption DEF ResetRestore
<1>6. ASSUME NEW o \in Outcomes, UpdatePassword(r, o) PROVE RequestShape'
  BY <1>6, NoneAssumption DEF UpdatePassword
<1>7. ASSUME NEW o \in Outcomes, BumpAuthVersion(r, o) PROVE RequestShape'
  BY <1>7, NoneAssumption DEF BumpAuthVersion
<1>8. ASSUME NEW o \in Outcomes, RevokeKeys(r, o) PROVE RequestShape'
  BY <1>8, NoneAssumption DEF RevokeKeys, RevokedKeys, LiveKeys
<1>9. ASSUME NEW t \in Req, KeyByToken(r, t) PROVE RequestShape'
  BY <1>9, NoneAssumption DEF KeyByToken, AccessAccepted
<1>10. ASSUME NEW t \in Req, KeyByKey(r, t) PROVE RequestShape'
  BY <1>10, NoneAssumption DEF KeyByKey, authenticate_api_key
<1>11. ASSUME NEW o \in Outcomes, KeyInsert(r, o) PROVE RequestShape'
  BY <1>11, NoneAssumption DEF KeyInsert
<1>12. CASE KeyRecheckFamily(r)
  BY <1>12, NoneAssumption DEF KeyRecheckFamily
<1>13. CASE KeyRecheckVersion(r)
  BY <1>13, NoneAssumption DEF KeyRecheckVersion
<1>14. CASE KeyRecheckKey(r)
  BY <1>14, NoneAssumption DEF KeyRecheckKey
<1>15. CASE KeyRecheckFails(r)
  BY <1>15, NoneAssumption DEF KeyRecheckFails
<1>16. ASSUME NEW o \in Outcomes, KeyWithdraw(r, o) PROVE RequestShape'
  BY <1>16, NoneAssumption DEF KeyWithdraw, RevokedKeys
<1>17. ASSUME NEW k \in Req, NEW o \in Outcomes, KeyRevoke(r, k, o)
      PROVE RequestShape'
  BY <1>17, NoneAssumption DEF KeyRevoke, RevokedKeys
<1>18. CASE AdminStart(r)
  BY <1>18, NoneAssumption DEF AdminStart
<1>19. ASSUME NEW o \in Outcomes, AdminWrite(r, o) PROVE RequestShape'
  BY <1>19, NoneAssumption DEF AdminWrite
<1>20. QED
  BY <1>1, <1>2, <1>3, <1>4, <1>5, <1>6, <1>7, <1>8, <1>9, <1>10, <1>11,
     <1>12, <1>13, <1>14, <1>15, <1>16, <1>17, <1>18, <1>19 DEF AccountStep

(* The shared tails are reached from the handlers that call them. *)
LEMMA TailSession ==
  ASSUME TypeOK, AuthInv, NEW r \in Req, SessionStep(r)
  PROVE  TailShape'
<1> USE DEF Go, Outcome, Lands, tables, account, locals, TypeOK, AuthInv,
     RequestShape, FreshRequest, RotationRequest, TailShape
<1>1. CASE LoginReadUser(r)
  BY <1>1 DEF LoginReadUser
<1>2. CASE LoginCheckPassword(r)
  BY <1>2 DEF LoginCheckPassword
<1>3. CASE LoginReadRoles(r)
  BY <1>3 DEF LoginReadRoles
<1>4. ASSUME NEW o \in Outcomes, LoginWrite(r, o) PROVE TailShape'
  BY <1>4 DEF LoginWrite
<1>5. ASSUME NEW t \in Req, RefreshLookup(r, t) PROVE TailShape'
  BY <1>5 DEF RefreshLookup
<1>6. CASE RefreshReplay(r)
  BY <1>6 DEF RefreshReplay
<1>7. CASE RefreshReadUser(r)
  BY <1>7 DEF RefreshReadUser
<1>8. CASE RefreshReadRoles(r)
  BY <1>8 DEF RefreshReadRoles
<1>9. ASSUME NEW o \in Outcomes, RefreshClaim(r, o) PROVE TailShape'
  BY <1>9 DEF RefreshClaim, Revoked
<1>10. ASSUME NEW o \in Outcomes, RefreshInsert(r, o) PROVE TailShape'
  BY <1>10 DEF RefreshInsert
<1>11. ASSUME NEW o \in Outcomes, RefreshTouch(r, o) PROVE TailShape'
  BY <1>11 DEF RefreshTouch
<1>12. CASE RefreshUnanswered(r)
  BY <1>12 DEF RefreshUnanswered
<1>13. ASSUME NEW o \in Outcomes, RefreshEnded(r, o) PROVE TailShape'
  BY <1>13 DEF RefreshEnded, Revoked, Family
<1>14. ASSUME NEW o \in Outcomes, EndDelete(r, o) PROVE TailShape'
  BY <1>14 DEF EndDelete, EndAnswer
<1>15. ASSUME NEW o \in Outcomes, EndRevoke(r, o) PROVE TailShape'
  BY <1>15 DEF EndRevoke, Revoked, EndAnswer, Family
<1>16. ASSUME NEW t \in Req, RevokeDevice(r, t) PROVE TailShape'
  BY <1>16 DEF RevokeDevice
<1>17. CASE Logout(r)
  BY <1>17 DEF Logout
<1>18. ASSUME NEW o \in Outcomes, AllDelete(r, o) PROVE TailShape'
  BY <1>18 DEF AllDelete
<1>19. ASSUME NEW o \in Outcomes, AllRevoke(r, o) PROVE TailShape'
  BY <1>19 DEF AllRevoke, Revoked, AllRows
<1>20. CASE ReadFails(r)
  BY <1>20 DEF ReadFails
<1>21. QED
  BY <1>1, <1>2, <1>3, <1>4, <1>5, <1>6, <1>7, <1>8, <1>9, <1>10, <1>11,
     <1>12, <1>13, <1>14, <1>15, <1>16, <1>17, <1>18, <1>19, <1>20 DEF SessionStep

(* The same, for the steps of AuthAccount. *)
LEMMA TailAccount ==
  ASSUME TypeOK, AuthInv, NEW r \in Req, AccountStep(r)
  PROVE  TailShape'
<1> USE DEF Go, Outcome, Lands, tables, account, locals, TypeOK, AuthInv,
     RequestShape, FreshRequest, RotationRequest, TailShape
<1>1. CASE ChangeCheckPassword(r)
  BY <1>1 DEF ChangeCheckPassword
<1>2. ASSUME NEW o \in Outcomes, ForgotPassword(r, o) PROVE TailShape'
  BY <1>2 DEF ForgotPassword
<1>3. ASSUME NEW t \in Req, ResetLookup(r, t) PROVE TailShape'
  BY <1>3 DEF ResetLookup
<1>4. ASSUME NEW o \in Outcomes, ResetTake(r, o) PROVE TailShape'
  BY <1>4 DEF ResetTake
<1>5. ASSUME NEW o \in Outcomes, ResetRestore(r, o) PROVE TailShape'
  BY <1>5 DEF ResetRestore
<1>6. ASSUME NEW o \in Outcomes, UpdatePassword(r, o) PROVE TailShape'
  BY <1>6 DEF UpdatePassword
<1>7. ASSUME NEW o \in Outcomes, BumpAuthVersion(r, o) PROVE TailShape'
  BY <1>7 DEF BumpAuthVersion
<1>8. ASSUME NEW o \in Outcomes, RevokeKeys(r, o) PROVE TailShape'
  BY <1>8 DEF RevokeKeys, RevokedKeys, LiveKeys
<1>9. ASSUME NEW t \in Req, KeyByToken(r, t) PROVE TailShape'
  BY <1>9 DEF KeyByToken, AccessAccepted
<1>10. ASSUME NEW t \in Req, KeyByKey(r, t) PROVE TailShape'
  BY <1>10 DEF KeyByKey, authenticate_api_key
<1>11. ASSUME NEW o \in Outcomes, KeyInsert(r, o) PROVE TailShape'
  BY <1>11 DEF KeyInsert
<1>12. CASE KeyRecheckFamily(r)
  BY <1>12 DEF KeyRecheckFamily
<1>13. CASE KeyRecheckVersion(r)
  BY <1>13 DEF KeyRecheckVersion
<1>14. CASE KeyRecheckKey(r)
  BY <1>14 DEF KeyRecheckKey
<1>15. CASE KeyRecheckFails(r)
  BY <1>15 DEF KeyRecheckFails
<1>16. ASSUME NEW o \in Outcomes, KeyWithdraw(r, o) PROVE TailShape'
  BY <1>16 DEF KeyWithdraw, RevokedKeys
<1>17. ASSUME NEW k \in Req, NEW o \in Outcomes, KeyRevoke(r, k, o)
      PROVE TailShape'
  BY <1>17 DEF KeyRevoke, RevokedKeys
<1>18. CASE AdminStart(r)
  BY <1>18 DEF AdminStart
<1>19. ASSUME NEW o \in Outcomes, AdminWrite(r, o) PROVE TailShape'
  BY <1>19 DEF AdminWrite
<1>20. QED
  BY <1>1, <1>2, <1>3, <1>4, <1>5, <1>6, <1>7, <1>8, <1>9, <1>10, <1>11,
     <1>12, <1>13, <1>14, <1>15, <1>16, <1>17, <1>18, <1>19 DEF AccountStep

(* Families are sign-ins whose batch landed; a deleted session row stays gone. *)
LEMMA FamilySession ==
  ASSUME TypeOK, AuthInv, NEW r \in Req, SessionStep(r)
  PROVE  FamilyShape'
<1> USE DEF Go, Outcome, Lands, tables, account, locals, TypeOK, AuthInv,
     RequestShape, FreshRequest, RotationRequest, FamilyShape
<1>1. CASE LoginReadUser(r)
  BY <1>1, NoneAssumption DEF LoginReadUser
<1>2. CASE LoginCheckPassword(r)
  BY <1>2, NoneAssumption DEF LoginCheckPassword
<1>3. CASE LoginReadRoles(r)
  BY <1>3, NoneAssumption DEF LoginReadRoles
<1>4. ASSUME NEW o \in Outcomes, LoginWrite(r, o) PROVE FamilyShape'
  BY <1>4, NoneAssumption DEF LoginWrite
<1>5. ASSUME NEW t \in Req, RefreshLookup(r, t) PROVE FamilyShape'
  BY <1>5, NoneAssumption DEF RefreshLookup
<1>6. CASE RefreshReplay(r)
  BY <1>6, NoneAssumption DEF RefreshReplay
<1>7. CASE RefreshReadUser(r)
  BY <1>7, NoneAssumption DEF RefreshReadUser
<1>8. CASE RefreshReadRoles(r)
  BY <1>8, NoneAssumption DEF RefreshReadRoles
<1>9. ASSUME NEW o \in Outcomes, RefreshClaim(r, o) PROVE FamilyShape'
  BY <1>9, NoneAssumption DEF RefreshClaim, Revoked
<1>10. ASSUME NEW o \in Outcomes, RefreshInsert(r, o) PROVE FamilyShape'
  BY <1>10, NoneAssumption DEF RefreshInsert
<1>11. ASSUME NEW o \in Outcomes, RefreshTouch(r, o) PROVE FamilyShape'
  BY <1>11, NoneAssumption DEF RefreshTouch
<1>12. CASE RefreshUnanswered(r)
  BY <1>12, NoneAssumption DEF RefreshUnanswered
<1>13. ASSUME NEW o \in Outcomes, RefreshEnded(r, o) PROVE FamilyShape'
  BY <1>13, NoneAssumption DEF RefreshEnded, Revoked, Family
<1>14. ASSUME NEW o \in Outcomes, EndDelete(r, o) PROVE FamilyShape'
  BY <1>14, NoneAssumption DEF EndDelete, EndAnswer
<1>15. ASSUME NEW o \in Outcomes, EndRevoke(r, o) PROVE FamilyShape'
  BY <1>15, NoneAssumption DEF EndRevoke, Revoked, EndAnswer, Family
<1>16. ASSUME NEW t \in Req, RevokeDevice(r, t) PROVE FamilyShape'
  BY <1>16, NoneAssumption DEF RevokeDevice
<1>17. CASE Logout(r)
  BY <1>17, NoneAssumption DEF Logout
<1>18. ASSUME NEW o \in Outcomes, AllDelete(r, o) PROVE FamilyShape'
  BY <1>18, NoneAssumption DEF AllDelete
<1>19. ASSUME NEW o \in Outcomes, AllRevoke(r, o) PROVE FamilyShape'
  BY <1>19, NoneAssumption DEF AllRevoke, Revoked, AllRows
<1>20. CASE ReadFails(r)
  BY <1>20, NoneAssumption DEF ReadFails
<1>21. QED
  BY <1>1, <1>2, <1>3, <1>4, <1>5, <1>6, <1>7, <1>8, <1>9, <1>10, <1>11,
     <1>12, <1>13, <1>14, <1>15, <1>16, <1>17, <1>18, <1>19, <1>20 DEF SessionStep

(* The same, for the steps of AuthAccount. *)
LEMMA FamilyAccount ==
  ASSUME TypeOK, AuthInv, NEW r \in Req, AccountStep(r)
  PROVE  FamilyShape'
<1> USE DEF Go, Outcome, Lands, tables, account, locals, TypeOK, AuthInv,
     RequestShape, FreshRequest, RotationRequest, FamilyShape
<1>1. CASE ChangeCheckPassword(r)
  BY <1>1, NoneAssumption DEF ChangeCheckPassword
<1>2. ASSUME NEW o \in Outcomes, ForgotPassword(r, o) PROVE FamilyShape'
  BY <1>2, NoneAssumption DEF ForgotPassword
<1>3. ASSUME NEW t \in Req, ResetLookup(r, t) PROVE FamilyShape'
  BY <1>3, NoneAssumption DEF ResetLookup
<1>4. ASSUME NEW o \in Outcomes, ResetTake(r, o) PROVE FamilyShape'
  BY <1>4, NoneAssumption DEF ResetTake
<1>5. ASSUME NEW o \in Outcomes, ResetRestore(r, o) PROVE FamilyShape'
  BY <1>5, NoneAssumption DEF ResetRestore
<1>6. ASSUME NEW o \in Outcomes, UpdatePassword(r, o) PROVE FamilyShape'
  BY <1>6, NoneAssumption DEF UpdatePassword
<1>7. ASSUME NEW o \in Outcomes, BumpAuthVersion(r, o) PROVE FamilyShape'
  BY <1>7, NoneAssumption DEF BumpAuthVersion
<1>8. ASSUME NEW o \in Outcomes, RevokeKeys(r, o) PROVE FamilyShape'
  BY <1>8, NoneAssumption DEF RevokeKeys, RevokedKeys, LiveKeys
<1>9. ASSUME NEW t \in Req, KeyByToken(r, t) PROVE FamilyShape'
  BY <1>9, NoneAssumption DEF KeyByToken, AccessAccepted
<1>10. ASSUME NEW t \in Req, KeyByKey(r, t) PROVE FamilyShape'
  BY <1>10, NoneAssumption DEF KeyByKey, authenticate_api_key
<1>11. ASSUME NEW o \in Outcomes, KeyInsert(r, o) PROVE FamilyShape'
  BY <1>11, NoneAssumption DEF KeyInsert
<1>12. CASE KeyRecheckFamily(r)
  BY <1>12, NoneAssumption DEF KeyRecheckFamily
<1>13. CASE KeyRecheckVersion(r)
  BY <1>13, NoneAssumption DEF KeyRecheckVersion
<1>14. CASE KeyRecheckKey(r)
  BY <1>14, NoneAssumption DEF KeyRecheckKey
<1>15. CASE KeyRecheckFails(r)
  BY <1>15, NoneAssumption DEF KeyRecheckFails
<1>16. ASSUME NEW o \in Outcomes, KeyWithdraw(r, o) PROVE FamilyShape'
  BY <1>16, NoneAssumption DEF KeyWithdraw, RevokedKeys
<1>17. ASSUME NEW k \in Req, NEW o \in Outcomes, KeyRevoke(r, k, o)
      PROVE FamilyShape'
  BY <1>17, NoneAssumption DEF KeyRevoke, RevokedKeys
<1>18. CASE AdminStart(r)
  BY <1>18, NoneAssumption DEF AdminStart
<1>19. ASSUME NEW o \in Outcomes, AdminWrite(r, o) PROVE FamilyShape'
  BY <1>19, NoneAssumption DEF AdminWrite
<1>20. QED
  BY <1>1, <1>2, <1>3, <1>4, <1>5, <1>6, <1>7, <1>8, <1>9, <1>10, <1>11,
     <1>12, <1>13, <1>14, <1>15, <1>16, <1>17, <1>18, <1>19 DEF AccountStep

(* The claim passes the right to continue a family on, never doubles it. *)
LEMMA HolderSession ==
  ASSUME TypeOK, AuthInv, NEW r \in Req, SessionStep(r)
  PROVE  OneHolder'
<1> USE DEF Go, Outcome, Lands, tables, account, locals, TypeOK, AuthInv,
     RequestShape, FreshRequest, RotationRequest, FamilyShape, OneHolder,
     Holds
<1>1. CASE LoginReadUser(r)
  BY <1>1, NoneAssumption DEF LoginReadUser
<1>2. CASE LoginCheckPassword(r)
  BY <1>2, NoneAssumption DEF LoginCheckPassword
<1>3. CASE LoginReadRoles(r)
  BY <1>3, NoneAssumption DEF LoginReadRoles
<1>4. ASSUME NEW o \in Outcomes, LoginWrite(r, o) PROVE OneHolder'
  BY <1>4, NoneAssumption DEF LoginWrite
<1>5. ASSUME NEW t \in Req, RefreshLookup(r, t) PROVE OneHolder'
  BY <1>5, NoneAssumption DEF RefreshLookup
<1>6. CASE RefreshReplay(r)
  BY <1>6, NoneAssumption DEF RefreshReplay
<1>7. CASE RefreshReadUser(r)
  BY <1>7, NoneAssumption DEF RefreshReadUser
<1>8. CASE RefreshReadRoles(r)
  BY <1>8, NoneAssumption DEF RefreshReadRoles
<1>9. ASSUME NEW o \in Outcomes, RefreshClaim(r, o) PROVE OneHolder'
  BY <1>9, NoneAssumption DEF RefreshClaim, Revoked
<1>10. ASSUME NEW o \in Outcomes, RefreshInsert(r, o) PROVE OneHolder'
  BY <1>10, NoneAssumption DEF RefreshInsert
<1>11. ASSUME NEW o \in Outcomes, RefreshTouch(r, o) PROVE OneHolder'
  <2>1. UNCHANGED <<row, fam, cred>>
    BY <1>11 DEF RefreshTouch
  <2>2. ASSUME NEW q \in Req
        PROVE /\ pc'[q] = "rf_insert" => pc[q] = "rf_insert"
              /\ pc'[q] \in {"rf_insert", "rf_touch", "issued"}
                   => pc[q] \in {"rf_insert", "rf_touch", "issued"}
    BY <1>11 DEF RefreshTouch
  <2>3. QED
    BY <2>1, <2>2
<1>12. CASE RefreshUnanswered(r)
  BY <1>12, NoneAssumption DEF RefreshUnanswered
<1>13. ASSUME NEW o \in Outcomes, RefreshEnded(r, o) PROVE OneHolder'
  BY <1>13, NoneAssumption DEF RefreshEnded, Revoked, Family
<1>14. ASSUME NEW o \in Outcomes, EndDelete(r, o) PROVE OneHolder'
  BY <1>14, NoneAssumption DEF EndDelete, EndAnswer
<1>15. ASSUME NEW o \in Outcomes, EndRevoke(r, o) PROVE OneHolder'
  BY <1>15, NoneAssumption DEF EndRevoke, Revoked, EndAnswer, Family
<1>16. ASSUME NEW t \in Req, RevokeDevice(r, t) PROVE OneHolder'
  BY <1>16, NoneAssumption DEF RevokeDevice
<1>17. CASE Logout(r)
  BY <1>17, NoneAssumption DEF Logout
<1>18. ASSUME NEW o \in Outcomes, AllDelete(r, o) PROVE OneHolder'
  BY <1>18, NoneAssumption DEF AllDelete
<1>19. ASSUME NEW o \in Outcomes, AllRevoke(r, o) PROVE OneHolder'
  BY <1>19, NoneAssumption DEF AllRevoke, Revoked, AllRows
<1>20. CASE ReadFails(r)
  BY <1>20, NoneAssumption DEF ReadFails
<1>21. QED
  BY <1>1, <1>2, <1>3, <1>4, <1>5, <1>6, <1>7, <1>8, <1>9, <1>10, <1>11,
     <1>12, <1>13, <1>14, <1>15, <1>16, <1>17, <1>18, <1>19, <1>20 DEF SessionStep

(* The same, for the steps of AuthAccount. *)
LEMMA HolderAccount ==
  ASSUME TypeOK, AuthInv, NEW r \in Req, AccountStep(r)
  PROVE  OneHolder'
<1> USE DEF Go, Outcome, Lands, tables, account, locals, TypeOK, AuthInv,
     RequestShape, FreshRequest, RotationRequest, FamilyShape, OneHolder,
     Holds
<1>1. CASE ChangeCheckPassword(r)
  BY <1>1, NoneAssumption DEF ChangeCheckPassword
<1>2. ASSUME NEW o \in Outcomes, ForgotPassword(r, o) PROVE OneHolder'
  BY <1>2, NoneAssumption DEF ForgotPassword
<1>3. ASSUME NEW t \in Req, ResetLookup(r, t) PROVE OneHolder'
  BY <1>3, NoneAssumption DEF ResetLookup
<1>4. ASSUME NEW o \in Outcomes, ResetTake(r, o) PROVE OneHolder'
  BY <1>4, NoneAssumption DEF ResetTake
<1>5. ASSUME NEW o \in Outcomes, ResetRestore(r, o) PROVE OneHolder'
  BY <1>5, NoneAssumption DEF ResetRestore
<1>6. ASSUME NEW o \in Outcomes, UpdatePassword(r, o) PROVE OneHolder'
  BY <1>6, NoneAssumption DEF UpdatePassword
<1>7. ASSUME NEW o \in Outcomes, BumpAuthVersion(r, o) PROVE OneHolder'
  BY <1>7, NoneAssumption DEF BumpAuthVersion
<1>8. ASSUME NEW o \in Outcomes, RevokeKeys(r, o) PROVE OneHolder'
  BY <1>8, NoneAssumption DEF RevokeKeys, RevokedKeys, LiveKeys
<1>9. ASSUME NEW t \in Req, KeyByToken(r, t) PROVE OneHolder'
  BY <1>9, NoneAssumption DEF KeyByToken, AccessAccepted
<1>10. ASSUME NEW t \in Req, KeyByKey(r, t) PROVE OneHolder'
  BY <1>10, NoneAssumption DEF KeyByKey, authenticate_api_key
<1>11. ASSUME NEW o \in Outcomes, KeyInsert(r, o) PROVE OneHolder'
  BY <1>11, NoneAssumption DEF KeyInsert
<1>12. CASE KeyRecheckFamily(r)
  BY <1>12, NoneAssumption DEF KeyRecheckFamily
<1>13. CASE KeyRecheckVersion(r)
  BY <1>13, NoneAssumption DEF KeyRecheckVersion
<1>14. CASE KeyRecheckKey(r)
  BY <1>14, NoneAssumption DEF KeyRecheckKey
<1>15. CASE KeyRecheckFails(r)
  BY <1>15, NoneAssumption DEF KeyRecheckFails
<1>16. ASSUME NEW o \in Outcomes, KeyWithdraw(r, o) PROVE OneHolder'
  BY <1>16, NoneAssumption DEF KeyWithdraw, RevokedKeys
<1>17. ASSUME NEW k \in Req, NEW o \in Outcomes, KeyRevoke(r, k, o)
      PROVE OneHolder'
  BY <1>17, NoneAssumption DEF KeyRevoke, RevokedKeys
<1>18. CASE AdminStart(r)
  BY <1>18, NoneAssumption DEF AdminStart
<1>19. ASSUME NEW o \in Outcomes, AdminWrite(r, o) PROVE OneHolder'
  BY <1>19, NoneAssumption DEF AdminWrite
<1>20. QED
  BY <1>1, <1>2, <1>3, <1>4, <1>5, <1>6, <1>7, <1>8, <1>9, <1>10, <1>11,
     <1>12, <1>13, <1>14, <1>15, <1>16, <1>17, <1>18, <1>19 DEF AccountStep

(* The account's counters only grow. *)
LEMMA ReadsSession ==
  ASSUME TypeOK, AuthInv, NEW r \in Req, SessionStep(r)
  PROVE  ReadsBehind'
<1> USE DEF Go, Outcome, Lands, tables, account, locals, TypeOK, AuthInv,
     RequestShape, FreshRequest, RotationRequest, ReadsBehind
<1>1. CASE LoginReadUser(r)
  BY <1>1 DEF LoginReadUser
<1>2. CASE LoginCheckPassword(r)
  BY <1>2 DEF LoginCheckPassword
<1>3. CASE LoginReadRoles(r)
  BY <1>3 DEF LoginReadRoles
<1>4. ASSUME NEW o \in Outcomes, LoginWrite(r, o) PROVE ReadsBehind'
  BY <1>4 DEF LoginWrite
<1>5. ASSUME NEW t \in Req, RefreshLookup(r, t) PROVE ReadsBehind'
  BY <1>5 DEF RefreshLookup
<1>6. CASE RefreshReplay(r)
  BY <1>6 DEF RefreshReplay
<1>7. CASE RefreshReadUser(r)
  BY <1>7 DEF RefreshReadUser
<1>8. CASE RefreshReadRoles(r)
  BY <1>8 DEF RefreshReadRoles
<1>9. ASSUME NEW o \in Outcomes, RefreshClaim(r, o) PROVE ReadsBehind'
  BY <1>9 DEF RefreshClaim, Revoked
<1>10. ASSUME NEW o \in Outcomes, RefreshInsert(r, o) PROVE ReadsBehind'
  BY <1>10 DEF RefreshInsert
<1>11. ASSUME NEW o \in Outcomes, RefreshTouch(r, o) PROVE ReadsBehind'
  BY <1>11 DEF RefreshTouch
<1>12. CASE RefreshUnanswered(r)
  BY <1>12 DEF RefreshUnanswered
<1>13. ASSUME NEW o \in Outcomes, RefreshEnded(r, o) PROVE ReadsBehind'
  BY <1>13 DEF RefreshEnded, Revoked, Family
<1>14. ASSUME NEW o \in Outcomes, EndDelete(r, o) PROVE ReadsBehind'
  BY <1>14 DEF EndDelete, EndAnswer
<1>15. ASSUME NEW o \in Outcomes, EndRevoke(r, o) PROVE ReadsBehind'
  BY <1>15 DEF EndRevoke, Revoked, EndAnswer, Family
<1>16. ASSUME NEW t \in Req, RevokeDevice(r, t) PROVE ReadsBehind'
  BY <1>16 DEF RevokeDevice
<1>17. CASE Logout(r)
  BY <1>17 DEF Logout
<1>18. ASSUME NEW o \in Outcomes, AllDelete(r, o) PROVE ReadsBehind'
  BY <1>18 DEF AllDelete
<1>19. ASSUME NEW o \in Outcomes, AllRevoke(r, o) PROVE ReadsBehind'
  BY <1>19 DEF AllRevoke, Revoked, AllRows
<1>20. CASE ReadFails(r)
  BY <1>20 DEF ReadFails
<1>21. QED
  BY <1>1, <1>2, <1>3, <1>4, <1>5, <1>6, <1>7, <1>8, <1>9, <1>10, <1>11,
     <1>12, <1>13, <1>14, <1>15, <1>16, <1>17, <1>18, <1>19, <1>20 DEF SessionStep

(* The same, for the steps of AuthAccount. *)
LEMMA ReadsAccount ==
  ASSUME TypeOK, AuthInv, NEW r \in Req, AccountStep(r)
  PROVE  ReadsBehind'
<1> USE DEF Go, Outcome, Lands, tables, account, locals, TypeOK, AuthInv,
     RequestShape, FreshRequest, RotationRequest, ReadsBehind
<1>1. CASE ChangeCheckPassword(r)
  BY <1>1 DEF ChangeCheckPassword
<1>2. ASSUME NEW o \in Outcomes, ForgotPassword(r, o) PROVE ReadsBehind'
  BY <1>2 DEF ForgotPassword
<1>3. ASSUME NEW t \in Req, ResetLookup(r, t) PROVE ReadsBehind'
  BY <1>3 DEF ResetLookup
<1>4. ASSUME NEW o \in Outcomes, ResetTake(r, o) PROVE ReadsBehind'
  BY <1>4 DEF ResetTake
<1>5. ASSUME NEW o \in Outcomes, ResetRestore(r, o) PROVE ReadsBehind'
  BY <1>5 DEF ResetRestore
<1>6. ASSUME NEW o \in Outcomes, UpdatePassword(r, o) PROVE ReadsBehind'
  BY <1>6 DEF UpdatePassword
<1>7. ASSUME NEW o \in Outcomes, BumpAuthVersion(r, o) PROVE ReadsBehind'
  BY <1>7 DEF BumpAuthVersion
<1>8. ASSUME NEW o \in Outcomes, RevokeKeys(r, o) PROVE ReadsBehind'
  BY <1>8 DEF RevokeKeys, RevokedKeys, LiveKeys
<1>9. ASSUME NEW t \in Req, KeyByToken(r, t) PROVE ReadsBehind'
  BY <1>9 DEF KeyByToken, AccessAccepted
<1>10. ASSUME NEW t \in Req, KeyByKey(r, t) PROVE ReadsBehind'
  BY <1>10 DEF KeyByKey, authenticate_api_key
<1>11. ASSUME NEW o \in Outcomes, KeyInsert(r, o) PROVE ReadsBehind'
  BY <1>11 DEF KeyInsert
<1>12. CASE KeyRecheckFamily(r)
  BY <1>12 DEF KeyRecheckFamily
<1>13. CASE KeyRecheckVersion(r)
  BY <1>13 DEF KeyRecheckVersion
<1>14. CASE KeyRecheckKey(r)
  BY <1>14 DEF KeyRecheckKey
<1>15. CASE KeyRecheckFails(r)
  BY <1>15 DEF KeyRecheckFails
<1>16. ASSUME NEW o \in Outcomes, KeyWithdraw(r, o) PROVE ReadsBehind'
  BY <1>16 DEF KeyWithdraw, RevokedKeys
<1>17. ASSUME NEW k \in Req, NEW o \in Outcomes, KeyRevoke(r, k, o)
      PROVE ReadsBehind'
  BY <1>17 DEF KeyRevoke, RevokedKeys
<1>18. CASE AdminStart(r)
  BY <1>18 DEF AdminStart
<1>19. ASSUME NEW o \in Outcomes, AdminWrite(r, o) PROVE ReadsBehind'
  BY <1>19 DEF AdminWrite
<1>20. QED
  BY <1>1, <1>2, <1>3, <1>4, <1>5, <1>6, <1>7, <1>8, <1>9, <1>10, <1>11,
     <1>12, <1>13, <1>14, <1>15, <1>16, <1>17, <1>18, <1>19 DEF AccountStep

(* A version read before the old password was checked is behind the bump. *)
LEMMA PasswordSession ==
  ASSUME TypeOK, AuthInv, NEW r \in Req, SessionStep(r)
  PROVE  BumpOutdatesOldPasswords'
<1> USE DEF Go, Outcome, Lands, tables, account, locals, TypeOK, AuthInv,
     RequestShape, FreshRequest, RotationRequest, ReadsBehind,
     BumpOutdatesOldPasswords, Bumped, Judged, KeyShape, TailShape
<1>1. CASE LoginReadUser(r)
  BY <1>1, NoneAssumption DEF LoginReadUser
<1>2. CASE LoginCheckPassword(r)
  BY <1>2, NoneAssumption DEF LoginCheckPassword
<1>3. CASE LoginReadRoles(r)
  BY <1>3, NoneAssumption DEF LoginReadRoles
<1>4. ASSUME NEW o \in Outcomes, LoginWrite(r, o) PROVE BumpOutdatesOldPasswords'
  BY <1>4, NoneAssumption DEF LoginWrite
<1>5. ASSUME NEW t \in Req, RefreshLookup(r, t) PROVE BumpOutdatesOldPasswords'
  BY <1>5, NoneAssumption DEF RefreshLookup
<1>6. CASE RefreshReplay(r)
  BY <1>6, NoneAssumption DEF RefreshReplay
<1>7. CASE RefreshReadUser(r)
  BY <1>7, NoneAssumption DEF RefreshReadUser
<1>8. CASE RefreshReadRoles(r)
  BY <1>8, NoneAssumption DEF RefreshReadRoles
<1>9. ASSUME NEW o \in Outcomes, RefreshClaim(r, o) PROVE BumpOutdatesOldPasswords'
  BY <1>9, NoneAssumption DEF RefreshClaim, Revoked
<1>10. ASSUME NEW o \in Outcomes, RefreshInsert(r, o) PROVE BumpOutdatesOldPasswords'
  BY <1>10, NoneAssumption DEF RefreshInsert
<1>11. ASSUME NEW o \in Outcomes, RefreshTouch(r, o) PROVE BumpOutdatesOldPasswords'
  BY <1>11, NoneAssumption DEF RefreshTouch
<1>12. CASE RefreshUnanswered(r)
  BY <1>12, NoneAssumption DEF RefreshUnanswered
<1>13. ASSUME NEW o \in Outcomes, RefreshEnded(r, o) PROVE BumpOutdatesOldPasswords'
  BY <1>13, NoneAssumption DEF RefreshEnded, Revoked, Family
<1>14. ASSUME NEW o \in Outcomes, EndDelete(r, o) PROVE BumpOutdatesOldPasswords'
  BY <1>14, NoneAssumption DEF EndDelete, EndAnswer
<1>15. ASSUME NEW o \in Outcomes, EndRevoke(r, o) PROVE BumpOutdatesOldPasswords'
  BY <1>15, NoneAssumption DEF EndRevoke, Revoked, EndAnswer, Family
<1>16. ASSUME NEW t \in Req, RevokeDevice(r, t) PROVE BumpOutdatesOldPasswords'
  BY <1>16, NoneAssumption DEF RevokeDevice
<1>17. CASE Logout(r)
  BY <1>17, NoneAssumption DEF Logout
<1>18. ASSUME NEW o \in Outcomes, AllDelete(r, o) PROVE BumpOutdatesOldPasswords'
  BY <1>18, NoneAssumption DEF AllDelete
<1>19. ASSUME NEW o \in Outcomes, AllRevoke(r, o) PROVE BumpOutdatesOldPasswords'
  BY <1>19, NoneAssumption DEF AllRevoke, Revoked, AllRows
<1>20. CASE ReadFails(r)
  BY <1>20, NoneAssumption DEF ReadFails
<1>21. QED
  BY <1>1, <1>2, <1>3, <1>4, <1>5, <1>6, <1>7, <1>8, <1>9, <1>10, <1>11,
     <1>12, <1>13, <1>14, <1>15, <1>16, <1>17, <1>18, <1>19, <1>20 DEF SessionStep

(* The same, for the steps of AuthAccount. *)
LEMMA PasswordAccount ==
  ASSUME TypeOK, AuthInv, NEW r \in Req, AccountStep(r)
  PROVE  BumpOutdatesOldPasswords'
<1> USE DEF Go, Outcome, Lands, tables, account, locals, TypeOK, AuthInv,
     RequestShape, FreshRequest, RotationRequest, ReadsBehind,
     BumpOutdatesOldPasswords, Bumped, Judged, KeyShape, TailShape
<1>1. CASE ChangeCheckPassword(r)
  BY <1>1, NoneAssumption DEF ChangeCheckPassword
<1>2. ASSUME NEW o \in Outcomes, ForgotPassword(r, o) PROVE BumpOutdatesOldPasswords'
  BY <1>2, NoneAssumption DEF ForgotPassword
<1>3. ASSUME NEW t \in Req, ResetLookup(r, t) PROVE BumpOutdatesOldPasswords'
  BY <1>3, NoneAssumption DEF ResetLookup
<1>4. ASSUME NEW o \in Outcomes, ResetTake(r, o) PROVE BumpOutdatesOldPasswords'
  BY <1>4, NoneAssumption DEF ResetTake
<1>5. ASSUME NEW o \in Outcomes, ResetRestore(r, o) PROVE BumpOutdatesOldPasswords'
  BY <1>5, NoneAssumption DEF ResetRestore
<1>6. ASSUME NEW o \in Outcomes, UpdatePassword(r, o) PROVE BumpOutdatesOldPasswords'
  BY <1>6, NoneAssumption DEF UpdatePassword
<1>7. ASSUME NEW o \in Outcomes, BumpAuthVersion(r, o) PROVE BumpOutdatesOldPasswords'
  BY <1>7, NoneAssumption DEF BumpAuthVersion
<1>8. ASSUME NEW o \in Outcomes, RevokeKeys(r, o) PROVE BumpOutdatesOldPasswords'
  BY <1>8, NoneAssumption DEF RevokeKeys, RevokedKeys, LiveKeys
<1>9. ASSUME NEW t \in Req, KeyByToken(r, t) PROVE BumpOutdatesOldPasswords'
  BY <1>9, NoneAssumption DEF KeyByToken, AccessAccepted
<1>10. ASSUME NEW t \in Req, KeyByKey(r, t) PROVE BumpOutdatesOldPasswords'
  BY <1>10, NoneAssumption DEF KeyByKey, authenticate_api_key
<1>11. ASSUME NEW o \in Outcomes, KeyInsert(r, o) PROVE BumpOutdatesOldPasswords'
  BY <1>11, NoneAssumption DEF KeyInsert
<1>12. CASE KeyRecheckFamily(r)
  BY <1>12, NoneAssumption DEF KeyRecheckFamily
<1>13. CASE KeyRecheckVersion(r)
  BY <1>13, NoneAssumption DEF KeyRecheckVersion
<1>14. CASE KeyRecheckKey(r)
  BY <1>14, NoneAssumption DEF KeyRecheckKey
<1>15. CASE KeyRecheckFails(r)
  BY <1>15, NoneAssumption DEF KeyRecheckFails
<1>16. ASSUME NEW o \in Outcomes, KeyWithdraw(r, o) PROVE BumpOutdatesOldPasswords'
  BY <1>16, NoneAssumption DEF KeyWithdraw, RevokedKeys
<1>17. ASSUME NEW k \in Req, NEW o \in Outcomes, KeyRevoke(r, k, o)
      PROVE BumpOutdatesOldPasswords'
  BY <1>17, NoneAssumption DEF KeyRevoke, RevokedKeys
<1>18. CASE AdminStart(r)
  BY <1>18, NoneAssumption DEF AdminStart
<1>19. ASSUME NEW o \in Outcomes, AdminWrite(r, o) PROVE BumpOutdatesOldPasswords'
  BY <1>19, NoneAssumption DEF AdminWrite
<1>20. QED
  BY <1>1, <1>2, <1>3, <1>4, <1>5, <1>6, <1>7, <1>8, <1>9, <1>10, <1>11,
     <1>12, <1>13, <1>14, <1>15, <1>16, <1>17, <1>18, <1>19 DEF AccountStep

(* A version read before the old roles were is behind the bump. *)
LEMMA RolesSession ==
  ASSUME TypeOK, AuthInv, NEW r \in Req, SessionStep(r)
  PROVE  BumpOutdatesOldRoles'
<1> USE DEF Go, Outcome, Lands, tables, account, locals, TypeOK, AuthInv,
     RequestShape, FreshRequest, RotationRequest, ReadsBehind,
     BumpOutdatesOldRoles, CarriesRoles, TailShape
<1>1. CASE LoginReadUser(r)
  BY <1>1 DEF LoginReadUser
<1>2. CASE LoginCheckPassword(r)
  BY <1>2 DEF LoginCheckPassword
<1>3. CASE LoginReadRoles(r)
  BY <1>3 DEF LoginReadRoles
<1>4. ASSUME NEW o \in Outcomes, LoginWrite(r, o) PROVE BumpOutdatesOldRoles'
  BY <1>4 DEF LoginWrite
<1>5. ASSUME NEW t \in Req, RefreshLookup(r, t) PROVE BumpOutdatesOldRoles'
  BY <1>5 DEF RefreshLookup
<1>6. CASE RefreshReplay(r)
  BY <1>6 DEF RefreshReplay
<1>7. CASE RefreshReadUser(r)
  BY <1>7 DEF RefreshReadUser
<1>8. CASE RefreshReadRoles(r)
  BY <1>8 DEF RefreshReadRoles
<1>9. ASSUME NEW o \in Outcomes, RefreshClaim(r, o) PROVE BumpOutdatesOldRoles'
  BY <1>9 DEF RefreshClaim, Revoked
<1>10. ASSUME NEW o \in Outcomes, RefreshInsert(r, o) PROVE BumpOutdatesOldRoles'
  BY <1>10 DEF RefreshInsert
<1>11. ASSUME NEW o \in Outcomes, RefreshTouch(r, o) PROVE BumpOutdatesOldRoles'
  BY <1>11 DEF RefreshTouch
<1>12. CASE RefreshUnanswered(r)
  BY <1>12 DEF RefreshUnanswered
<1>13. ASSUME NEW o \in Outcomes, RefreshEnded(r, o) PROVE BumpOutdatesOldRoles'
  BY <1>13 DEF RefreshEnded, Revoked, Family
<1>14. ASSUME NEW o \in Outcomes, EndDelete(r, o) PROVE BumpOutdatesOldRoles'
  BY <1>14 DEF EndDelete, EndAnswer
<1>15. ASSUME NEW o \in Outcomes, EndRevoke(r, o) PROVE BumpOutdatesOldRoles'
  BY <1>15 DEF EndRevoke, Revoked, EndAnswer, Family
<1>16. ASSUME NEW t \in Req, RevokeDevice(r, t) PROVE BumpOutdatesOldRoles'
  BY <1>16 DEF RevokeDevice
<1>17. CASE Logout(r)
  BY <1>17 DEF Logout
<1>18. ASSUME NEW o \in Outcomes, AllDelete(r, o) PROVE BumpOutdatesOldRoles'
  BY <1>18 DEF AllDelete
<1>19. ASSUME NEW o \in Outcomes, AllRevoke(r, o) PROVE BumpOutdatesOldRoles'
  BY <1>19 DEF AllRevoke, Revoked, AllRows
<1>20. CASE ReadFails(r)
  BY <1>20 DEF ReadFails
<1>21. QED
  BY <1>1, <1>2, <1>3, <1>4, <1>5, <1>6, <1>7, <1>8, <1>9, <1>10, <1>11,
     <1>12, <1>13, <1>14, <1>15, <1>16, <1>17, <1>18, <1>19, <1>20 DEF SessionStep

(* The same, for the steps of AuthAccount. *)
LEMMA RolesAccount ==
  ASSUME TypeOK, AuthInv, NEW r \in Req, AccountStep(r)
  PROVE  BumpOutdatesOldRoles'
<1> USE DEF Go, Outcome, Lands, tables, account, locals, TypeOK, AuthInv,
     RequestShape, FreshRequest, RotationRequest, ReadsBehind,
     BumpOutdatesOldRoles, CarriesRoles, TailShape
<1>1. CASE ChangeCheckPassword(r)
  BY <1>1 DEF ChangeCheckPassword
<1>2. ASSUME NEW o \in Outcomes, ForgotPassword(r, o) PROVE BumpOutdatesOldRoles'
  BY <1>2 DEF ForgotPassword
<1>3. ASSUME NEW t \in Req, ResetLookup(r, t) PROVE BumpOutdatesOldRoles'
  BY <1>3 DEF ResetLookup
<1>4. ASSUME NEW o \in Outcomes, ResetTake(r, o) PROVE BumpOutdatesOldRoles'
  BY <1>4 DEF ResetTake
<1>5. ASSUME NEW o \in Outcomes, ResetRestore(r, o) PROVE BumpOutdatesOldRoles'
  BY <1>5 DEF ResetRestore
<1>6. ASSUME NEW o \in Outcomes, UpdatePassword(r, o) PROVE BumpOutdatesOldRoles'
  BY <1>6 DEF UpdatePassword
<1>7. ASSUME NEW o \in Outcomes, BumpAuthVersion(r, o) PROVE BumpOutdatesOldRoles'
  BY <1>7 DEF BumpAuthVersion
<1>8. ASSUME NEW o \in Outcomes, RevokeKeys(r, o) PROVE BumpOutdatesOldRoles'
  BY <1>8 DEF RevokeKeys, RevokedKeys, LiveKeys
<1>9. ASSUME NEW t \in Req, KeyByToken(r, t) PROVE BumpOutdatesOldRoles'
  BY <1>9 DEF KeyByToken, AccessAccepted
<1>10. ASSUME NEW t \in Req, KeyByKey(r, t) PROVE BumpOutdatesOldRoles'
  BY <1>10 DEF KeyByKey, authenticate_api_key
<1>11. ASSUME NEW o \in Outcomes, KeyInsert(r, o) PROVE BumpOutdatesOldRoles'
  BY <1>11 DEF KeyInsert
<1>12. CASE KeyRecheckFamily(r)
  BY <1>12 DEF KeyRecheckFamily
<1>13. CASE KeyRecheckVersion(r)
  BY <1>13 DEF KeyRecheckVersion
<1>14. CASE KeyRecheckKey(r)
  BY <1>14 DEF KeyRecheckKey
<1>15. CASE KeyRecheckFails(r)
  BY <1>15 DEF KeyRecheckFails
<1>16. ASSUME NEW o \in Outcomes, KeyWithdraw(r, o) PROVE BumpOutdatesOldRoles'
  BY <1>16 DEF KeyWithdraw, RevokedKeys
<1>17. ASSUME NEW k \in Req, NEW o \in Outcomes, KeyRevoke(r, k, o)
      PROVE BumpOutdatesOldRoles'
  BY <1>17 DEF KeyRevoke, RevokedKeys
<1>18. CASE AdminStart(r)
  BY <1>18 DEF AdminStart
<1>19. ASSUME NEW o \in Outcomes, AdminWrite(r, o) PROVE BumpOutdatesOldRoles'
  BY <1>19 DEF AdminWrite
<1>20. QED
  BY <1>1, <1>2, <1>3, <1>4, <1>5, <1>6, <1>7, <1>8, <1>9, <1>10, <1>11,
     <1>12, <1>13, <1>14, <1>15, <1>16, <1>17, <1>18, <1>19 DEF AccountStep

(* A key on an old credential is revoked, or fails its re-check. *)
LEMMA KeySession ==
  ASSUME TypeOK, AuthInv, NEW r \in Req, SessionStep(r)
  PROVE  KeyShape'
<1> USE DEF Go, Outcome, Lands, tables, account, locals, TypeOK, AuthInv,
     RequestShape, FreshRequest, RotationRequest, KeyShape,
     BumpOutdatesOldPasswords, Bumped, Judged, TailShape
<1>1. CASE LoginReadUser(r)
  BY <1>1, NoneAssumption DEF LoginReadUser
<1>2. CASE LoginCheckPassword(r)
  BY <1>2, NoneAssumption DEF LoginCheckPassword
<1>3. CASE LoginReadRoles(r)
  BY <1>3, NoneAssumption DEF LoginReadRoles
<1>4. ASSUME NEW o \in Outcomes, LoginWrite(r, o) PROVE KeyShape'
  BY <1>4, NoneAssumption DEF LoginWrite
<1>5. ASSUME NEW t \in Req, RefreshLookup(r, t) PROVE KeyShape'
  BY <1>5, NoneAssumption DEF RefreshLookup
<1>6. CASE RefreshReplay(r)
  BY <1>6, NoneAssumption DEF RefreshReplay
<1>7. CASE RefreshReadUser(r)
  BY <1>7, NoneAssumption DEF RefreshReadUser
<1>8. CASE RefreshReadRoles(r)
  BY <1>8, NoneAssumption DEF RefreshReadRoles
<1>9. ASSUME NEW o \in Outcomes, RefreshClaim(r, o) PROVE KeyShape'
  BY <1>9, NoneAssumption DEF RefreshClaim, Revoked
<1>10. ASSUME NEW o \in Outcomes, RefreshInsert(r, o) PROVE KeyShape'
  BY <1>10, NoneAssumption DEF RefreshInsert
<1>11. ASSUME NEW o \in Outcomes, RefreshTouch(r, o) PROVE KeyShape'
  BY <1>11, NoneAssumption DEF RefreshTouch
<1>12. CASE RefreshUnanswered(r)
  BY <1>12, NoneAssumption DEF RefreshUnanswered
<1>13. ASSUME NEW o \in Outcomes, RefreshEnded(r, o) PROVE KeyShape'
  BY <1>13, NoneAssumption DEF RefreshEnded, Revoked, Family
<1>14. ASSUME NEW o \in Outcomes, EndDelete(r, o) PROVE KeyShape'
  BY <1>14, NoneAssumption DEF EndDelete, EndAnswer
<1>15. ASSUME NEW o \in Outcomes, EndRevoke(r, o) PROVE KeyShape'
  BY <1>15, NoneAssumption DEF EndRevoke, Revoked, EndAnswer, Family
<1>16. ASSUME NEW t \in Req, RevokeDevice(r, t) PROVE KeyShape'
  BY <1>16, NoneAssumption DEF RevokeDevice
<1>17. CASE Logout(r)
  BY <1>17, NoneAssumption DEF Logout
<1>18. ASSUME NEW o \in Outcomes, AllDelete(r, o) PROVE KeyShape'
  BY <1>18, NoneAssumption DEF AllDelete
<1>19. ASSUME NEW o \in Outcomes, AllRevoke(r, o) PROVE KeyShape'
  BY <1>19, NoneAssumption DEF AllRevoke, Revoked, AllRows
<1>20. CASE ReadFails(r)
  BY <1>20, NoneAssumption DEF ReadFails
<1>21. QED
  BY <1>1, <1>2, <1>3, <1>4, <1>5, <1>6, <1>7, <1>8, <1>9, <1>10, <1>11,
     <1>12, <1>13, <1>14, <1>15, <1>16, <1>17, <1>18, <1>19, <1>20 DEF SessionStep

(* The same, for the steps of AuthAccount. *)
LEMMA KeyAccount ==
  ASSUME TypeOK, AuthInv, NEW r \in Req, AccountStep(r)
  PROVE  KeyShape'
<1> USE DEF Go, Outcome, Lands, tables, account, locals, TypeOK, AuthInv,
     RequestShape, FreshRequest, RotationRequest, KeyShape,
     BumpOutdatesOldPasswords, Bumped, Judged, TailShape
<1>1. CASE ChangeCheckPassword(r)
  BY <1>1, NoneAssumption DEF ChangeCheckPassword
<1>2. ASSUME NEW o \in Outcomes, ForgotPassword(r, o) PROVE KeyShape'
  BY <1>2, NoneAssumption DEF ForgotPassword
<1>3. ASSUME NEW t \in Req, ResetLookup(r, t) PROVE KeyShape'
  BY <1>3, NoneAssumption DEF ResetLookup
<1>4. ASSUME NEW o \in Outcomes, ResetTake(r, o) PROVE KeyShape'
  BY <1>4, NoneAssumption DEF ResetTake
<1>5. ASSUME NEW o \in Outcomes, ResetRestore(r, o) PROVE KeyShape'
  BY <1>5, NoneAssumption DEF ResetRestore
<1>6. ASSUME NEW o \in Outcomes, UpdatePassword(r, o) PROVE KeyShape'
  BY <1>6, NoneAssumption DEF UpdatePassword
<1>7. ASSUME NEW o \in Outcomes, BumpAuthVersion(r, o) PROVE KeyShape'
  BY <1>7, NoneAssumption DEF BumpAuthVersion
<1>8. ASSUME NEW o \in Outcomes, RevokeKeys(r, o) PROVE KeyShape'
  BY <1>8, NoneAssumption DEF RevokeKeys, RevokedKeys, LiveKeys
<1>9. ASSUME NEW t \in Req, KeyByToken(r, t) PROVE KeyShape'
  BY <1>9, NoneAssumption DEF KeyByToken, AccessAccepted
<1>10. ASSUME NEW t \in Req, KeyByKey(r, t) PROVE KeyShape'
  BY <1>10, NoneAssumption DEF KeyByKey, authenticate_api_key
<1>11. ASSUME NEW o \in Outcomes, KeyInsert(r, o) PROVE KeyShape'
  BY <1>11, NoneAssumption DEF KeyInsert
<1>12. CASE KeyRecheckFamily(r)
  BY <1>12, NoneAssumption DEF KeyRecheckFamily
<1>13. CASE KeyRecheckVersion(r)
  BY <1>13, NoneAssumption DEF KeyRecheckVersion
<1>14. CASE KeyRecheckKey(r)
  BY <1>14, NoneAssumption DEF KeyRecheckKey
<1>15. CASE KeyRecheckFails(r)
  BY <1>15, NoneAssumption DEF KeyRecheckFails
<1>16. ASSUME NEW o \in Outcomes, KeyWithdraw(r, o) PROVE KeyShape'
  BY <1>16, NoneAssumption DEF KeyWithdraw, RevokedKeys
<1>17. ASSUME NEW k \in Req, NEW o \in Outcomes, KeyRevoke(r, k, o)
      PROVE KeyShape'
  BY <1>17, NoneAssumption DEF KeyRevoke, RevokedKeys
<1>18. CASE AdminStart(r)
  BY <1>18, NoneAssumption DEF AdminStart
<1>19. ASSUME NEW o \in Outcomes, AdminWrite(r, o) PROVE KeyShape'
  BY <1>19, NoneAssumption DEF AdminWrite
<1>20. QED
  BY <1>1, <1>2, <1>3, <1>4, <1>5, <1>6, <1>7, <1>8, <1>9, <1>10, <1>11,
     <1>12, <1>13, <1>14, <1>15, <1>16, <1>17, <1>18, <1>19 DEF AccountStep

(* The take passes a reset link to one redemption, which alone gives it back. *)
LEMMA LinkSession ==
  ASSUME TypeOK, AuthInv, NEW r \in Req, SessionStep(r)
  PROVE  OneRedeemer'
<1> USE DEF Go, Outcome, Lands, tables, account, locals, TypeOK, AuthInv,
     RequestShape, FreshRequest, RotationRequest, OneRedeemer, TookLink,
     TailShape
<1>1. CASE LoginReadUser(r)
  BY <1>1, NoneAssumption DEF LoginReadUser
<1>2. CASE LoginCheckPassword(r)
  BY <1>2, NoneAssumption DEF LoginCheckPassword
<1>3. CASE LoginReadRoles(r)
  BY <1>3, NoneAssumption DEF LoginReadRoles
<1>4. ASSUME NEW o \in Outcomes, LoginWrite(r, o) PROVE OneRedeemer'
  BY <1>4, NoneAssumption DEF LoginWrite
<1>5. ASSUME NEW t \in Req, RefreshLookup(r, t) PROVE OneRedeemer'
  BY <1>5, NoneAssumption DEF RefreshLookup
<1>6. CASE RefreshReplay(r)
  BY <1>6, NoneAssumption DEF RefreshReplay
<1>7. CASE RefreshReadUser(r)
  BY <1>7, NoneAssumption DEF RefreshReadUser
<1>8. CASE RefreshReadRoles(r)
  BY <1>8, NoneAssumption DEF RefreshReadRoles
<1>9. ASSUME NEW o \in Outcomes, RefreshClaim(r, o) PROVE OneRedeemer'
  BY <1>9, NoneAssumption DEF RefreshClaim, Revoked
<1>10. ASSUME NEW o \in Outcomes, RefreshInsert(r, o) PROVE OneRedeemer'
  BY <1>10, NoneAssumption DEF RefreshInsert
<1>11. ASSUME NEW o \in Outcomes, RefreshTouch(r, o) PROVE OneRedeemer'
  BY <1>11, NoneAssumption DEF RefreshTouch
<1>12. CASE RefreshUnanswered(r)
  BY <1>12, NoneAssumption DEF RefreshUnanswered
<1>13. ASSUME NEW o \in Outcomes, RefreshEnded(r, o) PROVE OneRedeemer'
  BY <1>13, NoneAssumption DEF RefreshEnded, Revoked, Family
<1>14. ASSUME NEW o \in Outcomes, EndDelete(r, o) PROVE OneRedeemer'
  BY <1>14, NoneAssumption DEF EndDelete, EndAnswer
<1>15. ASSUME NEW o \in Outcomes, EndRevoke(r, o) PROVE OneRedeemer'
  BY <1>15, NoneAssumption DEF EndRevoke, Revoked, EndAnswer, Family
<1>16. ASSUME NEW t \in Req, RevokeDevice(r, t) PROVE OneRedeemer'
  BY <1>16, NoneAssumption DEF RevokeDevice
<1>17. CASE Logout(r)
  BY <1>17, NoneAssumption DEF Logout
<1>18. ASSUME NEW o \in Outcomes, AllDelete(r, o) PROVE OneRedeemer'
  BY <1>18, NoneAssumption DEF AllDelete
<1>19. ASSUME NEW o \in Outcomes, AllRevoke(r, o) PROVE OneRedeemer'
  BY <1>19, NoneAssumption DEF AllRevoke, Revoked, AllRows
<1>20. CASE ReadFails(r)
  BY <1>20, NoneAssumption DEF ReadFails
<1>21. QED
  BY <1>1, <1>2, <1>3, <1>4, <1>5, <1>6, <1>7, <1>8, <1>9, <1>10, <1>11,
     <1>12, <1>13, <1>14, <1>15, <1>16, <1>17, <1>18, <1>19, <1>20 DEF SessionStep

(* The same, for the steps of AuthAccount. *)
LEMMA LinkAccount ==
  ASSUME TypeOK, AuthInv, NEW r \in Req, AccountStep(r)
  PROVE  OneRedeemer'
<1> USE DEF Go, Outcome, Lands, tables, account, locals, TypeOK, AuthInv,
     RequestShape, FreshRequest, RotationRequest, OneRedeemer, TookLink,
     TailShape
<1>1. CASE ChangeCheckPassword(r)
  BY <1>1, NoneAssumption DEF ChangeCheckPassword
<1>2. ASSUME NEW o \in Outcomes, ForgotPassword(r, o) PROVE OneRedeemer'
  BY <1>2, NoneAssumption DEF ForgotPassword
<1>3. ASSUME NEW t \in Req, ResetLookup(r, t) PROVE OneRedeemer'
  BY <1>3, NoneAssumption DEF ResetLookup
<1>4. ASSUME NEW o \in Outcomes, ResetTake(r, o) PROVE OneRedeemer'
  BY <1>4, NoneAssumption DEF ResetTake
<1>5. ASSUME NEW o \in Outcomes, ResetRestore(r, o) PROVE OneRedeemer'
  BY <1>5, NoneAssumption DEF ResetRestore
<1>6. ASSUME NEW o \in Outcomes, UpdatePassword(r, o) PROVE OneRedeemer'
  BY <1>6, NoneAssumption DEF UpdatePassword
<1>7. ASSUME NEW o \in Outcomes, BumpAuthVersion(r, o) PROVE OneRedeemer'
  BY <1>7, NoneAssumption DEF BumpAuthVersion
<1>8. ASSUME NEW o \in Outcomes, RevokeKeys(r, o) PROVE OneRedeemer'
  BY <1>8, NoneAssumption DEF RevokeKeys, RevokedKeys, LiveKeys
<1>9. ASSUME NEW t \in Req, KeyByToken(r, t) PROVE OneRedeemer'
  BY <1>9, NoneAssumption DEF KeyByToken, AccessAccepted
<1>10. ASSUME NEW t \in Req, KeyByKey(r, t) PROVE OneRedeemer'
  BY <1>10, NoneAssumption DEF KeyByKey, authenticate_api_key
<1>11. ASSUME NEW o \in Outcomes, KeyInsert(r, o) PROVE OneRedeemer'
  BY <1>11, NoneAssumption DEF KeyInsert
<1>12. CASE KeyRecheckFamily(r)
  BY <1>12, NoneAssumption DEF KeyRecheckFamily
<1>13. CASE KeyRecheckVersion(r)
  BY <1>13, NoneAssumption DEF KeyRecheckVersion
<1>14. CASE KeyRecheckKey(r)
  BY <1>14, NoneAssumption DEF KeyRecheckKey
<1>15. CASE KeyRecheckFails(r)
  BY <1>15, NoneAssumption DEF KeyRecheckFails
<1>16. ASSUME NEW o \in Outcomes, KeyWithdraw(r, o) PROVE OneRedeemer'
  BY <1>16, NoneAssumption DEF KeyWithdraw, RevokedKeys
<1>17. ASSUME NEW k \in Req, NEW o \in Outcomes, KeyRevoke(r, k, o)
      PROVE OneRedeemer'
  BY <1>17, NoneAssumption DEF KeyRevoke, RevokedKeys
<1>18. CASE AdminStart(r)
  BY <1>18, NoneAssumption DEF AdminStart
<1>19. ASSUME NEW o \in Outcomes, AdminWrite(r, o) PROVE OneRedeemer'
  BY <1>19, NoneAssumption DEF AdminWrite
<1>20. QED
  BY <1>1, <1>2, <1>3, <1>4, <1>5, <1>6, <1>7, <1>8, <1>9, <1>10, <1>11,
     <1>12, <1>13, <1>14, <1>15, <1>16, <1>17, <1>18, <1>19 DEF AccountStep

(* Nothing usable comes back into a family whose end was answered. *)
LEMMA OutSession ==
  ASSUME TypeOK, AuthInv, NEW r \in Req, SessionStep(r)
  PROVE  RevokedDeviceIsOut'
<1> USE DEF Go, Outcome, Lands, tables, account, locals, TypeOK, AuthInv,
     RequestShape, FreshRequest, RotationRequest, FamilyShape, TailShape,
     RevokedDeviceIsOut, AnsweredEnd
<1>1. CASE LoginReadUser(r)
  BY <1>1, NoneAssumption DEF LoginReadUser
<1>2. CASE LoginCheckPassword(r)
  BY <1>2, NoneAssumption DEF LoginCheckPassword
<1>3. CASE LoginReadRoles(r)
  BY <1>3, NoneAssumption DEF LoginReadRoles
<1>4. ASSUME NEW o \in Outcomes, LoginWrite(r, o) PROVE RevokedDeviceIsOut'
  BY <1>4, NoneAssumption DEF LoginWrite
<1>5. ASSUME NEW t \in Req, RefreshLookup(r, t) PROVE RevokedDeviceIsOut'
  BY <1>5, NoneAssumption DEF RefreshLookup
<1>6. CASE RefreshReplay(r)
  BY <1>6, NoneAssumption DEF RefreshReplay
<1>7. CASE RefreshReadUser(r)
  BY <1>7, NoneAssumption DEF RefreshReadUser
<1>8. CASE RefreshReadRoles(r)
  BY <1>8, NoneAssumption DEF RefreshReadRoles
<1>9. ASSUME NEW o \in Outcomes, RefreshClaim(r, o) PROVE RevokedDeviceIsOut'
  BY <1>9, NoneAssumption DEF RefreshClaim, Revoked
<1>10. ASSUME NEW o \in Outcomes, RefreshInsert(r, o) PROVE RevokedDeviceIsOut'
  BY <1>10, NoneAssumption DEF RefreshInsert
<1>11. ASSUME NEW o \in Outcomes, RefreshTouch(r, o) PROVE RevokedDeviceIsOut'
  BY <1>11, NoneAssumption DEF RefreshTouch
<1>12. CASE RefreshUnanswered(r)
  BY <1>12, NoneAssumption DEF RefreshUnanswered
<1>13. ASSUME NEW o \in Outcomes, RefreshEnded(r, o) PROVE RevokedDeviceIsOut'
  BY <1>13, NoneAssumption DEF RefreshEnded, Revoked, Family
<1>14. ASSUME NEW o \in Outcomes, EndDelete(r, o) PROVE RevokedDeviceIsOut'
  BY <1>14, NoneAssumption DEF EndDelete, EndAnswer
<1>15. ASSUME NEW o \in Outcomes, EndRevoke(r, o) PROVE RevokedDeviceIsOut'
  BY <1>15, NoneAssumption DEF EndRevoke, Revoked, EndAnswer, Family
<1>16. ASSUME NEW t \in Req, RevokeDevice(r, t) PROVE RevokedDeviceIsOut'
  BY <1>16, NoneAssumption DEF RevokeDevice
<1>17. CASE Logout(r)
  BY <1>17, NoneAssumption DEF Logout
<1>18. ASSUME NEW o \in Outcomes, AllDelete(r, o) PROVE RevokedDeviceIsOut'
  BY <1>18, NoneAssumption DEF AllDelete
<1>19. ASSUME NEW o \in Outcomes, AllRevoke(r, o) PROVE RevokedDeviceIsOut'
  BY <1>19, NoneAssumption DEF AllRevoke, Revoked, AllRows
<1>20. CASE ReadFails(r)
  BY <1>20, NoneAssumption DEF ReadFails
<1>21. QED
  BY <1>1, <1>2, <1>3, <1>4, <1>5, <1>6, <1>7, <1>8, <1>9, <1>10, <1>11,
     <1>12, <1>13, <1>14, <1>15, <1>16, <1>17, <1>18, <1>19, <1>20 DEF SessionStep

(* The same, for the steps of AuthAccount. *)
LEMMA OutAccount ==
  ASSUME TypeOK, AuthInv, NEW r \in Req, AccountStep(r)
  PROVE  RevokedDeviceIsOut'
<1> USE DEF Go, Outcome, Lands, tables, account, locals, TypeOK, AuthInv,
     RequestShape, FreshRequest, RotationRequest, FamilyShape, TailShape,
     RevokedDeviceIsOut, AnsweredEnd
<1>1. CASE ChangeCheckPassword(r)
  BY <1>1, NoneAssumption DEF ChangeCheckPassword
<1>2. ASSUME NEW o \in Outcomes, ForgotPassword(r, o) PROVE RevokedDeviceIsOut'
  BY <1>2, NoneAssumption DEF ForgotPassword
<1>3. ASSUME NEW t \in Req, ResetLookup(r, t) PROVE RevokedDeviceIsOut'
  BY <1>3, NoneAssumption DEF ResetLookup
<1>4. ASSUME NEW o \in Outcomes, ResetTake(r, o) PROVE RevokedDeviceIsOut'
  BY <1>4, NoneAssumption DEF ResetTake
<1>5. ASSUME NEW o \in Outcomes, ResetRestore(r, o) PROVE RevokedDeviceIsOut'
  BY <1>5, NoneAssumption DEF ResetRestore
<1>6. ASSUME NEW o \in Outcomes, UpdatePassword(r, o) PROVE RevokedDeviceIsOut'
  BY <1>6, NoneAssumption DEF UpdatePassword
<1>7. ASSUME NEW o \in Outcomes, BumpAuthVersion(r, o) PROVE RevokedDeviceIsOut'
  BY <1>7, NoneAssumption DEF BumpAuthVersion
<1>8. ASSUME NEW o \in Outcomes, RevokeKeys(r, o) PROVE RevokedDeviceIsOut'
  BY <1>8, NoneAssumption DEF RevokeKeys, RevokedKeys, LiveKeys
<1>9. ASSUME NEW t \in Req, KeyByToken(r, t) PROVE RevokedDeviceIsOut'
  BY <1>9, NoneAssumption DEF KeyByToken, AccessAccepted
<1>10. ASSUME NEW t \in Req, KeyByKey(r, t) PROVE RevokedDeviceIsOut'
  BY <1>10, NoneAssumption DEF KeyByKey, authenticate_api_key
<1>11. ASSUME NEW o \in Outcomes, KeyInsert(r, o) PROVE RevokedDeviceIsOut'
  BY <1>11, NoneAssumption DEF KeyInsert
<1>12. CASE KeyRecheckFamily(r)
  BY <1>12, NoneAssumption DEF KeyRecheckFamily
<1>13. CASE KeyRecheckVersion(r)
  BY <1>13, NoneAssumption DEF KeyRecheckVersion
<1>14. CASE KeyRecheckKey(r)
  BY <1>14, NoneAssumption DEF KeyRecheckKey
<1>15. CASE KeyRecheckFails(r)
  BY <1>15, NoneAssumption DEF KeyRecheckFails
<1>16. ASSUME NEW o \in Outcomes, KeyWithdraw(r, o) PROVE RevokedDeviceIsOut'
  BY <1>16, NoneAssumption DEF KeyWithdraw, RevokedKeys
<1>17. ASSUME NEW k \in Req, NEW o \in Outcomes, KeyRevoke(r, k, o)
      PROVE RevokedDeviceIsOut'
  BY <1>17, NoneAssumption DEF KeyRevoke, RevokedKeys
<1>18. CASE AdminStart(r)
  BY <1>18, NoneAssumption DEF AdminStart
<1>19. ASSUME NEW o \in Outcomes, AdminWrite(r, o) PROVE RevokedDeviceIsOut'
  BY <1>19, NoneAssumption DEF AdminWrite
<1>20. QED
  BY <1>1, <1>2, <1>3, <1>4, <1>5, <1>6, <1>7, <1>8, <1>9, <1>10, <1>11,
     <1>12, <1>13, <1>14, <1>15, <1>16, <1>17, <1>18, <1>19 DEF AccountStep

-----------------------------------------------------------------------------

(* The initial state, the seeded sign-ins included, satisfies the invariant. *)
LEMMA InvInit == Init => TypeOK /\ AuthInv
<1> SUFFICES ASSUME Init PROVE TypeOK /\ AuthInv
  OBVIOUS
<1> USE NoneAssumption, SeedAssumption DEF Init
<1>1. TypeOK
  BY DEF TypeOK, RowState, Label, Reason
<1>2. RequestShape /\ TailShape /\ FamilyShape
  BY DEF RequestShape, FreshRequest, RotationRequest, TailShape, FamilyShape
<1>3. OneHolder /\ ReadsBehind
  BY DEF OneHolder, Holds, ReadsBehind
<1>4. BumpOutdatesOldPasswords /\ BumpOutdatesOldRoles
  BY DEF BumpOutdatesOldPasswords, Bumped, BumpOutdatesOldRoles
<1>5. KeyShape /\ OneRedeemer /\ RevokedDeviceIsOut
  BY DEF KeyShape, OneRedeemer, TookLink, RevokedDeviceIsOut, AnsweredEnd
<1>6. QED
  BY <1>1, <1>2, <1>3, <1>4, <1>5 DEF AuthInv

(* A step that changes no variable keeps the invariant. *)
LEMMA InvStutter == TypeOK /\ AuthInv /\ UNCHANGED vars => (TypeOK /\ AuthInv)'
  BY DEF TypeOK, AuthInv, RequestShape, FreshRequest, RotationRequest, TailShape,
     FamilyShape, OneHolder, Holds, ReadsBehind, BumpOutdatesOldPasswords, Bumped,
     Judged, BumpOutdatesOldRoles, CarriesRoles, KeyShape, OneRedeemer, TookLink,
     RevokedDeviceIsOut, AnsweredEnd, vars, tables, account, locals

(* Every step of every handler keeps the invariant. *)
LEMMA InvNext == TypeOK /\ AuthInv /\ [Next]_vars => (TypeOK /\ AuthInv)'
<1> SUFFICES ASSUME TypeOK, AuthInv, [Next]_vars PROVE (TypeOK /\ AuthInv)'
  OBVIOUS
<1>1. CASE UNCHANGED vars
  BY <1>1, InvStutter
<1>2. ASSUME NEW r \in Req, SessionStep(r) PROVE (TypeOK /\ AuthInv)'
  BY <1>2, TypeSession, RequestSession, TailSession, FamilySession,
     HolderSession, ReadsSession, PasswordSession, RolesSession, KeySession,
     LinkSession, OutSession DEF AuthInv
<1>3. ASSUME NEW r \in Req, AccountStep(r) PROVE (TypeOK /\ AuthInv)'
  BY <1>3, TypeAccount, RequestAccount, TailAccount, FamilyAccount,
     HolderAccount, ReadsAccount, PasswordAccount, RolesAccount, KeyAccount,
     LinkAccount, OutAccount DEF AuthInv
<1>4. QED
  BY <1>1, <1>2, <1>3 DEF Next, Step

(* The inductive invariant holds in every reachable state: whatever handlers *)
(* of login.rs, refresh.rs, change_password.rs, reset_password.rs and        *)
(* api_keys.rs interleave, and whichever of their statements fail.           *)
THEOREM Invariance == Spec => [](TypeOK /\ AuthInv)
  BY InvInit, InvNext, PTL DEF Spec

(* Tables, account and request state keep their types (AuthStore). *)
THEOREM TypeCorrect == Spec => []TypeOK
  BY Invariance, PTL

(* refresh.rs never leaves a family with two live refresh rows. *)
THEOREM OneLive == Spec => []OneLiveGeneration
<1>1. AuthInv => OneLiveGeneration
  BY DEF AuthInv, OneHolder, Holds, OneLiveGeneration
<1>2. QED
  BY <1>1, Invariance, PTL

(* The compare-and-set of tokens::revoke_if_live lets one request exchange a *)
(* refresh token.                                                            *)
THEOREM RotatesOnce == Spec => []RotatedOnce
<1>1. AuthInv => RotatedOnce
  BY DEF AuthInv, OneHolder, RotatedOnce
<1>2. QED
  BY <1>1, Invariance, PTL

(* The orders of end_family and establish_family leave a revoked device out. *)
THEOREM RevokedIsOut == Spec => []RevokedDeviceIsOut
<1>1. AuthInv => RevokedDeviceIsOut
  BY DEF AuthInv
<1>2. QED
  BY <1>1, Invariance, PTL

(* No rotation is answered with tokens of a family that was ended before. *)
THEOREM NoTokensAfter == Spec => NoTokensAfterRevocation
<1> DEFINE Quiet == \A r \in Req : pc[r] # "issued" /\ pc'[r] = "issued" =>
                      \A q \in Req : fam'[r] \notin ended[q]
<1>1. ASSUME TypeOK, AuthInv, NEW r \in Req, SessionStep(r) PROVE Quiet
  BY <1>1, NoneAssumption
     DEF TypeOK, AuthInv, FamilyShape, RequestShape, FreshRequest, SessionStep,
       Go, LoginReadUser, LoginCheckPassword, LoginReadRoles, LoginWrite,
       RefreshLookup, RefreshReplay, RefreshReadUser, RefreshReadRoles,
       RefreshClaim, RefreshInsert, RefreshTouch, RefreshUnanswered,
       RefreshEnded, EndDelete, EndRevoke, EndAnswer, RevokeDevice, Logout,
       AllDelete, AllRevoke, ReadFails, locals
<1>2. ASSUME TypeOK, NEW r \in Req, AccountStep(r) PROVE Quiet
  <2> USE <1>2 DEF TypeOK, Go
  <2>1. CASE \/ ChangeCheckPassword(r) \/ AdminStart(r) \/ KeyRecheckFamily(r)
             \/ KeyRecheckVersion(r) \/ KeyRecheckKey(r) \/ KeyRecheckFails(r)
    BY <2>1 DEF ChangeCheckPassword, AdminStart, KeyRecheckFamily,
       KeyRecheckVersion, KeyRecheckKey, KeyRecheckFails
  <2>2. ASSUME NEW t \in Req, ResetLookup(r, t) \/ KeyByToken(r, t) \/ KeyByKey(r, t)
        PROVE Quiet
    BY <2>2 DEF ResetLookup, KeyByToken, KeyByKey
  <2>3. ASSUME NEW o \in Outcomes,
               \/ ForgotPassword(r, o) \/ ResetTake(r, o) \/ ResetRestore(r, o)
               \/ UpdatePassword(r, o) \/ BumpAuthVersion(r, o) \/ RevokeKeys(r, o)
        PROVE Quiet
    BY <2>3 DEF ForgotPassword, ResetTake, ResetRestore, UpdatePassword,
       BumpAuthVersion, RevokeKeys
  <2>4. ASSUME NEW o \in Outcomes,
               KeyInsert(r, o) \/ KeyWithdraw(r, o) \/ AdminWrite(r, o)
        PROVE Quiet
    BY <2>4 DEF KeyInsert, KeyWithdraw, AdminWrite
  <2>5. ASSUME NEW k \in Req, NEW o \in Outcomes, KeyRevoke(r, k, o) PROVE Quiet
    BY <2>5 DEF KeyRevoke
  <2>6. QED
    BY <1>2, <2>1, <2>2, <2>3, <2>4, <2>5 DEF AccountStep
<1>3. TypeOK /\ AuthInv /\ [Next]_vars => [Quiet]_vars
  BY <1>1, <1>2 DEF Next, Step
<1>4. QED
  BY <1>3, Invariance, PTL DEF Spec, NoTokensAfterRevocation

(* end_credentials_after_password_change ends every session token and API key *)
(* that stands on the old password before its caller answers success.         *)
THEOREM OldCredentialsEnd == Spec => []ChangeEndsOldCredentials
<1>1. TypeOK /\ AuthInv => ChangeEndsOldCredentials
  BY DEF TypeOK, AuthInv, BumpOutdatesOldPasswords, Bumped, Judged, KeyShape,
     ChangeEndsOldCredentials, SessionUsable, AccessAccepted, authenticate_api_key
<1>2. QED
  BY <1>1, Invariance, PTL

(* TokenGrant and bump_auth_version: a finished role change outdates every    *)
(* token whose roles were read before it.                                     *)
THEOREM OldRolesEnd == Spec => []RoleChangeReachesTokens
<1>1. TypeOK /\ AuthInv => RoleChangeReachesTokens
  BY DEF TypeOK, AuthInv, BumpOutdatesOldRoles, CarriesRoles,
     RoleChangeReachesTokens, SessionUsable, AccessAccepted
<1>2. QED
  BY <1>1, Invariance, PTL

(* A reset link that changed the password is never redeemable again. *)
THEOREM LinkOnce == Spec => []ResetLinkSpentOnce
<1>1. AuthInv => ResetLinkSpentOnce
  BY DEF AuthInv, OneRedeemer, TookLink, ResetLinkSpentOnce
<1>2. QED
  BY <1>1, Invariance, PTL
=============================================================================
