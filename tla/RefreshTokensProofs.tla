------------------------ MODULE RefreshTokensProofs ------------------------
(***************************************************************************)
(* Proofs about RefreshTokens, for every set of tokens, families and       *)
(* concurrent requests.                                                    *)
(***************************************************************************)
EXTENDS RefreshTokens, TLAPS

(* A request in progress works on a row that was inserted, and so is the row *)
(* of the token it will answer with.                                         *)
WorksOnStored ==
  \A r \in Requests :
    /\ req[r].at # "idle" => req[r].tok \in Tokens /\ Stored(req[r].tok)
    /\ req[r].new # NoToken => req[r].new \in Tokens /\ Stored(req[r].new)

(* A family update visits rows that were committed when it started.          *)
SnapshotsAreStored == \A r \in Requests : \A t \in req[r].snap : Stored(t)

(* Nothing is known of a row before its insert.                              *)
AbsentUntilInserted == \A t \in Tokens : ~Stored(t) => row[t] = Absent

(* Only committed rows are handed out.                                       *)
IssuedAreStored == \A t \in issued : Stored(t)

(* The inductive invariant of type correctness.                              *)
Typed == /\ TypeOK
         /\ WorksOnStored
         /\ SnapshotsAreStored
         /\ AbsentUntilInserted
         /\ IssuedAreStored

USE DEF Statuses, Places, AuditActions

-----------------------------------------------------------------------------
(* An update of a stored row keeps its family, its parent and the marks it   *)
(* bears, and only the passing of time leaves it usable.                     *)
Keeps(new, old) ==
  /\ new.family = old.family
  /\ new.parent = old.parent
  /\ new.status # "NONE"
  /\ old.used => new.used
  /\ old.revoked => new.revoked
  /\ old.reuse => new.reuse
  /\ Usable(new) => Usable(old)

LEMMA RowUpdates ==
  ASSUME NEW rw \in Row, rw.status # "NONE"
  PROVE  /\ Consumed(rw) \in Row /\ Keeps(Consumed(rw), rw) /\ ~Usable(Consumed(rw))
         /\ Expired(rw) \in Row  /\ Keeps(Expired(rw), rw)  /\ ~Usable(Expired(rw))
         /\ Revoked(rw) \in Row  /\ Keeps(Revoked(rw), rw)  /\ ~Usable(Revoked(rw))
         /\ Reused(rw) \in Row   /\ Keeps(Reused(rw), rw)   /\ ~Usable(Reused(rw))
         /\ Consumed(rw).used
         /\ [rw EXCEPT !.pastExpiry = TRUE] \in Row
         /\ Keeps([rw EXCEPT !.pastExpiry = TRUE], rw)
BY DEF Row, Consumed, Expired, Revoked, Reused, Usable, Keeps

(* An inserted row is usable and names its family and its parent.            *)
LEMMA InsertedRow ==
  ASSUME NEW f \in Families, NEW p \in Tokens \cup {NoToken}
  PROVE  /\ Inserted(f, p) \in Row
         /\ Inserted(f, p).status = "ACTIVE"
         /\ Inserted(f, p).family = f
         /\ Inserted(f, p).parent = p
         /\ Inserted(f, p).used = FALSE
         /\ Inserted(f, p).revoked = FALSE
         /\ Inserted(f, p).reuse = FALSE
         /\ Absent \in Row
BY DEF Row, Inserted, Absent

LEMMA TypedInit == Init => Typed
BY DEF Init, Typed, TypeOK, WorksOnStored, SnapshotsAreStored, AbsentUntilInserted, IssuedAreStored,
       Row, Request, Absent, Idle, Stored, FamilyOf

-----------------------------------------------------------------------------
(* How a step may change the table: rows stay, and keep what they bear.      *)
RowsKeep == \A t \in Tokens : Stored(t) => Keeps(row'[t], row[t])

(* Every step keeps the stored rows, and inserts at most one.                *)
LEMMA StepsKeepRows ==
  ASSUME Typed, [Next]_vars
  PROVE  RowsKeep /\ row' \in [Tokens -> Row]
<1> USE DEF Typed, TypeOK, RowsKeep, Stored
<1>0. \A t \in Tokens : Stored(t) => Keeps(row[t], row[t])
  BY DEF Keeps
<1>1. ASSUME NEW r \in Requests, NEW f \in Families, NEW t \in Tokens, Login(r, f, t)
      PROVE  RowsKeep /\ row' \in [Tokens -> Row]
  BY <1>0, <1>1, InsertedRow DEF Login, Free
<1>2. ASSUME NEW r \in Requests, MarkExpired(r)
      PROVE  RowsKeep /\ row' \in [Tokens -> Row]
  BY <1>0, <1>2, RowUpdates DEF MarkExpired, WorksOnStored
<1>3. ASSUME NEW r \in Requests, NEW c \in Tokens, CommitRotation(r, c)
      PROVE  RowsKeep /\ row' \in [Tokens -> Row]
  <2>1. req[r].tok \in Tokens /\ Stored(req[r].tok) /\ ~Stored(c) /\ c # req[r].tok
    BY <1>3 DEF CommitRotation, WorksOnStored, Free
  <2>2. FamilyOf(req[r].tok) \in Families
    BY <2>1 DEF Row, FamilyOf
  <2>3. Inserted(FamilyOf(req[r].tok), req[r].tok) \in Row
    BY <2>1, <2>2, InsertedRow
  <2>4. row' = [row EXCEPT ![req[r].tok] = Consumed(row[req[r].tok]),
                           ![c] = Inserted(FamilyOf(req[r].tok), req[r].tok)]
    BY <1>3 DEF CommitRotation
  <2>5. /\ Consumed(row[req[r].tok]) \in Row
        /\ Keeps(Consumed(row[req[r].tok]), row[req[r].tok])
    BY <2>1, RowUpdates
  <2>6. QED
    BY <1>0, <2>1, <2>3, <2>4, <2>5
<1>4. ASSUME NEW r \in Requests, RevokeFamily(r)
      PROVE  RowsKeep /\ row' \in [Tokens -> Row]
  <2> DEFINE reusedToken == IF req[r].op = "refresh" THEN {req[r].tok} ELSE {}
             after(t) == IF t \in reusedToken THEN Reused(row[t])
                         ELSE IF t \in req[r].snap THEN Revoked(row[t])
                         ELSE row[t]
  <2>1. row' = [t \in Tokens |-> after(t)]
    BY <1>4 DEF RevokeFamily
  <2>2. ASSUME NEW t \in Tokens
        PROVE  after(t) \in Row /\ (Stored(t) => Keeps(after(t), row[t]))
    <3>1. t \in reusedToken => Stored(t)
      BY <1>4 DEF RevokeFamily, WorksOnStored
    <3>2. t \in req[r].snap => Stored(t)
      BY DEF SnapshotsAreStored
    <3>3. QED
      BY <1>0, <3>1, <3>2, RowUpdates
  <2> HIDE DEF after
  <2>3. QED
    BY <2>1, <2>2
<1>5. ASSUME NEW t \in Tokens, PassExpiry(t)
      PROVE  RowsKeep /\ row' \in [Tokens -> Row]
  BY <1>0, <1>5, RowUpdates DEF PassExpiry
<1>6. ASSUME UNCHANGED row
      PROVE  RowsKeep /\ row' \in [Tokens -> Row]
  BY <1>0, <1>6
<1>7. QED
  BY <1>1, <1>2, <1>3, <1>4, <1>5, <1>6
     DEF Next, Step, vars, UnknownToken, StartRefresh, StartLogout, CheckMembership,
         Consume, SnapshotFamily, Respond, Fail

LEMMA TypedStep == Typed /\ [Next]_vars => Typed'
<1> SUFFICES ASSUME Typed, [Next]_vars PROVE Typed'
  OBVIOUS
<1> USE DEF Typed, TypeOK
<1>a. RowsKeep /\ row' \in [Tokens -> Row]
  BY StepsKeepRows
<1>b. \A t \in Tokens : Stored(t) => Stored(t)' /\ FamilyOf(t)' = FamilyOf(t)
  BY <1>a DEF RowsKeep, Keeps, Stored, FamilyOf
<1>c. Idle \in Request
  BY DEF Idle, Request
<1>d. ASSUME NEW r \in Requests, req' = [req EXCEPT ![r] = Idle],
             AbsentUntilInserted', IssuedAreStored', issued' \subseteq Tokens,
             audit' \in [Families -> SUBSET AuditActions],
             UNCHANGED <<presented, loggedOut, overtaken>>,
             \A t \in Tokens : (Stored(t) <=> FamilyOf(t) # NoFamily)'
      PROVE  Typed'
  <2>1. req' \in [Requests -> Request]
    BY <1>c, <1>d
  <2>2. WorksOnStored'
    BY <1>b, <1>d DEF WorksOnStored, Idle
  <2>3. SnapshotsAreStored'
    BY <1>b, <1>d DEF SnapshotsAreStored, Idle, Request
  <2>4. QED
    BY <1>a, <1>d, <2>1, <2>2, <2>3
<1>e. ASSUME \A t \in Tokens : row'[t] = row[t] \/ Stored(t)
      PROVE  /\ AbsentUntilInserted'
             /\ \A t \in Tokens : (Stored(t) <=> FamilyOf(t) # NoFamily)'
  BY <1>a, <1>b, <1>e DEF AbsentUntilInserted, Stored, FamilyOf
<1>f. issued' = issued => IssuedAreStored'
  BY <1>b DEF IssuedAreStored
<1>1. ASSUME NEW r \in Requests, NEW f \in Families, NEW t \in Tokens, Login(r, f, t)
      PROVE  Typed'
  <2>1. row' = [row EXCEPT ![t] = Inserted(f, NoToken)] /\ ~Stored(t)
    BY <1>1 DEF Login, Free
  <2>2. \A u \in Tokens : row'[u] = IF u = t THEN Inserted(f, NoToken) ELSE row[u]
    BY <2>1
  <2>3. Inserted(f, NoToken).status = "ACTIVE" /\ Inserted(f, NoToken).family = f
    BY DEF Inserted, Absent
  <2>4. /\ AbsentUntilInserted' /\ Stored(t)'
        /\ \A u \in Tokens : (Stored(u) <=> FamilyOf(u) # NoFamily)'
    BY <2>2, <2>3, RefreshAssumption DEF AbsentUntilInserted, Stored, FamilyOf
  <2>5. req' = [req EXCEPT ![r] = [Idle EXCEPT !.at = "respond", !.tok = t, !.new = t]]
    BY <1>1 DEF Login
  <2>6. req' \in [Requests -> Request]
    BY <2>5 DEF Idle, Request
  <2>7. WorksOnStored'
    BY <1>b, <2>4, <2>5 DEF WorksOnStored, Idle
  <2>8. SnapshotsAreStored'
    BY <1>b, <2>5 DEF SnapshotsAreStored, Idle, Request
  <2>9. UNCHANGED <<issued, audit, presented, loggedOut, overtaken>>
    BY <1>1 DEF Login
  <2>10. QED
    BY <1>a, <1>f, <2>4, <2>6, <2>7, <2>8, <2>9
<1>2. ASSUME NEW r \in Requests, NEW t \in Tokens, StartRefresh(r, t)
      PROVE  Typed'
  <2>1. UNCHANGED <<row, issued, audit, loggedOut, overtaken>>
    BY <1>2 DEF StartRefresh
  <2>2. Stored(t) /\ AfterLookup(row[t]) \in Places
    BY <1>2 DEF StartRefresh, IssuedAreStored, AfterLookup
  <2>3. req' = [req EXCEPT ![r] = [Idle EXCEPT !.at = AfterLookup(row[t]),
                                               !.op = "refresh", !.tok = t]]
    BY <1>2 DEF StartRefresh
  <2>4. req' \in [Requests -> Request]
    BY <2>2, <2>3 DEF Idle, Request
  <2>5. WorksOnStored'
    BY <1>b, <2>2, <2>3 DEF WorksOnStored, Idle
  <2>6. SnapshotsAreStored'
    BY <1>b, <2>3 DEF SnapshotsAreStored, Idle, Request
  <2>7. presented' \in [Tokens -> 0..2]
    BY <1>2 DEF StartRefresh
  <2>8. QED
    BY <1>a, <1>e, <1>f, <2>1, <2>4, <2>5, <2>6, <2>7
<1>3. ASSUME NEW r \in Requests, NEW t \in Tokens, StartLogout(r, t)
      PROVE  Typed'
  <2>1. UNCHANGED <<row, issued, audit, presented, overtaken>>
    BY <1>3 DEF StartLogout
  <2>2. Stored(t) /\ FamilyOf(t) \in Families
    BY <1>3 DEF StartLogout, IssuedAreStored, FamilyOf, Row
  <2>3. req' = [req EXCEPT ![r] = [Idle EXCEPT !.at = "revoke", !.op = "logout", !.tok = t]]
    BY <1>3 DEF StartLogout
  <2>4. req' \in [Requests -> Request]
    BY <2>3 DEF Idle, Request
  <2>5. WorksOnStored'
    BY <1>b, <2>2, <2>3 DEF WorksOnStored, Idle
  <2>6. SnapshotsAreStored'
    BY <1>b, <2>3 DEF SnapshotsAreStored, Idle, Request
  <2>7. loggedOut' \subseteq Families
    BY <1>3, <2>2 DEF StartLogout
  <2>8. QED
    BY <1>a, <1>e, <1>f, <2>1, <2>4, <2>5, <2>6, <2>7
<1>4. ASSUME NEW r \in Requests, MarkExpired(r)
      PROVE  Typed'
  BY <1>4, <1>d, <1>e, <1>f DEF MarkExpired, Finish, WorksOnStored
<1>5. ASSUME NEW r \in Requests, req[r].at # "idle", NEW place \in Places, Goto(r, place),
             UNCHANGED <<issued, audit, presented, loggedOut, overtaken>>,
             \A t \in Tokens : row'[t] = row[t] \/ Stored(t)
      PROVE  Typed'
  <2>1. req' \in [Requests -> Request]
    BY <1>5 DEF Goto, Request
  <2>2. WorksOnStored' /\ SnapshotsAreStored'
    BY <1>b, <1>5 DEF Goto, WorksOnStored, SnapshotsAreStored, Request
  <2>3. QED
    BY <1>a, <1>e, <1>f, <1>5, <2>1, <2>2
<1>6. ASSUME NEW r \in Requests, CheckMembership(r)
      PROVE  Typed'
  <2>1. CASE Goto(r, "consume")
    BY <1>5, <1>6, <2>1 DEF CheckMembership
  <2>2. CASE Finish(r)
    BY <1>6, <2>2, <1>d, <1>e, <1>f DEF CheckMembership, Finish
  <2>3. QED
    BY <1>6, <2>1, <2>2 DEF CheckMembership
<1>7. ASSUME NEW r \in Requests, Consume(r)
      PROVE  Typed'
  BY <1>5, <1>7 DEF Consume
<1>8. ASSUME NEW r \in Requests, NEW c \in Tokens, CommitRotation(r, c)
      PROVE  Typed'
  <2> DEFINE p == req[r].tok
  <2>1. p \in Tokens /\ Stored(p) /\ ~Stored(c) /\ c # p
    BY <1>8 DEF CommitRotation, WorksOnStored, Free
  <2>2. FamilyOf(p) \in Families
    BY <2>1 DEF Row, FamilyOf
  <2>3. /\ Inserted(FamilyOf(p), p).status = "ACTIVE"
        /\ Inserted(FamilyOf(p), p).family = FamilyOf(p)
    BY DEF Inserted, Absent
  <2>4. \A u \in Tokens : row'[u] = IF u = c THEN Inserted(FamilyOf(p), p)
                                    ELSE IF u = p THEN Consumed(row[p]) ELSE row[u]
    BY <1>8, <2>1 DEF CommitRotation
  <2>5. /\ AbsentUntilInserted' /\ Stored(c)'
        /\ \A u \in Tokens : (Stored(u) <=> FamilyOf(u) # NoFamily)'
    <3>1. Stored(c)' /\ FamilyOf(c)' = FamilyOf(p)
      BY <2>3, <2>4 DEF Stored, FamilyOf
    <3>2. FamilyOf(c)' # NoFamily
      BY <2>2, <3>1, RefreshAssumption
    <3>3. \A u \in Tokens : u # c => row'[u] = row[u] \/ Stored(u)
      BY <2>1, <2>4
    <3>4. QED
      BY <1>b, <3>1, <3>2, <3>3 DEF AbsentUntilInserted, Stored, FamilyOf
  <2> DEFINE rq == [req[r] EXCEPT !.at = "respond", !.new = c]
  <2>6. req' = [req EXCEPT ![r] = rq]
    BY <1>8 DEF CommitRotation
  <2>7. /\ rq \in Request
        /\ rq.tok = p /\ rq.new = c /\ rq.snap = req[r].snap
    BY DEF Request
  <2> HIDE DEF rq
  <2>8. req' \in [Requests -> Request] /\ WorksOnStored' /\ SnapshotsAreStored'
    BY <1>b, <2>1, <2>5, <2>6, <2>7 DEF WorksOnStored, SnapshotsAreStored, Request
  <2>9. UNCHANGED <<issued, audit, presented, loggedOut>> /\ overtaken' \subseteq Families
    BY <1>8, <2>2 DEF CommitRotation
  <2>10. QED
    BY <1>a, <1>f, <2>5, <2>8, <2>9
<1>9. ASSUME NEW r \in Requests, SnapshotFamily(r)
      PROVE  Typed'
  <2> DEFINE s == Members(FamilyOf(req[r].tok))
  <2>1. s \subseteq Tokens /\ \A t \in s : Stored(t)
    BY DEF Members
  <2> HIDE DEF s
  <2> DEFINE rq == [req[r] EXCEPT !.at = "apply", !.snap = s]
  <2>2. req' = [req EXCEPT ![r] = rq] /\ req[r].at # "idle"
    BY <1>9 DEF SnapshotFamily, s
  <2>3. /\ rq \in Request
        /\ rq.tok = req[r].tok /\ rq.new = req[r].new /\ rq.snap = s
    BY <2>1 DEF Request
  <2> HIDE DEF rq
  <2>4. req' \in [Requests -> Request] /\ WorksOnStored'
    BY <1>b, <2>2, <2>3 DEF WorksOnStored, Request
  <2>5. SnapshotsAreStored'
    BY <1>b, <2>1, <2>2, <2>3 DEF SnapshotsAreStored, Request
  <2>6. UNCHANGED <<row, issued, audit, presented, loggedOut, overtaken>>
    BY <1>9 DEF SnapshotFamily
  <2>7. QED
    BY <1>a, <1>e, <1>f, <2>4, <2>5, <2>6
<1>10. ASSUME NEW r \in Requests, RevokeFamily(r)
       PROVE  Typed'
  <2>1. \A t \in Tokens : row'[t] = row[t] \/ Stored(t)
    BY <1>10 DEF RevokeFamily, WorksOnStored, SnapshotsAreStored
  <2>2. QED
    BY <1>5, <1>10, <2>1 DEF RevokeFamily
<1>11. ASSUME NEW r \in Requests, Respond(r)
       PROVE  Typed'
  <2>1. audit' \in [Families -> SUBSET AuditActions]
    BY <1>11 DEF Respond, AuditOf
  <2>2. UNCHANGED <<row, presented, loggedOut, overtaken>> /\ req' = [req EXCEPT ![r] = Idle]
    BY <1>11 DEF Respond, Finish
  <2>3. issued' = issued \cup ({req[r].new} \ {NoToken})
    BY <1>11 DEF Respond
  <2>4. req[r].new # NoToken => req[r].new \in Tokens /\ Stored(req[r].new)
    BY DEF WorksOnStored, Request
  <2>5. issued' \subseteq Tokens /\ IssuedAreStored'
    BY <1>b, <2>3, <2>4 DEF IssuedAreStored
  <2>6. QED
    BY <1>d, <1>e, <2>1, <2>2, <2>5
<1>12. ASSUME NEW r \in Requests, Fail(r)
       PROVE  Typed'
  BY <1>12, <1>d, <1>e, <1>f DEF Fail, Finish
<1>13. ASSUME NEW t \in Tokens, PassExpiry(t)
       PROVE  Typed'
  <2>1. UNCHANGED <<req, issued, audit, presented, loggedOut, overtaken>>
    BY <1>13 DEF PassExpiry
  <2>2. \A u \in Tokens : row'[u] = row[u] \/ Stored(u)
    BY <1>13 DEF PassExpiry
  <2>3. WorksOnStored' /\ SnapshotsAreStored'
    BY <1>b, <2>1 DEF WorksOnStored, SnapshotsAreStored, Request
  <2>4. QED
    BY <1>a, <1>e, <1>f, <2>1, <2>2, <2>3
<1>14. CASE UNCHANGED vars
  BY <1>14 DEF vars, WorksOnStored, SnapshotsAreStored, AbsentUntilInserted,
               IssuedAreStored, Stored, FamilyOf
<1>15. QED
  BY <1>1, <1>2, <1>3, <1>4, <1>6, <1>7, <1>8, <1>9, <1>10, <1>11, <1>12, <1>13, <1>14
     DEF Next, Step, UnknownToken

(* Every state reached is well typed, and a request in progress always works *)
(* on rows that exist.                                                       *)
THEOREM TypeCorrect == Spec => []TypeOK
<1>1. Spec => []Typed
  BY TypedInit, TypedStep, PTL DEF Spec
<1>2. Typed => TypeOK
  BY DEF Typed
<1>3. QED
  BY <1>1, <1>2, PTL

(* No step of any handler makes a dead token usable again or takes a mark    *)
(* back.                                                                     *)
THEOREM DeadTokensStayDead == Spec => DeadStaysDead
<1> DEFINE Step0 == \A t \in Tokens : Stored(t) =>
                      /\ Usable(row'[t]) => Usable(row[t])
                      /\ row[t].used => row'[t].used
                      /\ row[t].revoked => row'[t].revoked
                      /\ row[t].reuse => row'[t].reuse
<1>1. Typed /\ [Next]_vars => [Step0]_vars
  BY StepsKeepRows DEF RowsKeep, Keeps
<1>2. Spec => []Typed
  BY TypedInit, TypedStep, PTL DEF Spec
<1>3. QED
  BY <1>1, <1>2, PTL DEF Spec, DeadStaysDead

-----------------------------------------------------------------------------
(* The family update of a request covers the token that was presented.       *)
SnapshotHasToken ==
  \A r \in Requests : req[r].at = "apply" => req[r].tok \in req[r].snap

(* The inductive invariant behind the rotation theorems.  OneUsablePerFamily *)
(* alone is not inductive: that a rotation replaces the one usable token of  *)
(* its family, instead of adding a second, needs the row it holds to be      *)
(* usable still when it commits.                                             *)
Rotation == /\ RotationHoldsRow
            /\ SnapshotHasToken
            /\ OneUsablePerFamily
            /\ LinearChain

LEMMA RotationInit == Init => Rotation
BY DEF Init, Rotation, RotationHoldsRow, SnapshotHasToken, OneUsablePerFamily,
       LinearChain, Absent, Idle, Usable, FamilyOf

(* The parent of a stored row is a stored row; other rows have none.         *)
LEMMA Parents ==
  ASSUME Typed, LinearChain, NEW c \in Tokens, row[c].parent # NoToken
  PROVE  Stored(c) /\ row[c].parent \in Tokens /\ Stored(row[c].parent)
<1>1. row[c] \in Row /\ row[c].parent \in Tokens
  BY DEF Typed, TypeOK, Row
<1>2. Stored(c)
  BY DEF Typed, AbsentUntilInserted, Absent
<1>3. row[row[c].parent].used
  BY DEF LinearChain
<1>4. QED
  BY <1>1, <1>2, <1>3 DEF Typed, AbsentUntilInserted, Absent

(* Steps that insert nothing keep both properties of the table.              *)
LEMMA NoInsertKeepsChain ==
  ASSUME Typed, Rotation, RowsKeep, row' \in [Tokens -> Row],
         \A t \in Tokens : ~Stored(t) => row'[t] = row[t]
  PROVE  OneUsablePerFamily' /\ LinearChain'
<1> USE DEF Rotation
<1>1. ASSUME NEW t \in Tokens
      PROVE  /\ Usable(row'[t]) => Usable(row[t])
             /\ row'[t].family = row[t].family
             /\ row'[t].parent = row[t].parent
             /\ row[t].used => row'[t].used
  BY DEF RowsKeep, Keeps
<1>2. OneUsablePerFamily'
  BY <1>1 DEF OneUsablePerFamily, FamilyOf, Usable
<1>3. ASSUME NEW c \in Tokens, row'[c].parent # NoToken
      PROVE  /\ row'[row'[c].parent].used
             /\ row'[row'[c].parent].family = row'[c].family
             /\ \A d \in Tokens : row'[d].parent = row'[c].parent => d = c
  <2>1. row'[c].parent = row[c].parent /\ row[c].parent \in Tokens
    <3>1. row'[c].parent = row[c].parent /\ row[c].parent # NoToken
      BY <1>1, <1>3
    <3>2. QED
      BY <3>1, Parents
  <2>2. \A d \in Tokens : row[d].parent = row[c].parent => d = c
    BY <1>3, <2>1 DEF LinearChain
  <2>3. row[row[c].parent].used /\ row[row[c].parent].family = row[c].family
    BY <1>3, <2>1 DEF LinearChain, FamilyOf
  <2>4. QED
    BY <1>1, <2>1, <2>2, <2>3
<1>4. LinearChain'
  BY <1>3 DEF LinearChain, FamilyOf
<1>5. QED
  BY <1>2, <1>4

(* Login opens a family, so its first token has no sibling.                  *)
LEMMA LoginKeepsChain ==
  ASSUME Typed, Rotation, RowsKeep, NEW r \in Requests, NEW f \in Families,
         NEW t \in Tokens, Login(r, f, t)
  PROVE  OneUsablePerFamily' /\ LinearChain'
<1> USE DEF Rotation
<1>1. \A u \in Tokens : row'[u] = IF u = t THEN Inserted(f, NoToken) ELSE row[u]
  BY DEF Login, Typed, TypeOK
<1>2. Inserted(f, NoToken).family = f /\ Inserted(f, NoToken).parent = NoToken
  BY DEF Inserted, Absent
<1>3. \A u \in Tokens : FamilyOf(u) # f
  <2>1. ASSUME NEW u \in Tokens, FamilyOf(u) = f
        PROVE  FALSE
    <3>1. Stored(u)
      BY <2>1, RefreshAssumption DEF Typed, TypeOK
    <3>2. u \in Members(f)
      BY <2>1, <3>1 DEF Members
    <3>3. QED
      BY <3>2 DEF Login
  <2>2. QED
    BY <2>1
<1>4. OneUsablePerFamily'
  BY <1>1, <1>2, <1>3 DEF OneUsablePerFamily, FamilyOf, Usable
<1>5. ASSUME NEW c \in Tokens, row'[c].parent # NoToken
      PROVE  /\ row'[row'[c].parent].used
             /\ row'[row'[c].parent].family = row'[c].family
             /\ \A d \in Tokens : row'[d].parent = row'[c].parent => d = c
  <2>1. c # t /\ row'[c] = row[c]
    BY <1>1, <1>2, <1>5
  <2>2. row[c].parent \in Tokens /\ Stored(row[c].parent) /\ ~Stored(t)
    BY <1>5, <2>1, Parents DEF Login, Free
  <2>3. row'[row[c].parent] = row[row[c].parent]
    BY <1>1, <2>2
  <2>4. QED
    BY <1>1, <1>2, <1>5, <2>1, <2>3 DEF LinearChain, FamilyOf
<1>6. LinearChain'
  BY <1>5 DEF LinearChain, FamilyOf
<1>7. QED
  BY <1>4, <1>6

(* A rotation hands the one usable place of the family to the child.         *)
LEMMA CommitKeepsChain ==
  ASSUME Typed, Rotation, NEW r \in Requests, NEW c \in Tokens, CommitRotation(r, c)
  PROVE  OneUsablePerFamily' /\ LinearChain'
<1> DEFINE p == req[r].tok
           child == Inserted(FamilyOf(p), p)
<1>1. /\ p \in Tokens /\ Stored(p) /\ ~Stored(c) /\ c # p
      /\ Usable(row[p]) /\ ~row[p].used
  BY DEF CommitRotation, Typed, WorksOnStored, Free, Rotation, RotationHoldsRow, Usable
<1>2. \A u \in Tokens : row'[u] = IF u = c THEN child
                                  ELSE IF u = p THEN Consumed(row[p]) ELSE row[u]
  BY <1>1 DEF CommitRotation, Typed, TypeOK
<1>3. child.family = FamilyOf(p) /\ child.parent = p
  BY DEF Inserted, Absent
<1>4. /\ Consumed(row[p]).family = FamilyOf(p)
      /\ Consumed(row[p]).parent = row[p].parent
      /\ Consumed(row[p]).used
      /\ ~Usable(Consumed(row[p]))
  <2>1. row[p] \in Row /\ row[p].status # "NONE"
    BY <1>1 DEF Typed, TypeOK, Stored
  <2> HIDE DEF p
  <2>2. QED
    BY <2>1, RowUpdates DEF Keeps, FamilyOf
<1> HIDE DEF child
<1>5. \A u \in Tokens : u # c => row'[u].family = row[u].family /\ row'[u].parent = row[u].parent
  BY <1>2, <1>4 DEF FamilyOf
<1>6. OneUsablePerFamily'
  <2>1. \A u \in Tokens : u # c /\ Usable(row'[u]) => Usable(row[u]) /\ u # p /\ row'[u] = row[u]
    BY <1>2, <1>4
  <2>2. \A u \in Tokens : u # c /\ Usable(row'[u]) => row'[u].family # FamilyOf(p)
    BY <1>1, <2>1 DEF Rotation, OneUsablePerFamily, FamilyOf
  <2>3. row'[c].family = FamilyOf(p)
    BY <1>2, <1>3
  <2>4. QED
    BY <2>1, <2>2, <2>3 DEF Rotation, OneUsablePerFamily, FamilyOf
<1>7. \A d \in Tokens : row[d].parent # p
  BY <1>1, RefreshAssumption DEF Rotation, LinearChain
<1>8. ASSUME NEW d \in Tokens, row'[d].parent # NoToken
      PROVE  /\ row'[row'[d].parent].used
             /\ row'[row'[d].parent].family = row'[d].family
             /\ \A e \in Tokens : row'[e].parent = row'[d].parent => e = d
  <2>1. CASE d = c
    <3>1. row'[d].parent = p /\ row'[d].family = FamilyOf(p)
      BY <1>2, <1>3, <2>1
    <3>2. row'[p].used /\ row'[p].family = FamilyOf(p)
      BY <1>1, <1>2, <1>4
    <3>3. \A e \in Tokens : row'[e].parent = p => e = c
      BY <1>5, <1>7
    <3>4. QED
      BY <2>1, <3>1, <3>2, <3>3
  <2>2. CASE d # c
    <3> DEFINE q == row[d].parent
    <3>1. row'[d].parent = q /\ q # NoToken /\ row'[d].family = row[d].family
      BY <1>5, <1>8, <2>2
    <3>2. q \in Tokens /\ Stored(q) /\ q # c /\ q # p
      BY <1>1, <1>7, <3>1, Parents DEF Rotation
    <3>3. row'[q] = row[q]
      BY <1>2, <3>2
    <3>4. \A e \in Tokens : row'[e].parent = q => e = d
      BY <1>2, <1>3, <1>5, <3>1, <3>2 DEF Rotation, LinearChain
    <3>5. QED
      BY <3>1, <3>3, <3>4 DEF Rotation, LinearChain, FamilyOf
  <2>3. QED
    BY <2>1, <2>2
<1>9. LinearChain'
  BY <1>8 DEF LinearChain, FamilyOf
<1>10. QED
  BY <1>6, <1>9

(* The rotations in progress keep the rows they hold: a step that changes no *)
(* row another request holds, and brings no new holder.                      *)
LEMMA HoldersKept ==
  ASSUME Typed, Rotation,
         \A r \in Requests : req'[r].at = "commit" =>
           /\ req[r].at = "commit"
           /\ req'[r].tok = req[r].tok
           /\ Usable(row'[req[r].tok])
  PROVE  RotationHoldsRow'
BY DEF Rotation, RotationHoldsRow, Usable

LEMMA RotationStep == Typed /\ Rotation /\ [Next]_vars => Rotation'
<1> SUFFICES ASSUME Typed, Rotation, [Next]_vars PROVE Rotation'
  OBVIOUS
<1>a. RowsKeep /\ row' \in [Tokens -> Row]
  BY StepsKeepRows
<1>b. req \in [Requests -> Request]
  BY DEF Typed, TypeOK
<1>c. ASSUME \A t \in Tokens : ~Stored(t) => row'[t] = row[t]
      PROVE  OneUsablePerFamily' /\ LinearChain'
  BY <1>a, <1>c, NoInsertKeepsChain
<1>d. ASSUME NEW r \in Requests, req[r].at = "commit"
      PROVE  req[r].tok \in Tokens /\ Stored(req[r].tok) /\ Usable(row[req[r].tok])
  BY <1>d DEF Typed, WorksOnStored, Rotation, RotationHoldsRow
<1>e. ASSUME UNCHANGED row, NEW r \in Requests, NEW rq,
             req' = [req EXCEPT ![r] = rq], rq.at # "commit",
             rq.at = "apply" => rq.tok \in rq.snap
      PROVE  Rotation'
  <2>1. SnapshotHasToken'
    BY <1>b, <1>e DEF Rotation, SnapshotHasToken
  <2>2. RotationHoldsRow'
    BY <1>b, <1>d, <1>e, HoldersKept
  <2>3. QED
    BY <1>c, <1>e, <2>1, <2>2 DEF Rotation
<1>f. Idle.at = "idle"
  BY DEF Idle
<1>1. ASSUME NEW r \in Requests, NEW f \in Families, NEW t \in Tokens, Login(r, f, t)
      PROVE  Rotation'
  <2> DEFINE rq == [Idle EXCEPT !.at = "respond", !.tok = t, !.new = t]
  <2>1. rq.at = "respond"
    BY DEF Idle
  <2> HIDE DEF rq
  <2>2. req' = [req EXCEPT ![r] = rq] /\ ~Stored(t)
    BY <1>1 DEF Login, rq, Free
  <2>3. SnapshotHasToken'
    BY <1>b, <2>1, <2>2 DEF Rotation, SnapshotHasToken
  <2>4. \A u \in Tokens : u # t => row'[u] = row[u]
    BY <1>1 DEF Login, Typed, TypeOK
  <2>5. RotationHoldsRow'
    BY <1>b, <1>d, <2>1, <2>2, <2>4, HoldersKept
  <2>6. QED
    BY <1>1, <1>a, <2>3, <2>5, LoginKeepsChain DEF Rotation
<1>2. ASSUME NEW r \in Requests, NEW t \in Tokens, StartRefresh(r, t)
      PROVE  Rotation'
  <2> DEFINE rq == [Idle EXCEPT !.at = AfterLookup(row[t]), !.op = "refresh", !.tok = t]
  <2>1. rq.at \notin {"commit", "apply"}
    BY DEF Idle, AfterLookup
  <2> HIDE DEF rq
  <2>2. req' = [req EXCEPT ![r] = rq] /\ UNCHANGED row
    BY <1>2 DEF StartRefresh, rq
  <2>3. QED
    BY <1>e, <2>1, <2>2
<1>3. ASSUME NEW r \in Requests, NEW t \in Tokens, StartLogout(r, t)
      PROVE  Rotation'
  <2> DEFINE rq == [Idle EXCEPT !.at = "revoke", !.op = "logout", !.tok = t]
  <2>1. rq.at \notin {"commit", "apply"}
    BY DEF Idle
  <2> HIDE DEF rq
  <2>2. req' = [req EXCEPT ![r] = rq] /\ UNCHANGED row
    BY <1>3 DEF StartLogout, rq
  <2>3. QED
    BY <1>e, <2>1, <2>2
<1>4. ASSUME NEW r \in Requests, MarkExpired(r)
      PROVE  Rotation'
  <2>1. \A u \in Tokens : u # req[r].tok => row'[u] = row[u]
    BY <1>4 DEF MarkExpired, Typed, TypeOK
  <2>2. req' = [req EXCEPT ![r] = Idle] /\ Stored(req[r].tok)
    BY <1>4 DEF MarkExpired, Finish, Typed, WorksOnStored
  <2>3. \A q \in Requests : req[q].at = "commit" => req[q].tok # req[r].tok
    BY <1>4 DEF MarkExpired, Locked
  <2>4. SnapshotHasToken'
    BY <1>b, <1>f, <2>2 DEF Rotation, SnapshotHasToken
  <2>5. RotationHoldsRow'
    BY <1>b, <1>d, <1>f, <2>1, <2>2, <2>3, HoldersKept
  <2>6. QED
    BY <1>c, <2>1, <2>2, <2>4, <2>5 DEF Rotation
<1>5. ASSUME NEW r \in Requests, CheckMembership(r)
      PROVE  Rotation'
  <2>1. CASE Finish(r)
    BY <1>5, <1>e, <1>f, <2>1 DEF CheckMembership, Finish
  <2>2. CASE Goto(r, "consume")
    <3>1. req' = [req EXCEPT ![r] = [req[r] EXCEPT !.at = "consume"]]
      BY <2>2 DEF Goto
    <3>2. [req[r] EXCEPT !.at = "consume"].at = "consume"
      BY <1>b DEF Request
    <3>3. QED
      BY <1>5, <1>e, <3>1, <3>2 DEF CheckMembership
  <2>3. QED
    BY <1>5, <2>1, <2>2 DEF CheckMembership
<1>6. ASSUME NEW r \in Requests, Consume(r)
      PROVE  Rotation'
  <2> DEFINE place == IF Usable(row[req[r].tok]) THEN "commit" ELSE "revoke"
  <2>1. req' = [req EXCEPT ![r] = [req[r] EXCEPT !.at = place]] /\ UNCHANGED row
    BY <1>6 DEF Consume, Goto
  <2>2. /\ [req[r] EXCEPT !.at = place].at = place
        /\ [req[r] EXCEPT !.at = place].tok = req[r].tok
    BY <1>b DEF Request
  <2>3. CASE Usable(row[req[r].tok])
    <3>1. \A q \in Requests : req[q].at = "commit" => req[q].tok # req[r].tok
      BY <1>6 DEF Consume, Locked
    <3>2. req[r].tok \in Tokens
      BY <1>6 DEF Consume, Typed, WorksOnStored
    <3>3. /\ req'[r].at = "commit" /\ req'[r].tok = req[r].tok
          /\ \A q \in Requests : q # r => req'[q] = req[q]
      BY <1>b, <2>1, <2>2, <2>3
    <3>4. RotationHoldsRow'
      BY <2>1, <2>3, <3>1, <3>2, <3>3 DEF Rotation, RotationHoldsRow, Usable
    <3>5. SnapshotHasToken'
      BY <3>3 DEF Rotation, SnapshotHasToken
    <3>6. QED
      BY <1>c, <2>1, <3>4, <3>5 DEF Rotation
  <2>4. CASE ~Usable(row[req[r].tok])
    <3> DEFINE rq == [req[r] EXCEPT !.at = "revoke"]
    <3>1. rq.at = "revoke"
      BY <1>b DEF Request
    <3> HIDE DEF rq
    <3>2. req' = [req EXCEPT ![r] = rq]
      BY <2>1, <2>4 DEF rq
    <3>3. QED
      BY <1>e, <2>1, <3>1, <3>2
  <2>5. QED
    BY <2>3, <2>4
<1>7. ASSUME NEW r \in Requests, NEW c \in Tokens, CommitRotation(r, c)
      PROVE  Rotation'
  <2> DEFINE rq == [req[r] EXCEPT !.at = "respond", !.new = c]
  <2>1. rq.at = "respond"
    BY <1>b DEF Request
  <2> HIDE DEF rq
  <2>2. req' = [req EXCEPT ![r] = rq] /\ ~Stored(c) /\ req[r].at = "commit"
    BY <1>7 DEF CommitRotation, rq, Free
  <2>3. \A u \in Tokens : u # c /\ u # req[r].tok => row'[u] = row[u]
    BY <1>7 DEF CommitRotation, Typed, TypeOK
  <2>4. \A q \in Requests : q # r /\ req[q].at = "commit" => req[q].tok # req[r].tok
    BY <2>2 DEF Rotation, RotationHoldsRow
  <2>5. SnapshotHasToken'
    BY <1>b, <2>1, <2>2 DEF Rotation, SnapshotHasToken
  <2>6. RotationHoldsRow'
    BY <1>b, <1>d, <2>1, <2>2, <2>3, <2>4, HoldersKept
  <2>7. QED
    BY <1>7, <2>5, <2>6, CommitKeepsChain DEF Rotation
<1>8. ASSUME NEW r \in Requests, SnapshotFamily(r)
      PROVE  Rotation'
  <2> DEFINE rq == [req[r] EXCEPT !.at = "apply", !.snap = Members(FamilyOf(req[r].tok))]
  <2>1. rq.at = "apply" /\ rq.tok = req[r].tok /\ rq.snap = Members(FamilyOf(req[r].tok))
    BY <1>b DEF Request
  <2>2. req[r].tok \in Members(FamilyOf(req[r].tok))
    BY <1>8 DEF SnapshotFamily, Members, Typed, WorksOnStored
  <2> HIDE DEF rq
  <2>3. req' = [req EXCEPT ![r] = rq] /\ UNCHANGED row
    BY <1>8 DEF SnapshotFamily, rq
  <2>4. QED
    BY <1>e, <2>1, <2>2, <2>3
<1>9. ASSUME NEW r \in Requests, RevokeFamily(r)
      PROVE  Rotation'
  <2>1. \A t \in req[r].snap : Stored(t) /\ ~Locked(t)
    BY <1>9 DEF RevokeFamily, Typed, SnapshotsAreStored
  <2>2. req[r].tok \in req[r].snap
    BY <1>9 DEF RevokeFamily, Rotation, SnapshotHasToken
  <2>3. \A t \in Tokens : t \notin req[r].snap => row'[t] = row[t]
    BY <1>9, <2>2 DEF RevokeFamily
  <2>4. req' = [req EXCEPT ![r] = [req[r] EXCEPT !.at = "respond"]]
    BY <1>9 DEF RevokeFamily, Goto
  <2>5. [req[r] EXCEPT !.at = "respond"].at = "respond"
    BY <1>b DEF Request
  <2>6. SnapshotHasToken'
    BY <1>b, <2>4, <2>5 DEF Rotation, SnapshotHasToken
  <2>7. \A q \in Requests : req[q].at = "commit" => row'[req[q].tok] = row[req[q].tok]
    BY <1>d, <2>1, <2>3 DEF Locked
  <2>8. RotationHoldsRow'
    BY <1>b, <1>d, <2>4, <2>5, <2>7, HoldersKept
  <2>9. QED
    BY <1>c, <2>1, <2>3, <2>6, <2>8 DEF Rotation
<1>10. ASSUME NEW r \in Requests, Respond(r) \/ Fail(r)
       PROVE  Rotation'
  BY <1>10, <1>e, <1>f DEF Respond, Fail, Finish
<1>11. ASSUME NEW t \in Tokens, PassExpiry(t)
       PROVE  Rotation'
  <2>1. row' = [row EXCEPT ![t].pastExpiry = TRUE] /\ UNCHANGED req /\ Stored(t)
    BY <1>11 DEF PassExpiry
  <2>2. \A u \in Tokens : Usable(row[u]) => Usable(row'[u])
    BY <2>1 DEF Usable, Typed, TypeOK, Row
  <2>3. \A u \in Tokens : ~Stored(u) => row'[u] = row[u]
    BY <2>1 DEF Typed, TypeOK
  <2>4. RotationHoldsRow'
    BY <1>d, <2>1, <2>2, HoldersKept
  <2>5. QED
    BY <1>c, <2>1, <2>3, <2>4 DEF Rotation, SnapshotHasToken
<1>12. CASE UNCHANGED vars
  <2>1. RotationHoldsRow'
    BY <1>12, <1>d, HoldersKept DEF vars
  <2>2. QED
    BY <1>12, <1>c, <2>1 DEF vars, Rotation, SnapshotHasToken
<1>13. QED
  BY <1>1, <1>2, <1>3, <1>4, <1>5, <1>6, <1>7, <1>8, <1>9, <1>10, <1>11, <1>12
     DEF Next, Step, UnknownToken

LEMMA RotationAlways == Spec => []Rotation
<1>1. Spec => []Typed
  BY TypedInit, TypedStep, PTL DEF Spec
<1>2. QED
  BY <1>1, RotationInit, RotationStep, PTL DEF Spec

(* A rotation that passed its guarded update holds a usable row alone until  *)
(* it commits.                                                               *)
THEOREM RotationsHoldTheirRow == Spec => []RotationHoldsRow
BY RotationAlways, PTL DEF Rotation

(* One login never yields two live sessions: at most one token of a family   *)
(* can be exchanged, however the requests interleave.                        *)
THEOREM OneUsableTokenPerFamily == Spec => []OneUsablePerFamily
BY RotationAlways, PTL DEF Rotation

(* Each token is exchanged for at most one child, which stays in the family. *)
THEOREM RotationIsLinear == Spec => []LinearChain
BY RotationAlways, PTL DEF Rotation

-----------------------------------------------------------------------------
(* What a request that is about to record has done: the token it presented   *)
(* bears the marks of a reuse or of a revocation, the one it answers with is *)
(* a child of the family.                                                    *)
Effect(r) ==
  /\ AuditOf(req[r]) = "TokenReuse" => row[req[r].tok].reuse
  /\ AuditOf(req[r]) = "Logout" => row[req[r].tok].revoked
  /\ AuditOf(req[r]) = "Refresh" =>
       /\ req[r].new # NoToken /\ row[req[r].new].parent # NoToken
       /\ FamilyOf(req[r].new) = FamilyOf(req[r].tok)

(* Only refreshes exchange tokens, and no request has its answer early.      *)
Exchanging == {"markExpired", "membership", "consume", "commit"}

InCourse(rq) ==
  /\ rq.at \in Exchanging => rq.op = "refresh"
  /\ rq.at \in {"revoke", "apply"} => rq.op \in {"refresh", "logout"}
  /\ rq.at # "respond" => rq.new = NoToken

Recording ==
  /\ \A r \in Requests : InCourse(req[r]) /\ (req[r].at = "respond" => Effect(r))
  /\ AuditAfterEffect

LEMMA RecordingInit == Init => Recording
BY DEF Init, Recording, InCourse, Effect, Exchanging, AuditAfterEffect, Idle

(* The other requests stay.                                                  *)
Alone(r) == \A q \in Requests : q # r => req'[q] = req[q]

(* What has been recorded or is about to be stays true, whatever is written  *)
(* to the rows next.                                                         *)
LEMMA EffectsStay ==
  ASSUME Typed, Recording, RowsKeep
  PROVE  /\ \A q \in Requests : req[q].at = "respond" /\ req'[q] = req[q] => Effect(q)'
         /\ \A f \in Families :
              /\ "TokenReuse" \in audit[f] => (\E t \in Members(f) : row[t].reuse)'
              /\ "Logout" \in audit[f] => (\E t \in Members(f) : row[t].revoked)'
              /\ "Refresh" \in audit[f] => (\E t \in Members(f) : row[t].parent # NoToken)'
<1>1. ASSUME NEW t \in Tokens, Stored(t)
      PROVE  /\ row'[t].status # "NONE" /\ row'[t].family = row[t].family
             /\ row'[t].parent = row[t].parent
             /\ row[t].reuse => row'[t].reuse
             /\ row[t].revoked => row'[t].revoked
  BY <1>1 DEF RowsKeep, Keeps
<1>2. ASSUME NEW q \in Requests, req[q].at = "respond", req'[q] = req[q] PROVE Effect(q)'
  <2>1. /\ req[q].tok \in Tokens /\ Stored(req[q].tok)
        /\ req[q].new # NoToken => req[q].new \in Tokens /\ Stored(req[q].new)
        /\ Effect(q)
    BY <1>2 DEF Typed, WorksOnStored, Recording
  <2>2. QED
    BY <1>1, <1>2, <2>1 DEF Effect, AuditOf, FamilyOf
<1>3. ASSUME NEW f \in Families
      PROVE  /\ "TokenReuse" \in audit[f] => (\E t \in Members(f) : row[t].reuse)'
             /\ "Logout" \in audit[f] => (\E t \in Members(f) : row[t].revoked)'
             /\ "Refresh" \in audit[f] => (\E t \in Members(f) : row[t].parent # NoToken)'
  <2>1. \A t \in Members(f) : /\ t \in Members(f)' /\ row'[t].parent = row[t].parent
                              /\ row[t].reuse => row'[t].reuse
                              /\ row[t].revoked => row'[t].revoked
    BY <1>1 DEF Members, Stored, FamilyOf
  <2>2. QED
    BY <2>1 DEF Recording, AuditAfterEffect
<1>4. QED
  BY <1>2, <1>3

(* One request goes on to a place where nothing is recorded yet.             *)
LEMMA RecordingGoesOn ==
  ASSUME Typed, Recording, RowsKeep, UNCHANGED audit, NEW r \in Requests, Alone(r),
         InCourse(req'[r]), req'[r].at = "respond" => Effect(r)'
  PROVE  Recording'
<1>1. AuditAfterEffect'
  BY EffectsStay DEF AuditAfterEffect
<1>2. \A q \in Requests : q # r => InCourse(req'[q]) /\ (req'[q].at = "respond" => Effect(q)')
  BY EffectsStay DEF Alone, Recording
<1>3. QED
  BY <1>1, <1>2 DEF Recording

LEMMA RecordingStep ==
  ASSUME Typed, Rotation, Recording, [Next]_vars
  PROVE  Recording'
<1>a. RowsKeep /\ req \in [Requests -> Request]
  BY StepsKeepRows DEF Typed, TypeOK
<1>b. ASSUME UNCHANGED <<req, audit>> PROVE Recording'
  BY <1>a, <1>b, EffectsStay DEF Recording, AuditAfterEffect
<1>c. ASSUME NEW r \in Requests, NEW place \in Places, place # "respond", Goto(r, place),
             UNCHANGED audit, InCourse([req[r] EXCEPT !.at = place])
      PROVE  Recording'
  <2>1. Alone(r) /\ req'[r] = [req[r] EXCEPT !.at = place] /\ req'[r].at = place
    BY <1>a, <1>c DEF Goto, Alone, Request
  <2>2. QED
    BY <1>a, <1>c, <2>1, RecordingGoesOn
<1>d. ASSUME NEW r \in Requests, Finish(r) PROVE Alone(r) /\ req'[r] = Idle
  BY <1>a, <1>d DEF Finish, Alone
<1>e. InCourse(Idle) /\ Idle.at = "idle"
  BY DEF InCourse, Idle, Exchanging
<1>f. ASSUME NEW r \in Requests, Finish(r), UNCHANGED audit PROVE Recording'
  BY <1>a, <1>d, <1>e, <1>f, RecordingGoesOn
<1>g. ASSUME NEW r \in Requests PROVE req[r] \in Request /\ InCourse(req[r])
  BY <1>a DEF Recording
<1>1. ASSUME NEW r \in Requests, NEW f \in Families, NEW t \in Tokens, Login(r, f, t)
      PROVE  Recording'
  <2>1. Alone(r) /\ req'[r].at = "respond" /\ req'[r].op = "login" /\ UNCHANGED audit
    BY <1>1, <1>a DEF Login, Alone, Idle
  <2>2. InCourse(req'[r]) /\ Effect(r)'
    BY <2>1 DEF InCourse, Effect, AuditOf, Exchanging
  <2>3. QED
    BY <1>a, <2>1, <2>2, RecordingGoesOn
<1>2. ASSUME NEW r \in Requests, NEW t \in Tokens, StartRefresh(r, t) \/ StartLogout(r, t)
      PROVE  Recording'
  <2>1. Alone(r) /\ UNCHANGED audit
    BY <1>2, <1>a DEF StartRefresh, StartLogout, Alone
  <2>2. InCourse(req'[r]) /\ req'[r].at # "respond"
    <3>1. CASE StartRefresh(r, t)
      <4>1. req'[r] = [Idle EXCEPT !.at = AfterLookup(row[t]), !.op = "refresh", !.tok = t]
        BY <1>a, <3>1 DEF StartRefresh
      <4>2. AfterLookup(row[t]) \in {"markExpired", "revoke", "membership"}
        BY DEF AfterLookup
      <4>3. QED
        BY <4>1, <4>2 DEF InCourse, Exchanging, Idle
    <3>2. CASE StartLogout(r, t)
      BY <1>a, <3>2 DEF StartLogout, InCourse, Exchanging, Idle
    <3>3. QED
      BY <1>2, <3>1, <3>2
  <2>3. QED
    BY <1>a, <2>1, <2>2, RecordingGoesOn
<1>3. ASSUME NEW r \in Requests, CheckMembership(r) \/ Consume(r) PROVE Recording'
  <2>1. req[r].op = "refresh" /\ UNCHANGED audit
    BY <1>3, <1>g DEF CheckMembership, Consume, InCourse, Exchanging
  <2>2. \A place \in {"consume", "commit", "revoke"} : InCourse([req[r] EXCEPT !.at = place])
    BY <1>3, <1>g, <2>1 DEF CheckMembership, Consume, InCourse, Exchanging, Request
  <2>3. QED
    BY <1>3, <1>c, <1>f, <2>1, <2>2 DEF CheckMembership, Consume
<1>4. ASSUME NEW r \in Requests, NEW c \in Tokens, CommitRotation(r, c) PROVE Recording'
  <2> DEFINE p == req[r].tok
  <2>1. /\ p \in Tokens /\ Stored(p) /\ c \in Tokens /\ ~Stored(c) /\ p # c
        /\ req[r].op = "refresh" /\ UNCHANGED audit
    BY <1>4, <1>g DEF CommitRotation, Free, Typed, WorksOnStored, InCourse, Exchanging
  <2>2. /\ Alone(r) /\ req'[r].at = "respond" /\ req'[r].op = "refresh"
        /\ req'[r].new = c /\ req'[r].tok = p
    BY <1>4, <1>a, <2>1 DEF CommitRotation, Alone, Request
  <2>3. row'[c] = Inserted(FamilyOf(p), p) /\ row'[p] = Consumed(row[p])
    BY <1>4, <2>1 DEF CommitRotation, Typed, TypeOK
  <2>4. /\ FamilyOf(p) \in Families /\ row[p] \in Row
        /\ row'[c].parent = p /\ row'[c].family = FamilyOf(p)
        /\ row'[p].family = FamilyOf(p)
    <3>1. row[p] \in Row /\ row[p].status # "NONE" /\ FamilyOf(p) # NoFamily
      BY <2>1 DEF Typed, TypeOK, Stored
    <3>2. FamilyOf(p) \in Families
      BY <3>1 DEF Row, FamilyOf
    <3>3. /\ Inserted(FamilyOf(p), p).family = FamilyOf(p) /\ Inserted(FamilyOf(p), p).parent = p
      BY <2>1, <3>2, InsertedRow
    <3>4. Consumed(row[p]).family = row[p].family
      BY <3>1, RowUpdates DEF Keeps
    <3>5. QED
      BY <2>3, <3>1, <3>2, <3>3, <3>4 DEF FamilyOf
  <2>5. InCourse(req'[r]) /\ Effect(r)'
    BY <2>1, <2>2, <2>4, RefreshAssumption DEF InCourse, Effect, AuditOf, Exchanging, FamilyOf
  <2>6. QED
    BY <1>a, <2>1, <2>2, <2>5, RecordingGoesOn
<1>5. ASSUME NEW r \in Requests, SnapshotFamily(r) PROVE Recording'
  <2>1. /\ Alone(r) /\ req'[r].at = "apply" /\ req'[r].op = req[r].op /\ req'[r].new = req[r].new
        /\ UNCHANGED audit
    BY <1>5, <1>a DEF SnapshotFamily, Alone, Request
  <2>2. InCourse(req'[r])
    BY <1>5, <1>g, <2>1 DEF SnapshotFamily, InCourse, Exchanging
  <2>3. QED
    BY <1>a, <2>1, <2>2, RecordingGoesOn
<1>6. ASSUME NEW r \in Requests, RevokeFamily(r) PROVE Recording'
  <2>1. /\ Alone(r) /\ req'[r].at = "respond" /\ req'[r].op = req[r].op
        /\ req'[r].new = req[r].new /\ req'[r].tok = req[r].tok
        /\ UNCHANGED audit
    BY <1>6, <1>a DEF RevokeFamily, Goto, Alone, Request
  <2>2. req[r].op \in {"refresh", "logout"} /\ req[r].new = NoToken
    BY <1>6, <1>g DEF RevokeFamily, InCourse
  <2>3. req[r].tok \in Tokens /\ req[r].tok \in req[r].snap /\ row[req[r].tok] \in Row
    BY <1>6 DEF RevokeFamily, Typed, TypeOK, WorksOnStored, Rotation, SnapshotHasToken
  <2>4. row'[req[r].tok] = IF req[r].op = "refresh" THEN Reused(row[req[r].tok])
                                                   ELSE Revoked(row[req[r].tok])
    BY <1>6, <2>3 DEF RevokeFamily
  <2>5. /\ row'[req[r].tok].revoked
        /\ req[r].op = "refresh" => row'[req[r].tok].reuse
    BY <2>3, <2>4 DEF Reused, Revoked, Row
  <2>6. InCourse(req'[r]) /\ Effect(r)'
    BY <2>1, <2>2, <2>5 DEF InCourse, Effect, AuditOf, Exchanging
  <2>7. QED
    BY <1>a, <2>1, <2>6, RecordingGoesOn
<1>7. ASSUME NEW r \in Requests, Respond(r) PROVE Recording'
  <2> DEFINE g == FamilyOf(req[r].tok)
             entry == AuditOf(req[r])
  <2>1. /\ req[r].tok \in Members(g) /\ Effect(r)
        /\ req[r].new # NoToken => req[r].new \in Tokens /\ Stored(req[r].new)
    BY <1>7 DEF Respond, Typed, WorksOnStored, Recording, Members
  <2>2. UNCHANGED row /\ Alone(r) /\ req'[r] = Idle
    BY <1>7, <1>d DEF Respond
  <2>3. audit' = [audit EXCEPT ![g] = @ \cup {entry}] /\ audit \in [Families -> SUBSET AuditActions]
    BY <1>7 DEF Respond, Typed, TypeOK
  <2>4. /\ entry = "TokenReuse" => \E t \in Members(g) : row[t].reuse
        /\ entry = "Logout" => \E t \in Members(g) : row[t].revoked
        /\ entry = "Refresh" => \E t \in Members(g) : row[t].parent # NoToken
    BY <2>1 DEF Effect, Members
  <2> HIDE DEF g, entry
  <2>5. \A f \in Families : \A a : a \in audit'[f] => a \in audit[f] \/ (f = g /\ a = entry)
    BY <2>3
  <2>6. \A f : Members(f)' = Members(f)
    BY <2>2 DEF Members, Stored, FamilyOf
  <2>7. AuditAfterEffect
    BY DEF Recording
  <2>8. AuditAfterEffect'
    <3> SUFFICES ASSUME NEW f \in Families
                 PROVE  /\ "TokenReuse" \in audit'[f] => \E t \in Members(f) : row[t].reuse
                        /\ "Logout" \in audit'[f] => \E t \in Members(f) : row[t].revoked
                        /\ "Refresh" \in audit'[f] => \E t \in Members(f) : row[t].parent # NoToken
      BY <2>2, <2>6 DEF AuditAfterEffect
    <3>1. /\ "TokenReuse" \in audit[f] => \E t \in Members(f) : row[t].reuse
          /\ "Logout" \in audit[f] => \E t \in Members(f) : row[t].revoked
          /\ "Refresh" \in audit[f] => \E t \in Members(f) : row[t].parent # NoToken
      BY <2>7 DEF AuditAfterEffect
    <3>2. QED
      BY <2>4, <2>5, <3>1
  <2>9. \A q \in Requests : q # r => InCourse(req'[q]) /\ (req'[q].at = "respond" => Effect(q)')
    BY <1>a, <2>2, EffectsStay DEF Alone, Recording
  <2>10. QED
    BY <1>e, <2>2, <2>8, <2>9 DEF Recording
<1>8. ASSUME NEW r \in Requests, MarkExpired(r) \/ Fail(r) PROVE Recording'
  BY <1>8, <1>f DEF MarkExpired, Fail
<1>9. ASSUME NEW t \in Tokens, PassExpiry(t) PROVE Recording'
  BY <1>9, <1>b DEF PassExpiry
<1>10. QED
  BY <1>b, <1>1, <1>2, <1>3, <1>4, <1>5, <1>6, <1>7, <1>8, <1>9 DEF Next, Step, UnknownToken, vars

LEMMA RecordingAlways == Spec => [](Typed /\ Rotation /\ Recording)
<1>1. Typed /\ Rotation /\ Recording /\ [Next]_vars => (Typed /\ Rotation /\ Recording)'
  BY TypedStep, RotationStep, RecordingStep
<1>2. QED
  BY <1>1, TypedInit, RotationInit, RecordingInit, PTL DEF Spec

(* The audit log reports nothing that has not happened to the rows.          *)
THEOREM AuditFollowsEffect == Spec => []AuditAfterEffect
BY RecordingAlways, PTL DEF Recording

-----------------------------------------------------------------------------
Dead(f) == \A t \in Members(f) : ~Usable(row[t])

(* Unless a rotation overtook it, a family update in progress will visit all *)
(* tokens that are still usable, and one that is done has left none.         *)
Covers(r) ==
  req[r].at = "apply" /\ FamilyOf(req[r].tok) \notin overtaken =>
    \A t \in Members(FamilyOf(req[r].tok)) : t \in req[r].snap \/ ~Usable(row[t])

HasRevoked(r) ==
  /\ req[r].at = "respond" /\ AuditOf(req[r]) \in {"Logout", "TokenReuse"}
  /\ FamilyOf(req[r].tok) \notin overtaken
  => Dead(FamilyOf(req[r].tok))

Revoking ==
  /\ \A r \in Requests : Covers(r) /\ HasRevoked(r)
  /\ OnlyOvertakenSurvive

LEMMA RevokingInit == Init => Revoking
BY DEF Init, Revoking, Covers, HasRevoked, OnlyOvertakenSurvive, Idle

(* Where a new row comes from: a login into an unused family, or a rotation, *)
(* which overtakes the family updates in progress.                           *)
LEMMA Inserts ==
  ASSUME Typed, Rotation, [Next]_vars, NEW t \in Tokens, ~Stored(t), Stored(t)'
  PROVE  \/ Members(FamilyOf(t)') = {}
         \/ /\ \E s \in Members(FamilyOf(t)') : Usable(row[s])
            /\ UnderRevocation(FamilyOf(t)') => FamilyOf(t)' \in overtaken'
<1>a. row \in [Tokens -> Row]
  BY DEF Typed, TypeOK
<1>1. ASSUME NEW r \in Requests, NEW f \in Families, NEW u \in Tokens, Login(r, f, u)
      PROVE  Members(FamilyOf(t)') = {}
  <2>1. row' = [row EXCEPT ![u] = Inserted(f, NoToken)] /\ Members(f) = {}
    BY <1>1 DEF Login
  <2>2. t = u
    BY <1>a, <2>1 DEF Stored
  <2>3. row'[t] = Inserted(f, NoToken)
    BY <1>a, <2>1, <2>2
  <2>4. Inserted(f, NoToken).family = f
    BY InsertedRow
  <2>5. QED
    BY <2>1, <2>3, <2>4 DEF FamilyOf
<1>2. ASSUME NEW r \in Requests, NEW c \in Tokens, CommitRotation(r, c)
      PROVE  /\ \E s \in Members(FamilyOf(t)') : Usable(row[s])
             /\ UnderRevocation(FamilyOf(t)') => FamilyOf(t)' \in overtaken'
  <2> DEFINE p == req[r].tok
  <2>1. /\ p \in Tokens /\ Stored(p) /\ Usable(row[p]) /\ p # c
        /\ row' = [row EXCEPT ![p] = Consumed(@), ![c] = Inserted(FamilyOf(p), p)]
        /\ overtaken' = IF UnderRevocation(FamilyOf(p)) THEN overtaken \cup {FamilyOf(p)}
                                                        ELSE overtaken
    BY <1>2 DEF CommitRotation, Free, Typed, WorksOnStored, Rotation, RotationHoldsRow
  <2>2. FamilyOf(p) \in Families
    <3>1. row[p] \in Row /\ FamilyOf(p) # NoFamily
      BY <2>1 DEF Typed, TypeOK
    <3>2. QED
      BY <3>1 DEF Row, FamilyOf
  <2>3. t = c
    BY <1>a, <2>1 DEF Stored
  <2>4. row'[t] = Inserted(FamilyOf(p), p)
    BY <1>a, <2>1, <2>3
  <2>5. Inserted(FamilyOf(p), p).family = FamilyOf(p)
    BY <2>1, <2>2, InsertedRow
  <2>6. FamilyOf(t)' = FamilyOf(p)
    BY <2>4, <2>5 DEF FamilyOf
  <2>7. p \in Members(FamilyOf(p))
    BY <2>1 DEF Members
  <2>8. QED
    BY <2>1, <2>6, <2>7
<1>3. CASE \A u \in Tokens : row'[u] = row[u] \/ Stored(u)
  BY <1>3 DEF Stored
<1>4. ASSUME NEW r \in Requests, MarkExpired(r)
      PROVE  \A u \in Tokens : row'[u] = row[u] \/ Stored(u)
  BY <1>a, <1>4 DEF MarkExpired, Typed, WorksOnStored
<1>5. ASSUME NEW r \in Requests, RevokeFamily(r)
      PROVE  \A u \in Tokens : row'[u] = row[u] \/ Stored(u)
  BY <1>5 DEF RevokeFamily, Typed, WorksOnStored, SnapshotsAreStored
<1>6. ASSUME NEW u \in Tokens, PassExpiry(u)
      PROVE  \A s \in Tokens : row'[s] = row[s] \/ Stored(s)
  BY <1>a, <1>6 DEF PassExpiry
<1>7. QED
  BY <1>1, <1>2, <1>3, <1>4, <1>5, <1>6
     DEF Next, Step, vars, UnknownToken, StartRefresh, StartLogout, CheckMembership,
         Consume, SnapshotFamily, Respond, Fail

LEMMA OvertakenGrows ==
  ASSUME [Next]_vars
  PROVE  overtaken \subseteq overtaken'
BY DEF Next, Step, vars, Login, UnknownToken, StartRefresh, StartLogout, MarkExpired,
       CheckMembership, Consume, CommitRotation, SnapshotFamily, RevokeFamily, Respond, Fail,
       PassExpiry

(* A family without a usable token gets none.                                *)
LEMMA DeadFamilies ==
  ASSUME Typed, Rotation, [Next]_vars, NEW f, Members(f) # {}, Dead(f)
  PROVE  Dead(f)'
<1> SUFFICES ASSUME NEW t \in Tokens, Stored(t)', FamilyOf(t)' = f
             PROVE  ~Usable(row'[t])
  BY DEF Dead, Members
<1>1. CASE Stored(t)
  <2>1. Keeps(row'[t], row[t])
    BY <1>1, StepsKeepRows DEF RowsKeep
  <2>2. t \in Members(f)
    BY <1>1, <2>1 DEF Keeps, Members, FamilyOf
  <2>3. QED
    BY <2>1, <2>2 DEF Keeps, Dead
<1>2. CASE ~Stored(t)
  BY <1>2, Inserts DEF Dead
<1>3. QED
  BY <1>1, <1>2

(* The requests that a step does not move.                                   *)
LEMMA RevokingStays ==
  ASSUME Typed, Rotation, Revoking, [Next]_vars, NEW q \in Requests, req'[q] = req[q]
  PROVE  Covers(q)' /\ HasRevoked(q)'
<1> DEFINE p == req[q].tok
           f == FamilyOf(p)
<1>1. Covers(q) /\ HasRevoked(q)
  BY DEF Revoking
<1>2. req[q].at # "idle" => /\ p \in Tokens /\ Stored(p) /\ p \in Members(f)
                           /\ FamilyOf(p)' = f
  BY StepsKeepRows DEF Typed, WorksOnStored, Members, RowsKeep, Keeps, FamilyOf
<1>3. ASSUME req[q].at = "apply", f \notin overtaken',
             NEW t \in Tokens, Stored(t)', FamilyOf(t)' = f
      PROVE  t \in req[q].snap \/ ~Usable(row'[t])
  <2>1. CASE Stored(t)
    <3>1. Keeps(row'[t], row[t])
      BY <2>1, StepsKeepRows DEF RowsKeep
    <3>2. t \in Members(f)
      BY <1>3, <2>1, <3>1 DEF Keeps, Members, FamilyOf
    <3>3. QED
      BY <1>1, <1>3, <3>1, <3>2, OvertakenGrows DEF Covers, Keeps
  <2>2. CASE ~Stored(t)
    <3>1. UnderRevocation(f) /\ Members(f) # {}
      BY <1>2, <1>3 DEF UnderRevocation
    <3>2. QED
      BY <1>3, <2>2, <3>1, Inserts
  <2>3. QED
    BY <2>1, <2>2
<1>4. Covers(q)'
  BY <1>2, <1>3 DEF Covers, Members
<1>5. HasRevoked(q)'
  <2> SUFFICES ASSUME req[q].at = "respond", AuditOf(req[q]) \in {"Logout", "TokenReuse"},
                      f \notin overtaken'
               PROVE  Dead(f)'
    BY <1>2 DEF HasRevoked, Dead, AuditOf
  <2>1. Dead(f) /\ Members(f) # {}
    BY <1>1, <1>2, OvertakenGrows DEF HasRevoked
  <2>2. PICK g : g = f
    OBVIOUS
  <2>3. Dead(g)'
    BY <2>1, <2>2, DeadFamilies
  <2>4. f' = g
    BY <1>2, <2>2
  <2>5. QED
    BY <2>3, <2>4 DEF Dead, Members
<1>6. QED
  BY <1>4, <1>5

(* What has been recorded stays true.                                        *)
LEMMA SurvivorsStay ==
  ASSUME Typed, Rotation, Recording, Revoking, [Next]_vars, NEW f \in Families,
         {"Logout", "TokenReuse"} \cap audit[f] # {}, f \notin overtaken'
  PROVE  Dead(f)'
<1>1. Members(f) # {}
  BY DEF Recording, AuditAfterEffect
<1>2. Dead(f)
  BY OvertakenGrows DEF Revoking, OnlyOvertakenSurvive, Dead
<1>3. QED
  BY <1>1, <1>2, DeadFamilies

LEMMA RevokingStep ==
  ASSUME Typed, Rotation, Recording, Revoking, [Next]_vars
  PROVE  Revoking'
<1>a. req \in [Requests -> Request]
  BY DEF Typed, TypeOK
<1>b. ASSUME UNCHANGED audit PROVE OnlyOvertakenSurvive'
  <2>1. \A f \in Families : {"Logout", "TokenReuse"} \cap audit[f] # {} /\ f \notin overtaken'
          => Dead(f)'
    BY SurvivorsStay
  <2>2. QED
    BY <1>b, <2>1 DEF OnlyOvertakenSurvive, Dead
<1>c. ASSUME NEW r \in Requests, Alone(r), UNCHANGED audit, Covers(r)', HasRevoked(r)'
      PROVE  Revoking'
  BY <1>b, <1>c, RevokingStays DEF Revoking, Alone
<1>d. ASSUME NEW r \in Requests, req'[r].at \notin {"apply", "respond"}
      PROVE  Covers(r)' /\ HasRevoked(r)'
  BY <1>d DEF Covers, HasRevoked
<1>e. ASSUME NEW r \in Requests, Finish(r) PROVE Alone(r) /\ req'[r].at = "idle"
  BY <1>a, <1>e DEF Finish, Alone, Idle
<1>f. ASSUME NEW r \in Requests, NEW place, Goto(r, place)
      PROVE  Alone(r) /\ req'[r] = [req[r] EXCEPT !.at = place] /\ req'[r].at = place
  BY <1>a, <1>f DEF Goto, Alone, Request
<1>1. ASSUME NEW r \in Requests, NEW f \in Families, NEW t \in Tokens, Login(r, f, t)
      PROVE  Revoking'
  <2>1. Alone(r) /\ req'[r].at = "respond" /\ req'[r].op = "login" /\ UNCHANGED audit
    BY <1>a, <1>1 DEF Login, Alone, Idle
  <2>2. Covers(r)' /\ HasRevoked(r)'
    BY <2>1 DEF Covers, HasRevoked, AuditOf
  <2>3. QED
    BY <1>c, <2>1, <2>2
<1>2. ASSUME NEW r \in Requests, NEW t \in Tokens, StartRefresh(r, t) \/ StartLogout(r, t)
      PROVE  Revoking'
  <2>1. Alone(r) /\ UNCHANGED audit /\ req'[r].at \notin {"apply", "respond"}
    <3>1. CASE StartRefresh(r, t)
      <4>1. req' = [req EXCEPT ![r] = [Idle EXCEPT !.at = AfterLookup(row[t]), !.op = "refresh", !.tok = t]]
        BY <3>1 DEF StartRefresh
      <4>2. AfterLookup(row[t]) \notin {"apply", "respond"}
        BY DEF AfterLookup
      <4>3. Alone(r) /\ req'[r].at = AfterLookup(row[t])
        BY <1>a, <4>1 DEF Alone, Idle
      <4>4. QED
        BY <3>1, <4>2, <4>3 DEF StartRefresh
    <3>2. CASE StartLogout(r, t)
      BY <1>a, <3>2 DEF StartLogout, Alone, Idle
    <3>3. QED
      BY <1>2, <3>1, <3>2
  <2>2. QED
    BY <1>c, <1>d, <2>1
<1>3. ASSUME NEW r \in Requests, CheckMembership(r) \/ Consume(r) \/ MarkExpired(r) \/ Fail(r)
      PROVE  Revoking'
  <2>1. UNCHANGED audit
    BY <1>3 DEF CheckMembership, Consume, MarkExpired, Fail
  <2>2. Alone(r) /\ req'[r].at \notin {"apply", "respond"}
    <3>1. Finish(r) \/ \E place \in {"consume", "commit", "revoke"} : Goto(r, place)
      BY <1>3 DEF CheckMembership, Consume, MarkExpired, Fail
    <3>2. QED
      BY <1>e, <1>f, <3>1
  <2>3. QED
    BY <1>c, <1>d, <2>1, <2>2
<1>4. ASSUME NEW r \in Requests, NEW c \in Tokens, CommitRotation(r, c) PROVE Revoking'
  <2>1. req[r].op = "refresh" /\ c # NoToken
    BY <1>4, RefreshAssumption DEF CommitRotation, Recording, InCourse, Exchanging
  <2>2. /\ Alone(r) /\ req'[r].at = "respond" /\ req'[r].op = "refresh" /\ req'[r].new = c
        /\ UNCHANGED audit
    BY <1>a, <1>4, <2>1 DEF CommitRotation, Alone, Request
  <2>3. Covers(r)' /\ HasRevoked(r)'
    BY <2>1, <2>2 DEF Covers, HasRevoked, AuditOf
  <2>4. QED
    BY <1>c, <2>2, <2>3
<1>5. ASSUME NEW r \in Requests, SnapshotFamily(r) PROVE Revoking'
  <2>1. /\ Alone(r) /\ req'[r].at = "apply" /\ req'[r].tok = req[r].tok
        /\ req'[r].snap = Members(FamilyOf(req[r].tok))
        /\ UNCHANGED <<row, audit>>
    BY <1>a, <1>5 DEF SnapshotFamily, Alone, Request
  <2>2. Covers(r)' /\ HasRevoked(r)'
    BY <2>1 DEF Covers, HasRevoked, Members, FamilyOf, Stored
  <2>3. QED
    BY <1>c, <2>1, <2>2
<1>6. ASSUME NEW r \in Requests, RevokeFamily(r) PROVE Revoking'
  <2> DEFINE p == req[r].tok
             f == FamilyOf(p)
  <2>1. /\ Alone(r) /\ req'[r].at = "respond" /\ req'[r].tok = p
        /\ UNCHANGED <<audit, overtaken>>
    BY <1>a, <1>6, <1>f DEF RevokeFamily, Request
  <2>2. p \in Tokens /\ Stored(p) /\ p \in req[r].snap /\ row \in [Tokens -> Row]
    BY <1>6 DEF RevokeFamily, Typed, TypeOK, WorksOnStored, Rotation, SnapshotHasToken
  <2>3. \A t \in Tokens : Stored(t)' /\ FamilyOf(t)' = f => t \in Members(f)
    <3>1. \A t \in Tokens : row'[t] = row[t] \/ Stored(t)
      BY <1>6, <2>2 DEF RevokeFamily, Typed, SnapshotsAreStored
    <3>2. QED
      BY <3>1, StepsKeepRows DEF RowsKeep, Keeps, Members, FamilyOf, Stored
  <2>4. ASSUME f \notin overtaken, NEW t \in Members(f)
        PROVE  ~Usable(row'[t])
    <3>1. CASE t \in req[r].snap
      <4>1. row'[t] \in {Reused(row[t]), Revoked(row[t])}
        BY <1>6, <2>4, <3>1 DEF RevokeFamily, Members
      <4>2. row[t] \in Row /\ row[t].status # "NONE"
        BY <2>2, <2>4 DEF Members, Stored
      <4>3. QED
        BY <4>1, <4>2, RowUpdates
    <3>2. CASE t \notin req[r].snap
      <4>1. row'[t] = row[t] /\ ~Usable(row[t])
        BY <1>6, <2>2, <2>4, <3>2 DEF RevokeFamily, Members, Revoking, Covers
      <4>2. QED
        BY <4>1
    <3>3. QED
      BY <3>1, <3>2
  <2>5. FamilyOf(p)' = f
    BY <2>1, <2>2, StepsKeepRows DEF RowsKeep, Keeps, FamilyOf
  <2>6. Covers(r)' /\ HasRevoked(r)'
    BY <2>1, <2>3, <2>4, <2>5 DEF Covers, HasRevoked, Dead, Members
  <2>7. QED
    BY <1>c, <2>1, <2>6
<1>7. ASSUME NEW r \in Requests, Respond(r) PROVE Revoking'
  <2> DEFINE g == FamilyOf(req[r].tok)
             entry == AuditOf(req[r])
  <2>1. /\ UNCHANGED <<row, overtaken>> /\ Alone(r) /\ req'[r].at = "idle"
        /\ audit' = [audit EXCEPT ![g] = @ \cup {entry}]
        /\ audit \in [Families -> SUBSET AuditActions]
    BY <1>7, <1>e DEF Respond, Typed, TypeOK
  <2>2. entry \in {"Logout", "TokenReuse"} /\ g \notin overtaken => Dead(g)
    BY <1>7 DEF Respond, Revoking, HasRevoked
  <2> HIDE DEF g, entry
  <2>3. \A f : Dead(f)' <=> Dead(f)
    BY <2>1 DEF Dead, Members, Stored, FamilyOf
  <2>4. \A f \in Families : \A a : a \in audit'[f] => a \in audit[f] \/ (f = g /\ a = entry)
    BY <2>1
  <2>5. ASSUME NEW f \in Families, {"Logout", "TokenReuse"} \cap audit'[f] # {}, f \notin overtaken
        PROVE  Dead(f)'
    <3>1. CASE {"Logout", "TokenReuse"} \cap audit[f] # {}
      BY <2>1, <2>5, <3>1, SurvivorsStay
    <3>2. CASE f = g /\ entry \in {"Logout", "TokenReuse"}
      BY <2>2, <2>3, <2>5, <3>2
    <3>3. QED
      BY <2>4, <2>5, <3>1, <3>2
  <2>6. OnlyOvertakenSurvive'
    BY <2>1, <2>5 DEF OnlyOvertakenSurvive, Dead
  <2>7. QED
    BY <1>d, <2>1, <2>6, RevokingStays DEF Revoking, Alone
<1>8. CASE UNCHANGED <<req, audit>>
  BY <1>8, <1>b, RevokingStays DEF Revoking
<1>9. QED
  BY <1>1, <1>2, <1>3, <1>4, <1>5, <1>6, <1>7, <1>8 DEF Next, Step, UnknownToken, vars, PassExpiry

(* After a logout or a detected reuse nothing can be refreshed, unless a     *)
(* rotation committed during the family update.                              *)
THEOREM OnlyOvertakenTokensSurvive == Spec => []OnlyOvertakenSurvive
<1>1. Spec => [](Typed /\ Rotation /\ Recording)
  BY RecordingAlways
<1>2. Typed /\ Rotation /\ Recording /\ Revoking /\ [Next]_vars => Revoking'
  BY RevokingStep
<1>3. Revoking => OnlyOvertakenSurvive
  BY DEF Revoking
<1>4. QED
  BY <1>1, <1>2, <1>3, RevokingInit, PTL DEF Spec

-----------------------------------------------------------------------------
(* What entitles a handler to revoke a family.                               *)
Cause(f) == f \in loggedOut \/ \E s \in Members(f) : presented[s] = 2

(* A token that was exchanged or has expired was presented for that.         *)
Spent(rw) == rw.used \/ rw.status = "EXPIRED"

RowCaused(t) ==
  Stored(t) =>
    /\ Usable(row[t]) \/ Spent(row[t]) \/ row[t].revoked
    /\ Spent(row[t]) => presented[t] >= 1
    /\ row[t].revoked => Cause(FamilyOf(t))

(* Whoever works on a token presented it; if it is spent meanwhile, another  *)
(* request presented it too; and who goes on to revoke has a cause.          *)
ReqCaused(r) ==
  /\ req[r].at \in Exchanging => presented[req[r].tok] >= 1
  /\ req[r].at \in {"membership", "consume"} /\ Spent(row[req[r].tok]) => presented[req[r].tok] = 2
  /\ req[r].at \in {"revoke", "apply"} => Cause(FamilyOf(req[r].tok))
  /\ req[r].at = "apply" => req[r].snap \subseteq Members(FamilyOf(req[r].tok))

(* Two requests that work on one token presented it twice.                   *)
PresentedTwice(q, r) ==
  /\ q # r
  /\ req[q].at \in Exchanging /\ req[r].at \in Exchanging
  /\ req[q].tok = req[r].tok
  => presented[req[r].tok] = 2

Caused ==
  /\ \A t \in Tokens : RowCaused(t)
  /\ \A r \in Requests : ReqCaused(r)
  /\ \A q, r \in Requests : PresentedTwice(q, r)

LEMMA CausedInit == Init => Caused
BY DEF Init, Caused, RowCaused, ReqCaused, PresentedTwice, Exchanging, Stored, Absent, Idle

(* Presentations and causes are not forgotten.                               *)
LEMMA PresentedGrows ==
  ASSUME Typed, [Next]_vars
  PROVE  /\ presented' \in [Tokens -> 0..2]
         /\ \A t \in Tokens : presented[t] <= presented'[t]
         /\ loggedOut \subseteq loggedOut'
<1>1. presented \in [Tokens -> 0..2]
  BY DEF Typed, TypeOK
<1>2. ASSUME NEW r \in Requests, NEW t \in Tokens, StartRefresh(r, t)
      PROVE  /\ presented' \in [Tokens -> 0..2]
             /\ \A u \in Tokens : presented[u] <= presented'[u]
             /\ loggedOut \subseteq loggedOut'
  BY <1>1, <1>2 DEF StartRefresh
<1>3. ASSUME UNCHANGED presented, loggedOut \subseteq loggedOut'
      PROVE  /\ presented' \in [Tokens -> 0..2]
             /\ \A u \in Tokens : presented[u] <= presented'[u]
             /\ loggedOut \subseteq loggedOut'
  BY <1>1, <1>3
<1>4. QED
  BY <1>2, <1>3
     DEF Next, Step, vars, Login, UnknownToken, StartLogout, MarkExpired, CheckMembership,
         Consume, CommitRotation, SnapshotFamily, RevokeFamily, Respond, Fail, PassExpiry

LEMMA CausesStay ==
  ASSUME Typed, [Next]_vars, NEW f, Cause(f)
  PROVE  Cause(f)'
<1>1. \A s \in Members(f) : s \in Members(f)'
  BY StepsKeepRows DEF RowsKeep, Keeps, Members, Stored, FamilyOf
<1>2. \A s \in Members(f) : presented[s] = 2 => presented'[s] = 2
  <2>1. ASSUME NEW s \in Members(f), presented[s] = 2 PROVE presented'[s] = 2
    <3>1. s \in Tokens
      BY DEF Members
    <3>2. presented'[s] \in 0..2 /\ presented[s] <= presented'[s]
      BY <3>1, PresentedGrows
    <3>3. QED
      BY <2>1, <3>2
  <2>2. QED
    BY <2>1
<1>3. QED
  BY <1>1, <1>2, PresentedGrows DEF Cause

(* A step keeps what is known of the rows it does not change, or changes     *)
(* without a new mark.                                                       *)
LEMMA RowStays ==
  ASSUME Typed, Caused, [Next]_vars, NEW t \in Tokens, Stored(t),
         Usable(row'[t]) \/ Spent(row'[t]) \/ row'[t].revoked,
         Spent(row'[t]) => Spent(row[t]) \/ presented'[t] >= 1,
         row'[t].revoked => row[t].revoked \/ Cause(FamilyOf(t))
  PROVE  RowCaused(t)'
<1>1. /\ presented[t] \in 0..2 /\ presented'[t] \in 0..2 /\ presented[t] <= presented'[t]
  BY PresentedGrows DEF Typed, TypeOK
<1>2. PICK f : f = FamilyOf(t)
  OBVIOUS
<1>3. FamilyOf(t)' = f
  BY <1>2, StepsKeepRows DEF RowsKeep, Keeps, FamilyOf
<1>4. row'[t].revoked => Cause(f)'
  BY <1>2, CausesStay DEF Caused, RowCaused
<1>5. row'[t].revoked => Cause(FamilyOf(t))'
  BY <1>3, <1>4 DEF Cause, Members
<1>6. Spent(row[t]) => presented[t] >= 1
  BY DEF Caused, RowCaused
<1>7. Spent(row'[t]) => presented'[t] >= 1
  BY <1>1, <1>6
<1>8. QED
  BY <1>5, <1>7 DEF RowCaused

(* ... and of the requests it does not move.                                 *)
LEMMA ReqStays ==
  ASSUME Typed, Caused, [Next]_vars, NEW q \in Requests, req'[q] = req[q],
         req[q].at \in Exchanging /\ Spent(row'[req[q].tok]) =>
           Spent(row[req[q].tok]) \/ presented'[req[q].tok] = 2
  PROVE  ReqCaused(q)'
<1> DEFINE p == req[q].tok
<1>1. CASE req[q].at = "idle"
  BY <1>1 DEF ReqCaused, Exchanging
<1>2. CASE req[q].at # "idle"
  <2>1. p \in Tokens /\ Stored(p) /\ ReqCaused(q)
    BY <1>2 DEF Typed, WorksOnStored, Caused
  <2>2. /\ presented[p] \in 0..2 /\ presented'[p] \in 0..2 /\ presented[p] <= presented'[p]
    BY <2>1, PresentedGrows DEF Typed, TypeOK
  <2>3. PICK f : f = FamilyOf(p)
    OBVIOUS
  <2>4. FamilyOf(p)' = f
    BY <2>1, <2>3, StepsKeepRows DEF RowsKeep, Keeps, FamilyOf
  <2>5. Cause(f) => Cause(f)'
    BY CausesStay
  <2>6. Members(f) \subseteq Members(f)'
    BY StepsKeepRows DEF RowsKeep, Keeps, Members, Stored, FamilyOf
  <2>7. req[q].at \in Exchanging => presented'[p] >= 1
    BY <2>1, <2>2 DEF ReqCaused
  <2>8. req[q].at \in {"membership", "consume"} /\ Spent(row'[p]) => presented'[p] = 2
    BY <2>1, <2>2 DEF ReqCaused, Exchanging
  <2>9. req[q].at \in {"revoke", "apply"} => Cause(FamilyOf(p))'
    BY <2>1, <2>3, <2>4, <2>5 DEF ReqCaused, Cause, Members
  <2>10. req[q].at = "apply" => req[q].snap \subseteq Members(FamilyOf(p))'
    BY <2>1, <2>3, <2>4, <2>6 DEF ReqCaused, Members
  <2>11. QED
    BY <2>7, <2>8, <2>9, <2>10 DEF ReqCaused
<1>3. QED
  BY <1>1, <1>2

(* Requests that do not begin to exchange a token are no new pair.           *)
LEMMA PairsStay ==
  ASSUME Typed, Caused, [Next]_vars,
         \A q \in Requests : req'[q].at \in Exchanging =>
           req[q].at \in Exchanging /\ req'[q].tok = req[q].tok
  PROVE  \A q, r \in Requests : PresentedTwice(q, r)'
<1> SUFFICES ASSUME NEW q \in Requests, NEW r \in Requests, q # r,
                    req'[q].at \in Exchanging, req'[r].at \in Exchanging,
                    req'[q].tok = req'[r].tok
             PROVE  presented'[req'[r].tok] = 2
  BY DEF PresentedTwice
<1>1. /\ req[q].at \in Exchanging /\ req[r].at \in Exchanging
      /\ req[q].tok = req[r].tok /\ req'[r].tok = req[r].tok
  OBVIOUS
<1>2. presented[req[r].tok] = 2 /\ req[r].tok \in Tokens
  BY <1>1 DEF Caused, PresentedTwice, Typed, WorksOnStored, Exchanging
<1>3. presented'[req[r].tok] \in 0..2 /\ presented[req[r].tok] <= presented'[req[r].tok]
  BY <1>2, PresentedGrows
<1>4. QED
  BY <1>1, <1>2, <1>3

(* A step that leaves the rows alone.                                        *)
LEMMA CausedGoesOn ==
  ASSUME Typed, Caused, [Next]_vars, UNCHANGED row, NEW r \in Requests, Alone(r),
         ReqCaused(r)', \A q, s \in Requests : PresentedTwice(q, s)'
  PROVE  Caused'
<1>1. ASSUME NEW t \in Tokens PROVE RowCaused(t)'
  <2>1. CASE Stored(t)
    BY <2>1, RowStays DEF Caused, RowCaused
  <2>2. CASE ~Stored(t)
    BY <2>2 DEF RowCaused, Stored
  <2>3. QED
    BY <2>1, <2>2
<1>2. \A q \in Requests : q # r => ReqCaused(q)'
  BY ReqStays DEF Alone
<1>3. QED
  BY <1>1, <1>2 DEF Caused

(* The row an exchange or an expiry marks was presented for it, twice when   *)
(* another request works on it.                                              *)
LEMMA CausedSpends ==
  ASSUME Typed, Caused, [Next]_vars, UNCHANGED presented, NEW r \in Requests, Alone(r),
         req[r].at \in Exchanging, req'[r].at \notin Exchanging \cup {"revoke", "apply"},
         Spent(row'[req[r].tok]), row'[req[r].tok].revoked = row[req[r].tok].revoked,
         \A t \in Tokens : Stored(t) /\ t # req[r].tok => row'[t] = row[t],
         \A t \in Tokens : ~Stored(t) => row'[t] = row[t] \/ (Usable(row'[t]) /\ ~Spent(row'[t]))
  PROVE  Caused'
<1> DEFINE p == req[r].tok
<1>1. p \in Tokens /\ Stored(p) /\ presented[p] >= 1 /\ RowCaused(p)
  BY DEF Typed, WorksOnStored, Caused, ReqCaused, Exchanging
<1>2. ASSUME NEW t \in Tokens PROVE RowCaused(t)'
  <2>1. CASE t = p
    BY <1>1, <2>1, RowStays
  <2>2. CASE t # p /\ Stored(t)
    BY <2>2, RowStays DEF Caused, RowCaused
  <2>3. CASE ~Stored(t)
    BY <2>3 DEF RowCaused, Stored, Usable
  <2>4. QED
    BY <2>1, <2>2, <2>3
<1>3. ASSUME NEW q \in Requests, q # r PROVE ReqCaused(q)'
  <2>1. req'[q] = req[q]
    BY <1>3 DEF Alone
  <2>2. ASSUME req[q].at \in Exchanging, Spent(row'[req[q].tok])
        PROVE  Spent(row[req[q].tok]) \/ presented'[req[q].tok] = 2
    <3>1. CASE req[q].tok = p
      BY <1>3, <2>2, <3>1 DEF Caused, PresentedTwice
    <3>2. CASE req[q].tok # p
      <4>1. req[q].tok \in Tokens /\ Stored(req[q].tok)
        BY <2>2 DEF Typed, WorksOnStored, Exchanging
      <4>2. QED
        BY <2>2, <3>2, <4>1
    <3>3. QED
      BY <3>1, <3>2
  <2>3. QED
    BY <2>1, <2>2, ReqStays
<1>4. ReqCaused(r)'
  BY DEF ReqCaused, Exchanging
<1>5. \A q, s \in Requests : PresentedTwice(q, s)'
  BY PairsStay DEF Alone
<1>6. QED
  BY <1>2, <1>3, <1>4, <1>5 DEF Caused

LEMMA CausedStep ==
  ASSUME Typed, Rotation, Recording, Caused, [Next]_vars
  PROVE  Caused'
<1>a. /\ req \in [Requests -> Request] /\ row \in [Tokens -> Row]
      /\ presented \in [Tokens -> 0..2]
  BY DEF Typed, TypeOK
<1>b. ASSUME NEW r \in Requests, Finish(r) PROVE Alone(r) /\ req'[r].at = "idle"
  BY <1>a, <1>b DEF Finish, Alone, Idle
<1>c. ASSUME NEW r \in Requests, NEW place, Goto(r, place)
      PROVE  /\ Alone(r) /\ req'[r].at = place /\ req'[r].tok = req[r].tok
             /\ req'[r].snap = req[r].snap
  BY <1>a, <1>c DEF Goto, Alone, Request
<1>d. ASSUME NEW r \in Requests, Alone(r), UNCHANGED row,
             req'[r].at \notin Exchanging \cup {"revoke", "apply"}
      PROVE  Caused'
  <2>1. ReqCaused(r)'
    BY <1>d DEF ReqCaused, Exchanging
  <2>2. \A q, s \in Requests : PresentedTwice(q, s)'
    BY <1>d, PairsStay DEF Alone
  <2>3. QED
    BY <1>d, <2>1, <2>2, CausedGoesOn
<1>e. ASSUME NEW r \in Requests, req[r].at # "idle"
      PROVE  req[r].tok \in Tokens /\ Stored(req[r].tok) /\ ReqCaused(r) /\ RowCaused(req[r].tok)
  BY <1>e DEF Typed, WorksOnStored, Caused
<1>1. ASSUME NEW r \in Requests, NEW f \in Families, NEW t \in Tokens, Login(r, f, t)
      PROVE  Caused'
  <2>1. /\ Alone(r) /\ req'[r].at = "respond" /\ ~Stored(t)
        /\ row'[t] = Inserted(f, NoToken) /\ \A u \in Tokens : u # t => row'[u] = row[u]
    BY <1>1, <1>a DEF Login, Alone, Idle, Free
  <2>2. ~Spent(Inserted(f, NoToken)) /\ Usable(Inserted(f, NoToken)) /\ ~Inserted(f, NoToken).revoked
    BY InsertedRow DEF Spent, Usable
  <2>3. \A u \in Tokens : RowCaused(u)'
    <3>1. RowCaused(t)'
      BY <2>1, <2>2 DEF RowCaused
    <3>2. ASSUME NEW u \in Tokens, u # t PROVE RowCaused(u)'
      <4>1. CASE Stored(u)
        BY <2>1, <3>2, <4>1, RowStays DEF Caused, RowCaused
      <4>2. CASE ~Stored(u)
        BY <2>1, <3>2, <4>2 DEF RowCaused, Stored
      <4>3. QED
        BY <4>1, <4>2
    <3>3. QED
      BY <3>1, <3>2
  <2>4. ReqCaused(r)'
    BY <2>1 DEF ReqCaused, Exchanging
  <2>5. ASSUME NEW q \in Requests, q # r PROVE ReqCaused(q)'
    <3>1. req[q].at \in Exchanging => row'[req[q].tok] = row[req[q].tok]
      BY <2>1 DEF Typed, WorksOnStored, Exchanging
    <3>2. req'[q] = req[q]
      BY <2>1, <2>5 DEF Alone
    <3>3. QED
      BY <3>1, <3>2, ReqStays
  <2>6. \A q, s \in Requests : PresentedTwice(q, s)'
    BY <2>1, PairsStay DEF Alone, Exchanging
  <2>7. QED
    BY <2>3, <2>4, <2>5, <2>6 DEF Caused
<1>2. ASSUME NEW r \in Requests, NEW t \in Tokens, StartRefresh(r, t)
      PROVE  Caused'
  <2> DEFINE place == AfterLookup(row[t])
  <2>1. /\ Alone(r) /\ req'[r].at = place /\ req'[r].tok = t /\ UNCHANGED row
        /\ req[r].at = "idle"
        /\ presented' = [presented EXCEPT ![t] = IF @ = 2 THEN 2 ELSE @ + 1]
    BY <1>2, <1>a DEF StartRefresh, Alone, Idle
  <2>2. place \in {"markExpired", "revoke", "membership"}
    BY DEF AfterLookup
  <2>3. /\ Stored(t) /\ RowCaused(t)
        /\ place = "membership" => Usable(row[t])
        /\ place = "revoke" => ~Usable(row[t])
    BY <1>2 DEF StartRefresh, Typed, IssuedAreStored, Caused, AfterLookup
  <2>4. /\ presented'[t] >= 1
        /\ presented[t] >= 1 => presented'[t] = 2
        /\ \A u \in Tokens : presented[u] = 2 => presented'[u] = 2
    BY <1>a, <2>1
  <2> HIDE DEF place
  <2>5. place = "revoke" => Cause(FamilyOf(t))'
    <3>1. PICK f : f = FamilyOf(t)
      OBVIOUS
    <3>2. FamilyOf(t)' = f /\ t \in Members(f)'
      BY <2>1, <2>3, <3>1 DEF FamilyOf, Members, Stored
    <3>3. CASE row[t].revoked
      <4>1. Cause(f)'
        BY <2>3, <3>1, <3>3, CausesStay DEF RowCaused
      <4>2. QED
        BY <3>2, <4>1 DEF Cause, Members
    <3>4. CASE Spent(row[t])
      BY <2>3, <2>4, <3>2, <3>4 DEF RowCaused, Cause
    <3>5. QED
      BY <2>3, <3>3, <3>4 DEF RowCaused
  <2>6. place = "membership" => ~Spent(row[t])
    BY <2>3 DEF Usable, Spent
  <2>7. ReqCaused(r)'
    <3>1. req'[r].at \in Exchanging => presented'[req'[r].tok] >= 1
      BY <2>1, <2>4
    <3>2. req'[r].at \in {"membership", "consume"} /\ Spent(row'[req'[r].tok]) => presented'[req'[r].tok] = 2
      BY <2>1, <2>2, <2>6
    <3>3. req'[r].at \in {"revoke", "apply"} => Cause(FamilyOf(req[r].tok))'
      BY <2>1, <2>2, <2>5 DEF Cause, FamilyOf
    <3>4. req'[r].at # "apply"
      BY <2>1, <2>2
    <3>5. QED
      BY <3>1, <3>2, <3>3, <3>4 DEF ReqCaused
  <2>8. ASSUME NEW q \in Requests, NEW s \in Requests, q # s,
               req'[q].at \in Exchanging, req'[s].at \in Exchanging, req'[q].tok = req'[s].tok
        PROVE  presented'[req'[s].tok] = 2
    <3>1. ASSUME NEW x \in Requests, x # r, req'[x].at \in Exchanging
          PROVE  req[x].at \in Exchanging /\ req'[x].tok = req[x].tok
                 /\ req[x].tok \in Tokens /\ presented[req[x].tok] >= 1
      BY <1>e, <2>1, <3>1 DEF Alone, ReqCaused, Exchanging
    <3>2. CASE q = r \/ s = r
      BY <2>1, <2>4, <2>8, <3>1, <3>2
    <3>3. CASE q # r /\ s # r
      <4>1. presented[req[s].tok] = 2
        BY <2>8, <3>1, <3>3 DEF Caused, PresentedTwice
      <4>2. QED
        BY <2>4, <2>8, <3>1, <3>3, <4>1
    <3>4. QED
      BY <3>2, <3>3
  <2>9. \A q, s \in Requests : PresentedTwice(q, s)'
    BY <2>8 DEF PresentedTwice
  <2>10. QED
    BY <2>1, <2>7, <2>9, CausedGoesOn
<1>3. ASSUME NEW r \in Requests, NEW t \in Tokens, StartLogout(r, t)
      PROVE  Caused'
  <2>1. /\ Alone(r) /\ req'[r].at = "revoke" /\ req'[r].tok = t /\ UNCHANGED row
        /\ FamilyOf(t) \in loggedOut'
    BY <1>3, <1>a DEF StartLogout, Alone, Idle
  <2>2. ReqCaused(r)'
    BY <2>1 DEF ReqCaused, Exchanging, Cause, FamilyOf
  <2>3. \A q, s \in Requests : PresentedTwice(q, s)'
    BY <2>1, PairsStay DEF Alone, Exchanging
  <2>4. QED
    BY <2>1, <2>2, <2>3, CausedGoesOn
<1>4. ASSUME NEW r \in Requests, CheckMembership(r) \/ Consume(r)
      PROVE  Caused'
  <2>1. /\ req[r].at \in {"membership", "consume"}
        /\ UNCHANGED <<row, presented, loggedOut>>
        /\ \/ Finish(r) \/ Goto(r, "consume") \/ Goto(r, "commit")
           \/ Goto(r, "revoke") /\ ~Usable(row[req[r].tok])
    BY <1>4 DEF CheckMembership, Consume
  <2>2. CASE Finish(r)
    BY <1>b, <1>d, <2>1, <2>2 DEF Exchanging
  <2>3. ASSUME NEW place \in {"consume", "commit", "revoke"}, Goto(r, place),
               place = "revoke" => ~Usable(row[req[r].tok])
        PROVE  Caused'
    <3>1. Alone(r) /\ req'[r].at = place /\ req'[r].tok = req[r].tok
      BY <1>c, <2>3
    <3>2. /\ req[r].tok \in Tokens /\ Stored(req[r].tok) /\ ReqCaused(r)
          /\ RowCaused(req[r].tok)
      BY <1>e, <2>1
    <3>3. place = "revoke" => Cause(FamilyOf(req[r].tok))
      <4>1. CASE row[req[r].tok].revoked
        BY <3>2, <4>1 DEF RowCaused
      <4>2. CASE Spent(row[req[r].tok])
        BY <2>1, <3>2, <4>2 DEF ReqCaused, Cause, Members
      <4>3. QED
        BY <2>3, <3>2, <4>1, <4>2 DEF RowCaused
    <3>4. ReqCaused(r)'
      BY <2>1, <2>3, <3>1, <3>2, <3>3 DEF ReqCaused, Exchanging, Cause, Members, FamilyOf, Stored
    <3>5. \A q, s \in Requests : PresentedTwice(q, s)'
      BY <2>1, <3>1, PairsStay DEF Alone, Exchanging
    <3>6. QED
      BY <2>1, <3>1, <3>4, <3>5, CausedGoesOn
  <2>4. QED
    BY <2>1, <2>2, <2>3
<1>5. ASSUME NEW r \in Requests, MarkExpired(r) PROVE Caused'
  <2>1. /\ Alone(r) /\ req'[r].at = "idle" /\ req[r].at = "markExpired" /\ UNCHANGED presented
        /\ row' = [row EXCEPT ![req[r].tok] = Expired(@)]
    BY <1>5, <1>b DEF MarkExpired
  <2>2. req[r].tok \in Tokens
    BY <1>e, <2>1
  <2>3. row'[req[r].tok] = Expired(row[req[r].tok]) /\ \A t \in Tokens : t # req[r].tok => row'[t] = row[t]
    BY <1>a, <2>1, <2>2
  <2>4. Spent(row'[req[r].tok]) /\ row'[req[r].tok].revoked = row[req[r].tok].revoked
    BY <1>a, <2>2, <2>3 DEF Spent, Expired, Row
  <2>5. Stored(req[r].tok)
    BY <1>e, <2>1
  <2>6. QED
    BY <2>1, <2>2, <2>3, <2>4, <2>5, CausedSpends DEF Exchanging
<1>6. ASSUME NEW r \in Requests, NEW c \in Tokens, CommitRotation(r, c) PROVE Caused'
  <2> DEFINE p == req[r].tok
             child == Inserted(FamilyOf(p), p)
  <2>1. p \in Tokens /\ Stored(p) /\ ~Stored(c) /\ p # c /\ req[r].at = "commit"
    BY <1>6, <1>e DEF CommitRotation, Free
  <2>2. /\ Alone(r) /\ req'[r].at = "respond" /\ UNCHANGED presented
        /\ row' = [row EXCEPT ![p] = Consumed(@), ![c] = child]
    BY <1>6, <1>a DEF CommitRotation, Alone, Request
  <2>3. ~Spent(child) /\ Usable(child)
    BY DEF Inserted, Absent, Spent, Usable
  <2> HIDE DEF child
  <2>4. /\ row'[p] = Consumed(row[p]) /\ row'[c] = child
        /\ \A t \in Tokens : t # p /\ t # c => row'[t] = row[t]
    BY <1>a, <2>1, <2>2
  <2>5. Spent(row'[p]) /\ row'[p].revoked = row[p].revoked
    BY <1>a, <2>1, <2>4 DEF Spent, Consumed, Row
  <2>6. QED
    BY <2>1, <2>2, <2>3, <2>4, <2>5, CausedSpends DEF Exchanging
<1>7. ASSUME NEW r \in Requests, SnapshotFamily(r) PROVE Caused'
  <2>1. /\ Alone(r) /\ req'[r].at = "apply" /\ req'[r].tok = req[r].tok
        /\ req'[r].snap = Members(FamilyOf(req[r].tok)) /\ req[r].at = "revoke"
        /\ UNCHANGED <<row, presented, loggedOut>>
    BY <1>7, <1>a DEF SnapshotFamily, Alone, Request
  <2>2. Cause(FamilyOf(req[r].tok))
    BY <1>e, <2>1 DEF ReqCaused
  <2>3. ReqCaused(r)'
    BY <2>1, <2>2 DEF ReqCaused, Exchanging, Cause, Members, FamilyOf, Stored
  <2>4. \A q, s \in Requests : PresentedTwice(q, s)'
    BY <2>1, PairsStay DEF Alone, Exchanging
  <2>5. QED
    BY <2>1, <2>3, <2>4, CausedGoesOn
<1>8. ASSUME NEW r \in Requests, RevokeFamily(r) PROVE Caused'
  <2> DEFINE p == req[r].tok
  <2>1. /\ Alone(r) /\ req'[r].at = "respond" /\ req[r].at = "apply"
        /\ UNCHANGED <<presented, loggedOut>>
    BY <1>8, <1>c DEF RevokeFamily
  <2>2. p \in req[r].snap /\ req[r].snap \subseteq Members(FamilyOf(p)) /\ Cause(FamilyOf(p))
    BY <1>e, <2>1 DEF ReqCaused, Rotation, SnapshotHasToken
  <2>3. \A t \in Tokens : t \notin req[r].snap => row'[t] = row[t]
    BY <1>8, <2>2 DEF RevokeFamily
  <2>4. ASSUME NEW t \in req[r].snap
        PROVE  /\ t \in Tokens /\ Stored(t) /\ FamilyOf(t) = FamilyOf(p)
               /\ row'[t].revoked /\ (Spent(row'[t]) => Spent(row[t]))
    <3>1. t \in Tokens /\ Stored(t) /\ FamilyOf(t) = FamilyOf(p)
      BY <2>2 DEF Members
    <3>2. row'[t] \in {Reused(row[t]), Revoked(row[t])}
      BY <1>8, <3>1 DEF RevokeFamily
    <3>3. QED
      BY <1>a, <3>1, <3>2 DEF Reused, Revoked, Row, Spent
  <2>5. ASSUME NEW t \in Tokens PROVE RowCaused(t)'
    <3>1. CASE t \in req[r].snap
      <4>1. Cause(FamilyOf(t))
        BY <2>2, <2>4, <3>1
      <4>2. QED
        BY <2>4, <3>1, <4>1, RowStays
    <3>2. CASE t \notin req[r].snap /\ Stored(t)
      BY <2>3, <3>2, RowStays DEF Caused, RowCaused
    <3>3. CASE t \notin req[r].snap /\ ~Stored(t)
      BY <2>3, <3>3 DEF RowCaused, Stored
    <3>4. QED
      BY <3>1, <3>2, <3>3
  <2>6. ASSUME NEW q \in Requests, q # r PROVE ReqCaused(q)'
    <3>1. req'[q] = req[q]
      BY <2>1, <2>6 DEF Alone
    <3>2. req[q].at \in Exchanging => req[q].tok \in Tokens
      BY <1>e DEF Exchanging
    <3>3. QED
      BY <2>3, <2>4, <3>1, <3>2, ReqStays
  <2>7. ReqCaused(r)'
    BY <2>1 DEF ReqCaused, Exchanging
  <2>8. \A q, s \in Requests : PresentedTwice(q, s)'
    BY <2>1, PairsStay DEF Alone, Exchanging
  <2>9. QED
    BY <2>5, <2>6, <2>7, <2>8 DEF Caused
<1>9. ASSUME NEW r \in Requests, Respond(r) \/ Fail(r) PROVE Caused'
  BY <1>9, <1>b, <1>d DEF Respond, Fail, Exchanging
<1>10. ASSUME UNCHANGED req,
              \A t \in Tokens : /\ row'[t].used = row[t].used /\ row'[t].status = row[t].status
                               /\ row'[t].revoked = row[t].revoked
       PROVE  Caused'
  <2>1. ASSUME NEW t \in Tokens PROVE RowCaused(t)'
    <3>1. Usable(row'[t]) = Usable(row[t]) /\ Spent(row'[t]) = Spent(row[t])
      BY <1>10 DEF Usable, Spent
    <3>2. CASE Stored(t)
      BY <1>10, <3>1, <3>2, RowStays DEF Caused, RowCaused
    <3>3. CASE ~Stored(t)
      BY <1>10, <3>3 DEF RowCaused, Stored
    <3>4. QED
      BY <3>2, <3>3
  <2>2. ASSUME NEW q \in Requests PROVE ReqCaused(q)'
    <3>1. req[q].at \in Exchanging => req[q].tok \in Tokens
      BY <1>e DEF Exchanging
    <3>2. QED
      BY <1>10, <3>1, ReqStays DEF Spent
  <2>3. \A q, s \in Requests : PresentedTwice(q, s)'
    BY <1>10, PairsStay
  <2>4. QED
    BY <2>1, <2>2, <2>3 DEF Caused
<1>11. ASSUME NEW t \in Tokens, PassExpiry(t) PROVE Caused'
  <2>1. row' = [row EXCEPT ![t].pastExpiry = TRUE] /\ UNCHANGED req
    BY <1>11 DEF PassExpiry
  <2>2. \A u \in Tokens : /\ row'[u].used = row[u].used /\ row'[u].status = row[u].status
                          /\ row'[u].revoked = row[u].revoked
    BY <1>a, <2>1 DEF Row
  <2>3. QED
    BY <1>10, <2>1, <2>2
<1>12. CASE UNCHANGED vars
  BY <1>10, <1>12 DEF vars
<1>13. QED
  BY <1>1, <1>2, <1>3, <1>4, <1>5, <1>6, <1>7, <1>8, <1>9, <1>11, <1>12 DEF Next, Step, UnknownToken

(* A client that presents each token once and does not log out is never      *)
(* signed out by a revocation.                                               *)
THEOREM RevocationsHaveCause == Spec => []RevokedHasCause
<1>1. Spec => [](Typed /\ Rotation /\ Recording)
  BY RecordingAlways
<1>2. Typed /\ Rotation /\ Recording /\ Caused /\ [Next]_vars => Caused'
  BY CausedStep
<1>3. Typed /\ Caused => RevokedHasCause
  <2> SUFFICES ASSUME Typed, Caused, NEW t \in Tokens, row[t].revoked
               PROVE  Cause(FamilyOf(t))
    BY DEF RevokedHasCause, Cause
  <2>1. Stored(t)
    BY DEF Typed, AbsentUntilInserted, Absent
  <2>2. QED
    BY <2>1 DEF Caused, RowCaused
<1>4. QED
  BY <1>1, <1>2, <1>3, CausedInit, PTL DEF Spec

-----------------------------------------------------------------------------
LEMMA CausedAlways == Spec => [](Typed /\ Rotation /\ Caused)
<1>1. Spec => [](Typed /\ Rotation /\ Recording)
  BY RecordingAlways
<1>2. Typed /\ Rotation /\ Recording /\ Caused /\ [Next]_vars => Caused'
  BY CausedStep
<1>3. QED
  BY <1>1, <1>2, CausedInit, PTL DEF Spec

(* The holder of a session is its one usable token, if it has one.           *)
HoldersMatch ==
  \A f \in Families :
    /\ \A t \in Tokens : Holds(t, f) => Holder(f) = t
    /\ (\A t \in Tokens : ~Holds(t, f)) => Holder(f) = NoToken

LEMMA HoldersAreUnique == OneUsablePerFamily => HoldersMatch
<1> SUFFICES ASSUME OneUsablePerFamily, NEW f \in Families
             PROVE  /\ \A t \in Tokens : Holds(t, f) => Holder(f) = t
                    /\ (\A t \in Tokens : ~Holds(t, f)) => Holder(f) = NoToken
  BY DEF HoldersMatch
<1>1. ASSUME NEW t \in Tokens, Holds(t, f)
      PROVE  Holder(f) = t
  <2> DEFINE s == CHOOSE u \in Tokens : Holds(u, f)
  <2>1. s \in Tokens /\ Holds(s, f)
    BY <1>1
  <2>2. Holder(f) = s
    BY <1>1 DEF Holder
  <2> HIDE DEF s
  <2>3. QED
    BY <1>1, <2>1, <2>2 DEF Holds, OneUsablePerFamily
<1>2. (\A t \in Tokens : ~Holds(t, f)) => Holder(f) = NoToken
  BY DEF Holder
<1>3. QED
  BY <1>1, <1>2

(* Nothing about a session changes while its rows keep their family, their   *)
(* parent and whether they are usable.                                       *)
LEMMA SessionsStay ==
  ASSUME HoldersMatch, HoldersMatch', NEW F \in SUBSET Families,
         \A f \in F, t \in Tokens : Holds(t, f)' <=> Holds(t, f)
  PROVE  \A f \in F : Holder(f)' = Holder(f)
<1> SUFFICES ASSUME NEW f \in F PROVE Holder(f)' = Holder(f)
  OBVIOUS
<1>1. CASE \E t \in Tokens : Holds(t, f)
  BY <1>1 DEF HoldersMatch
<1>2. CASE \A t \in Tokens : ~Holds(t, f)
  BY <1>2 DEF HoldersMatch
<1>3. QED
  BY <1>1, <1>2

(* A step that makes rows of one family unusable closes its session, or      *)
(* leaves it closed.                                                         *)
LEMMA RevocationCloses ==
  ASSUME HoldersMatch, HoldersMatch', RefreshAssumption,
         NEW g \in Families, NEW S \in SUBSET Tokens,
         \A t \in S : FamilyOf(t) = g /\ ~Usable(row[t])',
         \A t \in Tokens : /\ FamilyOf(t)' = FamilyOf(t) /\ row'[t].parent = row[t].parent
                           /\ Usable(row[t])' => Usable(row[t])
                           /\ t \notin S => (Usable(row[t])' <=> Usable(row[t]))
  PROVE  [Session!Next]_Session!sessionVars
<1>1. /\ [t \in Tokens |-> FamilyOf(t)]' = [t \in Tokens |-> FamilyOf(t)]
      /\ [t \in Tokens |-> row[t].parent]' = [t \in Tokens |-> row[t].parent]
  OBVIOUS
<1>2. \A f \in Families \ {g} : Holder(f)' = Holder(f)
  <2>1. \A f \in Families \ {g}, t \in Tokens : Holds(t, f)' <=> Holds(t, f)
    BY DEF Holds
  <2>2. QED
    BY <2>1, SessionsStay
<1>3. CASE \E t \in S : Holds(t, g)
  <2>1. PICK t \in S : Holds(t, g)
    BY <1>3
  <2>2. Holder(g) = t /\ t # NoToken
    BY <2>1, RefreshAssumption DEF HoldersMatch
  <2>3. \A u \in Tokens : ~Holds(u, g)'
    <3>1. SUFFICES ASSUME NEW u \in Tokens, Holds(u, g)' PROVE FALSE
      OBVIOUS
    <3>2. Holds(u, g) /\ u \notin S
      BY <3>1 DEF Holds
    <3>3. Holder(g) = u
      BY <3>2 DEF HoldersMatch
    <3>4. QED
      BY <2>2, <3>2, <3>3
  <2>4. Holder(g)' = NoToken
    BY <2>3 DEF HoldersMatch
  <2>5. [f \in Families |-> Holder(f)]' = [[f \in Families |-> Holder(f)] EXCEPT ![g] = NoToken]
    BY <1>2, <2>4
  <2>6. Session!Close(g)
    BY <1>1, <2>2, <2>5 DEF Session!Close
  <2>7. QED
    BY <2>6 DEF Session!Next
<1>4. CASE \A t \in S : ~Holds(t, g)
  <2>1. \A f \in {g}, t \in Tokens : Holds(t, f)' <=> Holds(t, f)
    BY <1>4 DEF Holds
  <2>2. Holder(g)' = Holder(g)
    BY <2>1, SessionsStay
  <2>3. [f \in Families |-> Holder(f)]' = [f \in Families |-> Holder(f)]
    BY <1>2, <2>2
  <2>4. QED
    BY <1>1, <2>3 DEF Session!sessionVars
<1>5. QED
  BY <1>3, <1>4

(* Every step of the table is a step of its sessions, or none.               *)
LEMMA SessionStep ==
  ASSUME Typed, Rotation, Rotation', Caused, [Next]_vars
  PROVE  [Session!Next]_Session!sessionVars
<1>a. HoldersMatch
  BY HoldersAreUnique DEF Rotation
<1>b. HoldersMatch'
  <2>1. (OneUsablePerFamily => HoldersMatch)'
    BY HoldersAreUnique, PTL
  <2>2. QED
    BY <2>1 DEF Rotation
<1>c. row \in [Tokens -> Row] /\ row' \in [Tokens -> Row] /\ RowsKeep
  BY StepsKeepRows DEF Typed, TypeOK
<1>d. \A t \in Tokens : ~Stored(t) => FamilyOf(t) = NoFamily /\ row[t].parent = NoToken
  BY DEF Typed, AbsentUntilInserted, Absent, FamilyOf
<1>e. ASSUME \A t \in Tokens : /\ FamilyOf(t)' = FamilyOf(t) /\ row'[t].parent = row[t].parent
                               /\ Usable(row[t])' <=> Usable(row[t])
      PROVE  UNCHANGED Session!sessionVars
  <2>1. \A f \in Families, t \in Tokens : Holds(t, f)' <=> Holds(t, f)
    BY <1>e DEF Holds
  <2>2. \A f \in Families : Holder(f)' = Holder(f)
    BY <1>a, <1>b, <2>1, SessionsStay
  <2>3. QED
    BY <1>e, <2>2 DEF Session!sessionVars
<1>1. ASSUME NEW r \in Requests, NEW f \in Families, NEW t \in Tokens, Login(r, f, t)
      PROVE  Session!Next
  <2>1. /\ row' = [row EXCEPT ![t] = Inserted(f, NoToken)]
        /\ ~Stored(t) /\ Members(f) = {}
    BY <1>1 DEF Login, Free
  <2>2. /\ Inserted(f, NoToken).family = f /\ Inserted(f, NoToken).parent = NoToken
        /\ Usable(Inserted(f, NoToken))
    BY DEF Inserted, Absent, Usable
  <2>3. row'[t] = Inserted(f, NoToken) /\ \A u \in Tokens : u # t => row'[u] = row[u]
    BY <1>c, <2>1
  <2>4. \A u \in Tokens : FamilyOf(u) # f
    BY <1>d, <2>1, RefreshAssumption DEF Members
  <2>5. Holder(f)' = t
    BY <1>b, <2>2, <2>3 DEF HoldersMatch, Holds, FamilyOf
  <2>6. \A g \in Families \ {f} : Holder(g)' = Holder(g)
    <3>1. \A g \in Families \ {f}, u \in Tokens : Holds(u, g)' <=> Holds(u, g)
      BY <1>d, <2>1, <2>2, <2>3, RefreshAssumption DEF Holds, FamilyOf
    <3>2. QED
      BY <1>a, <1>b, <3>1, SessionsStay
  <2>7. [g \in Families |-> Holder(g)]' = [[g \in Families |-> Holder(g)] EXCEPT ![f] = t]
    BY <2>5, <2>6
  <2>8. /\ [u \in Tokens |-> FamilyOf(u)]' = [[u \in Tokens |-> FamilyOf(u)] EXCEPT ![t] = f]
        /\ [u \in Tokens |-> row[u].parent]' = [u \in Tokens |-> row[u].parent]
    <3>1. /\ FamilyOf(t)' = f
          /\ \A u \in Tokens : u # t => FamilyOf(u)' = FamilyOf(u)
          /\ \A u \in Tokens : row'[u].parent = row[u].parent
      BY <1>d, <2>1, <2>2, <2>3 DEF FamilyOf
    <3>2. QED
      BY <3>1
  <2>9. Session!Open(f, t)
    BY <1>d, <2>1, <2>4, <2>7, <2>8 DEF Session!Open, Session!Unseen
  <2>10. QED
    BY <2>9 DEF Session!Next
<1>2. ASSUME NEW r \in Requests, NEW c \in Tokens, CommitRotation(r, c)
      PROVE  Session!Next
  <2>1. PICK p \in Tokens, f \in Families :
             /\ p = req[r].tok /\ f = FamilyOf(p) /\ Usable(row[p]) /\ ~Stored(c) /\ c # p
             /\ row' = [row EXCEPT ![p] = Consumed(@), ![c] = Inserted(f, p)]
    <3>1. /\ req[r].tok \in Tokens /\ Usable(row[req[r].tok])
          /\ ~Stored(c)
      BY <1>2 DEF CommitRotation, Free, Rotation, RotationHoldsRow
    <3>2. Stored(req[r].tok)
      BY <3>1 DEF Usable, Stored
    <3>3. FamilyOf(req[r].tok) \in Families
      BY <1>c, <3>1, <3>2 DEF Typed, TypeOK, Row, FamilyOf
    <3>4. QED
      BY <1>2, <3>1, <3>2, <3>3 DEF CommitRotation
  <2> DEFINE child == Inserted(f, p)
  <2>2. child.family = f /\ child.parent = p /\ Usable(child)
    BY DEF Inserted, Absent, Usable
  <2>3. /\ Consumed(row[p]).family = f /\ Consumed(row[p]).parent = row[p].parent
        /\ ~Usable(Consumed(row[p]))
    BY <1>c, <2>1 DEF Consumed, Row, Usable, FamilyOf
  <2>4. /\ row'[c] = child /\ row'[p] = Consumed(row[p])
        /\ \A u \in Tokens : u # c /\ u # p => row'[u] = row[u]
    BY <1>c, <2>1
  <2> HIDE DEF child
  <2>5. Holder(f) = p /\ p # NoToken
    BY <1>a, <2>1, RefreshAssumption DEF HoldersMatch, Holds
  <2>6. Holder(f)' = c
    BY <1>b, <2>2, <2>4 DEF HoldersMatch, Holds, FamilyOf
  <2>7. \A g \in Families \ {f} : Holder(g)' = Holder(g)
    <3>1. \A g \in Families \ {f}, u \in Tokens : Holds(u, g)' <=> Holds(u, g)
      BY <1>d, <2>1, <2>2, <2>3, <2>4, RefreshAssumption DEF Holds, FamilyOf
    <3>2. QED
      BY <1>a, <1>b, <3>1, SessionsStay
  <2>8. [g \in Families |-> Holder(g)]' = [[g \in Families |-> Holder(g)] EXCEPT ![f] = c]
    BY <2>6, <2>7
  <2>9. /\ [u \in Tokens |-> FamilyOf(u)]' = [[u \in Tokens |-> FamilyOf(u)] EXCEPT ![c] = f]
        /\ [u \in Tokens |-> row[u].parent]' = [[u \in Tokens |-> row[u].parent] EXCEPT ![c] = p]
    <3>1. /\ FamilyOf(c)' = f /\ row'[c].parent = p
          /\ \A u \in Tokens : u # c => FamilyOf(u)' = FamilyOf(u) /\ row'[u].parent = row[u].parent
      BY <2>1, <2>2, <2>3, <2>4 DEF FamilyOf
    <3>2. QED
      BY <3>1
  <2>10. Session!HandOver(f, c)
    <3>1. FamilyOf(c) = NoFamily
      BY <1>d, <2>1
    <3>2. QED
      BY <2>5, <2>8, <2>9, <3>1 DEF Session!HandOver, Session!Unseen
  <2>11. QED
    BY <2>10 DEF Session!Next
<1>3. ASSUME NEW r \in Requests, MarkExpired(r)
      PROVE  [Session!Next]_Session!sessionVars
  <2>1. PICK p \in Tokens : p = req[r].tok /\ Stored(p)
    BY <1>3 DEF MarkExpired, Typed, WorksOnStored
  <2>2. PICK g \in Families : g = FamilyOf(p)
    BY <1>c, <2>1 DEF Typed, TypeOK, Row, FamilyOf
  <2>3. row'[p] = Expired(row[p]) /\ \A u \in Tokens : u # p => row'[u] = row[u]
    BY <1>3, <1>c, <2>1 DEF MarkExpired
  <2>4. ~Usable(row[p])'
    BY <1>c, <2>1, <2>3, RowUpdates DEF Stored
  <2>5. \A t \in Tokens : /\ FamilyOf(t)' = FamilyOf(t) /\ row'[t].parent = row[t].parent
                          /\ Usable(row[t])' => Usable(row[t])
                          /\ t # p => (Usable(row[t])' <=> Usable(row[t]))
    BY <1>c, <2>1, <2>3 DEF RowsKeep, Keeps, FamilyOf
  <2>6. PICK S \in SUBSET Tokens : S = {p}
    BY <2>1
  <2>7. /\ \A t \in S : FamilyOf(t) = g /\ ~Usable(row[t])'
        /\ \A t \in Tokens : t \notin S => t # p
    BY <2>2, <2>4, <2>6
  <2>8. QED
    BY <1>a, <1>b, <2>5, <2>7, RevocationCloses, RefreshAssumption
<1>4. ASSUME NEW r \in Requests, RevokeFamily(r)
      PROVE  [Session!Next]_Session!sessionVars
  <2> DEFINE p == req[r].tok
  <2>1. /\ req[r].at = "apply" /\ p \in Tokens /\ Stored(p) /\ p \in req[r].snap
        /\ req[r].snap \subseteq Members(FamilyOf(p))
    BY <1>4 DEF RevokeFamily, Typed, WorksOnStored, Rotation, SnapshotHasToken, Caused, ReqCaused
  <2>2. FamilyOf(p) \in Families
    BY <1>c, <2>1 DEF Typed, TypeOK, Row, FamilyOf
  <2>3. PICK g \in Families : g = FamilyOf(p)
    BY <2>2
  <2>4. PICK S \in SUBSET Tokens : S = req[r].snap
    BY <2>1 DEF Members
  <2>5. \A t \in S : t \in Tokens /\ Stored(t) /\ FamilyOf(t) = g
    BY <2>1, <2>3, <2>4 DEF Members
  <2>6. \A t \in Tokens : /\ t \notin S => row'[t] = row[t]
                          /\ t \in S => row'[t] \in {Reused(row[t]), Revoked(row[t])}
    BY <1>4, <2>1, <2>4 DEF RevokeFamily
  <2>7. \A t \in S : ~Usable(row[t])'
    BY <1>c, <2>5, <2>6, RowUpdates DEF Stored
  <2>8. \A t \in Tokens : /\ FamilyOf(t)' = FamilyOf(t) /\ row'[t].parent = row[t].parent
                          /\ Usable(row[t])' => Usable(row[t])
                          /\ t \notin S => (Usable(row[t])' <=> Usable(row[t]))
    BY <1>c, <2>5, <2>6 DEF RowsKeep, Keeps, FamilyOf
  <2>9. QED
    BY <1>a, <1>b, <2>5, <2>7, <2>8, RevocationCloses, RefreshAssumption
<1>5. ASSUME NEW t \in Tokens, PassExpiry(t)
      PROVE  UNCHANGED Session!sessionVars
  <2>1. \A u \in Tokens : row'[u] = [row[u] EXCEPT !.pastExpiry = TRUE] \/ row'[u] = row[u]
    BY <1>c, <1>5 DEF PassExpiry
  <2>2. \A u \in Tokens : /\ FamilyOf(u)' = FamilyOf(u) /\ row'[u].parent = row[u].parent
                          /\ Usable(row[u])' <=> Usable(row[u])
    BY <1>c, <2>1 DEF Row, FamilyOf, Usable
  <2>3. QED
    BY <1>e, <2>2
<1>6. ASSUME UNCHANGED row
      PROVE  UNCHANGED Session!sessionVars
  BY <1>e, <1>6 DEF FamilyOf
<1>7. QED
  BY <1>1, <1>2, <1>3, <1>4, <1>5, <1>6
     DEF Next, Step, vars, UnknownToken, StartRefresh, StartLogout, CheckMembership,
         Consume, SnapshotFamily, Respond, Fail

(* The table of refresh tokens, read and written by requests that race, fail *)
(* and revoke, implements SessionLifecycle: a session is held by one token   *)
(* at a time, handed over by its holder, and closed for good.                *)
THEOREM TokensImplementSessions == Spec => SessionSpec
<1>1. Init => Session!Init
  <2> SUFFICES ASSUME Init PROVE Session!Init
    OBVIOUS
  <2>1. \A t \in Tokens : row[t] = Absent
    BY DEF Init
  <2>2. \A f \in Families : Holder(f) = NoToken
    BY <2>1 DEF Holder, Holds, Usable, Absent
  <2>3. QED
    BY <2>1, <2>2 DEF Session!Init, FamilyOf, Absent
<1>2. Typed /\ Rotation /\ Caused /\ (Typed /\ Rotation /\ Caused)' /\ [Next]_vars
        => [Session!Next]_Session!sessionVars
  BY SessionStep
<1>3. Spec => [](Typed /\ Rotation /\ Caused)
  BY CausedAlways
<1>4. QED
  BY <1>1, <1>2, <1>3, PTL DEF Spec, SessionSpec, Session!Spec

=============================================================================
