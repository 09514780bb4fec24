--------------------------- MODULE RefreshTokens ---------------------------
(***************************************************************************)
(* The refresh token families of the API: AuthService.login, refresh and   *)
(* logout over RefreshTokenRepository.  Every await of a handler is a step *)
(* of its own, so the requests interleave the way they do on the event     *)
(* loops of one or several API processes.  The table is read and written   *)
(* under PostgreSQL's READ COMMITTED isolation, Prisma's default: a        *)
(* statement sees the rows committed when it starts, and a write waits for *)
(* the transaction that holds the row.                                     *)
(***************************************************************************)
EXTENDS Naturals, FiniteSets

CONSTANTS
  Tokens,     (* the rows the table can hold, a bound of the model          *)
  Families,   (* the family ids login can draw                              *)
  Requests,   (* the slots of requests in progress at the same time         *)
  NoToken,    (* parentTokenId = null, or no token produced yet             *)
  NoFamily,   (* the family of a row that was never inserted                *)
  CanFail     (* whether a query may throw or the process die mid-request   *)

ASSUME RefreshAssumption ==
  /\ NoToken \notin Tokens
  /\ NoFamily \notin Families
  /\ CanFail \in BOOLEAN

VARIABLES
  row,        (* the committed version of each row of RefreshToken          *)
  req,        (* where each request is, and its local variables             *)
  issued,     (* the tokens a response has delivered to a client            *)
  audit,      (* the audit actions recorded for each family                 *)
  presented,  (* history: how often each token was sent to refresh, up to 2 *)
  loggedOut,  (* history: the families whose logout was requested           *)
  overtaken   (* history: the families in which a rotation committed between *)
              (* the start and the end of a family update                   *)

vars == <<row, req, issued, audit, presented, loggedOut, overtaken>>

-----------------------------------------------------------------------------
Statuses == {"NONE", "ACTIVE", "ROTATED", "REVOKED", "REUSED", "EXPIRED"}

Row == [status : Statuses, used : BOOLEAN, revoked : BOOLEAN, reuse : BOOLEAN,
        pastExpiry : BOOLEAN, family : Families \cup {NoFamily},
        parent : Tokens \cup {NoToken}]

Places == {"idle", "markExpired", "membership", "consume", "commit",
           "revoke", "apply", "respond"}

Request == [at : Places, op : {"login", "refresh", "logout"},
            tok : Tokens \cup {NoToken}, new : Tokens \cup {NoToken},
            snap : SUBSET Tokens]

AuditActions == {"Login", "Refresh", "Logout", "TokenReuse"}

(* Before the insert, and what RefreshTokenRepository.create writes.         *)
Absent == [status |-> "NONE", used |-> FALSE, revoked |-> FALSE,
           reuse |-> FALSE, pastExpiry |-> FALSE, family |-> NoFamily,
           parent |-> NoToken]

(* Mutant of Inserted: the family is forgotten.                              *)
InsertedWithoutFamily(f, p) == [Absent EXCEPT !.status = "ACTIVE", !.parent = p]

Inserted(f, p) == [Absent EXCEPT !.status = "ACTIVE", !.family = f,
                                 !.parent = p]

(* Mutant of Consumed: the use is not written.                               *)
ConsumedUnmarked(rw) == rw

(* The updates of rotate, markExpired, revokeFamily, and the second statement *)
(* of markReuseAndRevokeFamily, on one row.                                  *)
Consumed(rw) == [rw EXCEPT !.status = "ROTATED", !.used = TRUE]
Expired(rw)  == [rw EXCEPT !.status = "EXPIRED"]
Revoked(rw)  == [rw EXCEPT !.status = "REVOKED", !.revoked = TRUE]
Reused(rw)   == [rw EXCEPT !.status = "REUSED", !.revoked = TRUE,
                           !.reuse = TRUE]

Stored(t)   == row[t].status # "NONE"
Usable(rw)  == rw.status = "ACTIVE" /\ ~rw.used /\ ~rw.revoked
FamilyOf(t) == row[t].family
Members(f)  == {t \in Tokens : Stored(t) /\ FamilyOf(t) = f}

(* A rotate transaction holds its row from the guarded update to the commit. *)
Locked(t) == \E r \in Requests : req[r].at = "commit" /\ req[r].tok = t

Idle == [at |-> "idle", op |-> "login", tok |-> NoToken, new |-> NoToken,
         snap |-> {}]

Goto(r, place) == req' = [req EXCEPT ![r].at = place]
Finish(r)      == req' = [req EXCEPT ![r] = Idle]

(* Bound: a rotation starts only while a row is left for its child.          *)
Free == {t \in Tokens : ~Stored(t)}
Room == Cardinality(Free) >
          Cardinality({r \in Requests : req[r].at \in {"membership", "consume", "commit"}})

-----------------------------------------------------------------------------
Init ==
  /\ row = [t \in Tokens |-> Absent]
  /\ req = [r \in Requests |-> Idle]
  /\ issued = {}
  /\ audit = [f \in Families |-> {}]
  /\ presented = [t \in Tokens |-> 0]
  /\ loggedOut = {}
  /\ overtaken = {}

(* login past its checks of the user, the password and the membership: the  *)
(* first token of a family whose id is fresh.                               *)
Login(r, f, t) ==
  /\ req[r].at = "idle"
  /\ Room
  /\ t \in Free
  /\ Members(f) = {}
  /\ row' = [row EXCEPT ![t] = Inserted(f, NoToken)]
  /\ req' = [req EXCEPT ![r] = [Idle EXCEPT !.at = "respond", !.tok = t,
                                            !.new = t]]
  /\ UNCHANGED <<issued, audit, presented, loggedOut, overtaken>>

(* A hash no row has: refresh throws, logout answers revoked false.         *)
UnknownToken(r) ==
  /\ req[r].at = "idle"
  /\ UNCHANGED vars

(* Where refresh goes with the row findByHash returned: expiry first, then  *)
(* the reuse test, then the membership lookup.                              *)
AfterLookup(rw) ==
  IF rw.pastExpiry THEN "markExpired"
  ELSE IF ~Usable(rw) THEN "revoke" ELSE "membership"

StartRefresh(r, t) ==
  /\ req[r].at = "idle"
  /\ t \in issued
  /\ AfterLookup(row[t]) = "membership" => Room
  /\ req' = [req EXCEPT ![r] = [Idle EXCEPT !.at = AfterLookup(row[t]),
                                            !.op = "refresh", !.tok = t]]
  /\ presented' = [presented EXCEPT ![t] = IF @ = 2 THEN 2 ELSE @ + 1]
  /\ UNCHANGED <<row, issued, audit, loggedOut, overtaken>>

StartLogout(r, t) ==
  /\ req[r].at = "idle"
  /\ t \in issued
  /\ req' = [req EXCEPT ![r] = [Idle EXCEPT !.at = "revoke", !.op = "logout",
                                            !.tok = t]]
  /\ loggedOut' = loggedOut \cup {FamilyOf(t)}
  /\ UNCHANGED <<row, issued, audit, presented, overtaken>>

(* markExpired tests nothing: it overwrites whatever status the row has by   *)
(* then.                                                                     *)
MarkExpired(r) ==
  /\ req[r].at = "markExpired"
  /\ ~Locked(req[r].tok)
  /\ row' = [row EXCEPT ![req[r].tok] = Expired(@)]
  /\ Finish(r)
  /\ UNCHANGED <<issued, audit, presented, loggedOut, overtaken>>

(* The user and the membership belong to other components: either answer.   *)
CheckMembership(r) ==
  /\ req[r].at = "membership"
  /\ Goto(r, "consume") \/ Finish(r)
  /\ UNCHANGED <<row, issued, audit, presented, loggedOut, overtaken>>

(* Mutants of Consume: an update without its guard, and a handler that tries *)
(* again when the guard fails.                                               *)
ConsumeUnguarded(r) ==
  /\ req[r].at = "consume"
  /\ Goto(r, "commit")
  /\ UNCHANGED <<row, issued, audit, presented, loggedOut, overtaken>>

ConsumeRetrying(r) ==
  /\ req[r].at = "consume"
  /\ ~Locked(req[r].tok)
  /\ Goto(r, IF Usable(row[req[r].tok]) THEN "commit" ELSE "membership")
  /\ UNCHANGED <<row, issued, audit, presented, loggedOut, overtaken>>

(* The guarded update of rotate.  The row lock makes it wait for a rotation  *)
(* in progress, and the guard is evaluated again on the row it then finds.  *)
Consume(r) ==
  /\ req[r].at = "consume"
  /\ ~Locked(req[r].tok)
  /\ Goto(r, IF Usable(row[req[r].tok]) THEN "commit" ELSE "revoke")
  /\ UNCHANGED <<row, issued, audit, presented, loggedOut, overtaken>>

(* A family update is between its start and its end.                         *)
UnderRevocation(f) ==
  \E q \in Requests : req[q].at = "apply" /\ FamilyOf(req[q].tok) = f

(* The child is inserted and the transaction commits: others see both rows   *)
(* change at once.                                                           *)
CommitRotation(r, c) ==
  /\ req[r].at = "commit"
  /\ c \in Free
  /\ row' = [row EXCEPT ![req[r].tok] = Consumed(@),
                        ![c] = Inserted(FamilyOf(req[r].tok), req[r].tok)]
  /\ req' = [req EXCEPT ![r] = [@ EXCEPT !.at = "respond", !.new = c]]
  /\ overtaken' = IF UnderRevocation(FamilyOf(req[r].tok))
                  THEN overtaken \cup {FamilyOf(req[r].tok)} ELSE overtaken
  /\ UNCHANGED <<issued, audit, presented, loggedOut>>

(* Mutants of SnapshotFamily: only the presented token, every token, or an   *)
(* update that is never awaited.                                             *)
SnapshotTokenOnly(r) ==
  /\ req[r].at = "revoke"
  /\ req' = [req EXCEPT ![r] = [@ EXCEPT !.at = "apply", !.snap = {req[r].tok}]]
  /\ UNCHANGED <<row, issued, audit, presented, loggedOut, overtaken>>

SnapshotEverything(r) ==
  /\ req[r].at = "revoke"
  /\ req' = [req EXCEPT ![r] = [@ EXCEPT !.at = "apply", !.snap = Tokens \ Free]]
  /\ UNCHANGED <<row, issued, audit, presented, loggedOut, overtaken>>

SnapshotNotApplied(r) ==
  /\ req[r].at = "revoke"
  /\ Goto(r, "respond")
  /\ UNCHANGED <<row, issued, audit, presented, loggedOut, overtaken>>

(* The family update starts: it will visit the rows committed by now.        *)
SnapshotFamily(r) ==
  /\ req[r].at = "revoke"
  /\ req' = [req EXCEPT ![r] = [@ EXCEPT !.at = "apply",
                               !.snap = Members(FamilyOf(req[r].tok))]]
  /\ UNCHANGED <<row, issued, audit, presented, loggedOut, overtaken>>

(* Once no row of the snapshot is held, revokeFamily has them all; after a   *)
(* reuse the presented token is marked in the same transaction.  The update  *)
(* takes its rows one by one; that two of them deadlock, and the database    *)
(* turns one down, comes to a Fail.                                          *)
RevokeFamily(r) ==
  LET reusedToken == IF req[r].op = "refresh" THEN {req[r].tok} ELSE {}
  IN /\ req[r].at = "apply"
     /\ \A t \in req[r].snap : ~Locked(t)
     /\ row' = [t \in Tokens |->
                  IF t \in reusedToken THEN Reused(row[t])
                  ELSE IF t \in req[r].snap THEN Revoked(row[t])
                  ELSE row[t]]
     /\ Goto(r, "respond")
     /\ UNCHANGED <<issued, audit, presented, loggedOut, overtaken>>

(* Mutant of AuditOf: the answer decides, not what happened.                 *)
AuditOfSuccess(rq) ==
  CASE rq.op = "login"  -> "Login"
    [] rq.op = "logout" -> "Logout"
    [] OTHER -> "Refresh"

AuditOf(rq) ==
  CASE rq.op = "login"  -> "Login"
    [] rq.op = "logout" -> "Logout"
    [] rq.op = "refresh" /\ rq.new # NoToken -> "Refresh"
    [] OTHER -> "TokenReuse"

(* The audit record, then the answer: a token pair, revoked true, or the     *)
(* UnauthorizedException of a detected reuse.                                *)
Respond(r) ==
  /\ req[r].at = "respond"
  /\ audit' = [audit EXCEPT ![FamilyOf(req[r].tok)] = @ \cup {AuditOf(req[r])}]
  /\ issued' = issued \cup ({req[r].new} \ {NoToken})
  /\ Finish(r)
  /\ UNCHANGED <<row, presented, loggedOut, overtaken>>

(* A query throws, the transaction times out or the process dies: nothing    *)
(* uncommitted stays, and no answer is sent.                                 *)
Fail(r) ==
  /\ CanFail
  /\ req[r].at # "idle"
  /\ Finish(r)
  /\ UNCHANGED <<row, issued, audit, presented, loggedOut, overtaken>>

(* Time passes.  A child gets its expiry later than its parent did.          *)
PassExpiry(t) ==
  /\ Stored(t)
  /\ ~row[t].pastExpiry
  /\ row[t].parent # NoToken => row[row[t].parent].pastExpiry
  /\ row' = [row EXCEPT ![t].pastExpiry = TRUE]
  /\ UNCHANGED <<req, issued, audit, presented, loggedOut, overtaken>>

(* What a request does on its own once it has started.                       *)
Step(r) ==
  \/ MarkExpired(r)
  \/ CheckMembership(r)
  \/ Consume(r)
  \/ \E c \in Tokens : CommitRotation(r, c)
  \/ SnapshotFamily(r)
  \/ RevokeFamily(r)
  \/ Respond(r)

Next ==
  \/ \E r \in Requests :
       \/ \E f \in Families, t \in Tokens : Login(r, f, t)
       \/ UnknownToken(r)
       \/ \E t \in Tokens : StartRefresh(r, t) \/ StartLogout(r, t)
       \/ Step(r)
       \/ Fail(r)
  \/ \E t \in Tokens : PassExpiry(t)

Spec == Init /\ [][Next]_vars

(* The event loop resumes a handler whose query has returned.                *)
FairSpec == Spec /\ \A r \in Requests : WF_vars(Step(r))

-----------------------------------------------------------------------------
TypeOK ==
  /\ row \in [Tokens -> Row]
  /\ req \in [Requests -> Request]
  /\ issued \subseteq Tokens
  /\ audit \in [Families -> SUBSET AuditActions]
  /\ presented \in [Tokens -> 0..2]
  /\ loggedOut \subseteq Families
  /\ overtaken \subseteq Families
  /\ \A t \in Tokens : Stored(t) <=> FamilyOf(t) # NoFamily

(* A rotation past its guarded update still finds, when it commits, the      *)
(* usable row it saw, and no other rotation holds that row: what the row     *)
(* lock of rotate's transaction is for.                                      *)
RotationHoldsRow ==
  \A r \in Requests : req[r].at = "commit" =>
    /\ req[r].tok \in Tokens
    /\ Usable(row[req[r].tok])
    /\ \A q \in Requests : q # r /\ req[q].at = "commit" => req[q].tok # req[r].tok

(* However refreshes, retries and logouts interleave, a family never has two *)
(* tokens rotate would accept: one login is one chain of sessions            *)
(* (RefreshTokenRepository.rotate).                                          *)
OneUsablePerFamily ==
  \A s, t \in Tokens :
    /\ Usable(row[s])
    /\ Usable(row[t])
    /\ FamilyOf(s) = FamilyOf(t)
    => s = t

(* A token is exchanged at most once, and only inside its family: no two     *)
(* rows share a parent, and a parent bears the mark of its use.              *)
LinearChain ==
  \A c \in Tokens : row[c].parent # NoToken =>
    LET p == row[c].parent
    IN /\ row[p].used
       /\ FamilyOf(p) = FamilyOf(c)
       /\ \A d \in Tokens : row[d].parent = p => d = c

(* A client that sends each token once and does not log out never loses its  *)
(* session to a revocation, whatever expires or happens in other families: a *)
(* revoked token means that a token of its family was presented twice, or    *)
(* that the family's logout was requested.                                   *)
RevokedHasCause ==
  \A t \in Tokens : row[t].revoked =>
    \/ FamilyOf(t) \in loggedOut
    \/ \E s \in Members(FamilyOf(t)) : presented[s] = 2

(* An audit entry never runs ahead of what it reports: a recorded reuse has  *)
(* its marked token, a recorded logout its revoked ones, a recorded refresh  *)
(* its child (AuthService records after the write).                          *)
AuditAfterEffect ==
  \A f \in Families :
    /\ "TokenReuse" \in audit[f] => \E t \in Members(f) : row[t].reuse
    /\ "Logout" \in audit[f] => \E t \in Members(f) : row[t].revoked
    /\ "Refresh" \in audit[f] => \E t \in Members(f) : row[t].parent # NoToken

(* What logout and the reuse path answer for: once either is recorded, no    *)
(* token of the family can be refreshed again.                               *)
RevocationIsComplete ==
  \A f \in Families : {"Logout", "TokenReuse"} \cap audit[f] # {} =>
    \A t \in Members(f) : ~Usable(row[t])

(* Logout and the reuse path leave nothing to refresh, unless a rotation     *)
(* committed its child while the family update ran: no failure, no expiry    *)
(* and no other request lets a token through (revokeFamily,                  *)
(* markReuseAndRevokeFamily).                                                *)
OnlyOvertakenSurvive ==
  \A f \in Families : {"Logout", "TokenReuse"} \cap audit[f] # {} /\ f \notin overtaken =>
    \A t \in Members(f) : ~Usable(row[t])

(* A token that stopped being usable stays so, and its use, revocation and   *)
(* reuse marks are never taken back, though markExpired and revokeFamily     *)
(* overwrite the status without looking at it.                               *)
DeadStaysDead ==
  [][\A t \in Tokens : Stored(t) =>
       /\ Usable(row'[t]) => Usable(row[t])
       /\ row[t].used => row'[t].used
       /\ row[t].revoked => row'[t].revoked
       /\ row[t].reuse => row'[t].reuse]_vars

(* Who can refresh the session of a family: the table implements             *)
(* SessionLifecycle, a session of one holder at a time, however the steps of *)
(* refreshes, logouts and failures interleave.                               *)
Holds(t, f) == Usable(row[t]) /\ FamilyOf(t) = f

Holder(f) ==
  IF \E t \in Tokens : Holds(t, f) THEN CHOOSE t \in Tokens : Holds(t, f) ELSE NoToken

Session == INSTANCE SessionLifecycle
             WITH holder <- [f \in Families |-> Holder(f)],
                  family <- [t \in Tokens |-> FamilyOf(t)],
                  from   <- [t \in Tokens |-> row[t].parent]
SessionSpec == Session!Spec

(* Every request ends, one that waits for the row of a rotation included.    *)
EveryRequestEnds ==
  \A r \in Requests : req[r].at # "idle" ~> req[r].at = "idle"

(* When no query throws, every detected reuse reaches the audit log.         *)
ReuseIsAudited ==
  \A f \in Families :
    (\E t \in Members(f) : row[t].reuse) ~> "TokenReuse" \in audit[f]

=============================================================================
