--------------------------- MODULE TenancyProofs ---------------------------
(***************************************************************************)
(* Proofs about Tenancy, for every set of addresses, tenants, names and    *)
(* concurrent requests, with and without failures.                         *)
(***************************************************************************)
EXTENDS Tenancy, TLAPS

Searching == {"slug", "createTenant"}

(* What each place of a handler says of its local variables.                 *)
WellFormed(rq) ==
  /\ rq.at # "idle" => rq.user \in Emails
  /\ rq.at \in {"find", "invite"} => rq.op = "invite"
  /\ rq.at = "createUser" => rq.op \in {"register", "invite"}
  /\ rq.at = "createUser" /\ rq.op = "register" => rq.name \in Names
  /\ rq.at = "member" => rq.op = "register"
  /\ rq.at = "issue" => rq.op \in {"register", "login"}
  /\ rq.at # "idle" /\ rq.op = "invite" => rq.actor \in Emails /\ rq.tenant \in Tenants
  /\ rq.at \in Searching =>
       /\ rq.op \in {"register", "create"}
       /\ rq.name \in Names
       /\ rq.n >= 1
       /\ SlugsOf[rq.name] # <<>> => rq.n <= Len(SlugsOf[rq.name])
  /\ rq.at = "createTenant" => SlugsOf[rq.name] # <<>>
  /\ rq.at \in {"record", "member", "issue"} => rq.tenant \in Tenants

(* The inductive invariant of type correctness.                              *)
Typed == TypeOK /\ \A r \in Requests : WellFormed(req[r])

USE DEF Searching, Places, Roles, UserStatuses, AuditActions

-----------------------------------------------------------------------------
(* An idle request is well formed.                                           *)
LEMMA IdleIsRequest == Idle \in Request /\ WellFormed(Idle) /\ Idle.at = "idle"
BY DEF Idle, Request, WellFormed

LEMMA SlugsListed ==
  ASSUME NEW b \in Names
  PROVE  /\ SlugsOf[b] \in Seq(Slugs)
         /\ Len(SlugsOf[b]) \in Nat
         /\ SlugsOf[b] # <<>> => 1 <= Len(SlugsOf[b])
         /\ \A n \in 1..Len(SlugsOf[b]) : SlugsOf[b][n] \in Slugs
BY TenancyAssumption

(* The slug a request is about to try or to insert is a slug.                *)
LEMMA CandidateIsSlug ==
  ASSUME Typed, NEW r \in Requests, req[r].at \in Searching, SlugsOf[req[r].name] # <<>>
  PROVE  /\ Candidate(req[r]) \in Slugs
         /\ req[r].n \in 1..Len(SlugsOf[req[r].name])
<1>1. req[r].name \in Names /\ req[r].n \in 1..Len(SlugsOf[req[r].name])
  BY SlugsListed DEF Typed, TypeOK, Request, WellFormed
<1>2. QED
  BY <1>1, SlugsListed DEF Candidate

LEMMA TypedInit == Init => Typed
<1> SUFFICES ASSUME Init PROVE Typed
  OBVIOUS
<1>1. TypeOK
  BY IdleIsRequest DEF Init, TypeOK, Membership
<1>2. \A r \in Requests : WellFormed(req[r])
  BY IdleIsRequest DEF Init
<1>3. QED
  BY <1>1, <1>2 DEF Typed

(* How a request changes: the others stay, and it is well formed afterwards. *)
ReqTyped ==
  /\ req \in [Requests -> Request]
  /\ \A r \in Requests : WellFormed(req[r])

LEMMA ReqTypedStep ==
  ASSUME Typed, [Next]_vars
  PROVE  ReqTyped'
<1>a. req \in [Requests -> Request] /\ \A r \in Requests : WellFormed(req[r])
  BY DEF Typed, TypeOK
<1>b. ASSUME NEW r \in Requests, NEW rq \in Request, WellFormed(rq),
             req' = [req EXCEPT ![r] = rq]
      PROVE  ReqTyped'
  BY <1>a, <1>b DEF ReqTyped
<1>c. ASSUME NEW r \in Requests, Finish(r) PROVE ReqTyped'
  BY <1>b, <1>c, IdleIsRequest DEF Finish
<1>d. ASSUME NEW r \in Requests, NEW place \in Places, Goto(r, place),
             WellFormed([req[r] EXCEPT !.at = place])
      PROVE  ReqTyped'
  <2>1. [req[r] EXCEPT !.at = place] \in Request
    BY <1>a DEF Request
  <2>2. QED
    BY <1>b, <1>d, <2>1 DEF Goto
<1>e. ASSUME UNCHANGED req PROVE ReqTyped'
  BY <1>a, <1>e DEF ReqTyped
<1> USE DEF Idle, Request, WellFormed
<1>1. ASSUME NEW r \in Requests, NEW e \in Emails, NEW name \in Names, StartRegister(r, e, name)
      PROVE  ReqTyped'
  BY <1>1, <1>b DEF StartRegister
<1>2. ASSUME NEW r \in Requests, NEW e \in Emails, NEW t \in Tenants, Login(r, e, t)
      PROVE  ReqTyped'
  BY <1>2, <1>b DEF Login
<1>3. ASSUME NEW r \in Requests, NEW e \in Emails, NEW t \in Tenants, NEW name \in Names,
             StartCreate(r, e, t, name)
      PROVE  ReqTyped'
  <2> DEFINE rq == [Idle EXCEPT !.op = "create", !.at = "slug", !.user = e, !.name = name, !.n = 1]
  <2>1. Len(SlugsOf[name]) \in Nat /\ (SlugsOf[name] # <<>> => 1 <= Len(SlugsOf[name]))
    BY SlugsListed
  <2>2. /\ rq \in Request
        /\ rq.op = "create" /\ rq.at = "slug" /\ rq.user = e /\ rq.name = name /\ rq.n = 1
    OBVIOUS
  <2>3. req' = [req EXCEPT ![r] = rq]
    BY <1>3 DEF StartCreate
  <2> HIDE DEF rq
  <2>4. WellFormed(rq)
    BY <2>1, <2>2
  <2>5. QED
    BY <1>b, <2>2, <2>3, <2>4
<1>4. ASSUME NEW r \in Requests, NEW e \in Emails, NEW invitee \in Emails, NEW t \in Tenants,
             NEW into \in Tenants, NEW role \in Roles, StartInvite(r, e, t, into, invitee, role)
      PROVE  ReqTyped'
  BY <1>4, <1>b DEF StartInvite
<1>5. ASSUME NEW r \in Requests, FindUser(r) PROVE ReqTyped'
  BY <1>5, <1>a, <1>d DEF FindUser
<1>6. ASSUME NEW r \in Requests, CreateUser(r) PROVE ReqTyped'
  <2>1. CASE req' = [req EXCEPT ![r] = [@ EXCEPT !.at = "slug", !.n = 1]] /\ req[r].op = "register"
             /\ req[r].at = "createUser"
    <3> DEFINE rq == [req[r] EXCEPT !.at = "slug", !.n = 1]
    <3>0. /\ req[r].name \in Names
          /\ Len(SlugsOf[req[r].name]) \in Nat
          /\ SlugsOf[req[r].name] # <<>> => 1 <= Len(SlugsOf[req[r].name])
      BY <1>a, <2>1, SlugsListed
    <3>1. /\ rq \in Request
          /\ rq.at = "slug" /\ rq.n = 1
          /\ rq.op = "register" /\ rq.user = req[r].user /\ rq.name = req[r].name
      BY <1>a, <2>1
    <3>2. req' = [req EXCEPT ![r] = rq]
      BY <1>a, <2>1
    <3> HIDE DEF rq
    <3>3. req[r].user \in Emails
      BY <1>a, <2>1
    <3>4. WellFormed(rq)
      BY <3>0, <3>1, <3>3
    <3>5. QED
      BY <1>b, <3>1, <3>2, <3>4
  <2>2. QED
    BY <1>6, <1>a, <1>c, <1>d, <2>1 DEF CreateUser
<1>7. ASSUME NEW r \in Requests, Invite(r) PROVE ReqTyped'
  BY <1>7, <1>a, <1>d DEF Invite
<1>8. ASSUME NEW r \in Requests, TrySlug(r) PROVE ReqTyped'
  <2>1. CASE /\ req[r].n < Len(SlugsOf[req[r].name])
             /\ req' = [req EXCEPT ![r].n = @ + 1]
    <3> DEFINE rq == [req[r] EXCEPT !.n = @ + 1]
    <3>0. req[r].name \in Names /\ Len(SlugsOf[req[r].name]) \in Nat /\ req[r].at = "slug"
      BY <1>8, <1>a, SlugsListed DEF TrySlug
    <3>1. rq \in Request /\ WellFormed(rq)
      BY <1>a, <2>1, <3>0
    <3>2. req' = [req EXCEPT ![r] = rq]
      BY <1>a, <2>1
    <3> HIDE DEF rq
    <3>3. QED
      BY <1>b, <3>1, <3>2
  <2>2. CASE Goto(r, "createTenant")
    BY <1>8, <1>a, <1>d, <2>2 DEF TrySlug
  <2>3. QED
    BY <1>8, <2>1, <2>2 DEF TrySlug
<1>9. ASSUME NEW r \in Requests, NEW t \in Tenants, CreateTenant(r, t) PROVE ReqTyped'
  <2>1. CASE req' = [req EXCEPT ![r] = [@ EXCEPT !.at = "record", !.tenant = t]]
    <3> DEFINE rq == [req[r] EXCEPT !.at = "record", !.tenant = t]
    <3>1. rq \in Request /\ WellFormed(rq)
      BY <1>9, <1>a DEF CreateTenant
    <3>2. req' = [req EXCEPT ![r] = rq]
      BY <1>a, <2>1
    <3> HIDE DEF rq
    <3>3. QED
      BY <1>b, <3>1, <3>2
  <2>2. QED
    BY <1>9, <1>c, <2>1 DEF CreateTenant
<1>10. ASSUME NEW r \in Requests, Record(r) PROVE ReqTyped'
  BY <1>10, <1>a, <1>c, <1>d DEF Record
<1>11. ASSUME NEW r \in Requests, CheckMember(r) PROVE ReqTyped'
  BY <1>11, <1>a, <1>c, <1>d DEF CheckMember
<1>12. ASSUME NEW r \in Requests, Issue(r) PROVE ReqTyped'
  BY <1>12, <1>a, <1>c, <1>d DEF Issue
<1>13. QED
  BY <1>c, <1>e, <1>1, <1>2, <1>3, <1>4, <1>5, <1>6, <1>7, <1>8, <1>9, <1>10, <1>11, <1>12
     DEF Next, Start, Step, vars, RefuseRegister, RejectName, Fail

(* What is known of a request that is at work.                               *)
LEMMA AtWork ==
  ASSUME Typed, NEW r \in Requests
  PROVE  /\ req[r] \in Request
         /\ WellFormed(req[r])
BY DEF Typed, TypeOK

TablesTyped ==
  /\ user \in [Emails -> UserStatuses]
  /\ slug \in [Tenants -> Slugs \cup {NoSlug}]
  /\ member \in [Tenants -> [Emails -> Membership]]
  /\ session \subseteq Tenants \X Emails
  /\ audit \in [Tenants -> SUBSET (AuditActions \X Emails)]
  /\ founder \in [Tenants -> [user : Emails \cup {NoEmail}, name : Names \cup {NoName}]]
  /\ lost \subseteq Emails

LEMMA TablesTypedStep ==
  ASSUME Typed, [Next]_vars
  PROVE  TablesTyped'
<1>a. TablesTyped
  BY DEF Typed, TypeOK, TablesTyped
<1> USE DEF TablesTyped, tables
<1>b. ASSUME NEW r \in Requests PROVE LostWith(r) \subseteq Emails
  BY AtWork DEF LostWith, Between, WellFormed
<1>1. ASSUME NEW r \in Requests, CreateUser(r) PROVE TablesTyped'
  BY <1>a, <1>1 DEF CreateUser
<1>2. ASSUME NEW r \in Requests, Invite(r) PROVE TablesTyped'
  <2>1. [status |-> InvitedStatus, role |-> req[r].role, by |-> req[r].actor] \in Membership
    BY <1>2, AtWork DEF Invite, Membership, InvitedStatus, WellFormed, Request
  <2>2. QED
    BY <1>a, <1>2, <2>1, AtWork DEF Invite, WellFormed
<1>3. ASSUME NEW r \in Requests, RejectName(r) \/ Fail(r) PROVE TablesTyped'
  BY <1>a, <1>b, <1>3 DEF RejectName, Fail
<1>4. ASSUME NEW r \in Requests, NEW t \in Tenants, CreateTenant(r, t) PROVE TablesTyped'
  <2>1. req[r].user \in Emails /\ req[r].name \in Names /\ Candidate(req[r]) \in Slugs
    BY <1>4, AtWork, CandidateIsSlug DEF CreateTenant, WellFormed
  <2>2. [status |-> "ACTIVE", role |-> "OWNER", by |-> NoEmail] \in Membership
    BY DEF Membership
  <2>3. slug' \in [Tenants -> Slugs \cup {NoSlug}]
    <3> DEFINE s == Candidate(req[r])
    <3>1. slug' = [slug EXCEPT ![t] = s] \/ slug' = slug
      BY <1>4 DEF CreateTenant
    <3>2. s \in Slugs
      BY <2>1
    <3> HIDE DEF s
    <3>3. QED
      BY <1>a, <3>1, <3>2
  <2>4. member' \in [Tenants -> [Emails -> Membership]]
    <3> DEFINE owner == [status |-> "ACTIVE", role |-> "OWNER", by |-> NoEmail]
               e == req[r].user
    <3>1. member' = [member EXCEPT ![t][e] = owner] \/ member' = member
      BY <1>4 DEF CreateTenant
    <3>2. owner \in Membership /\ e \in Emails
      BY <2>1, <2>2
    <3> HIDE DEF owner, e
    <3>3. CASE member' = [member EXCEPT ![t][e] = owner]
      BY <1>a, <3>2, <3>3
    <3>4. QED
      BY <1>a, <3>1, <3>3
  <2>5. founder' \in [Tenants -> [user : Emails \cup {NoEmail}, name : Names \cup {NoName}]]
    BY <1>a, <1>4, <2>1 DEF CreateTenant
  <2>6. QED
    BY <1>a, <1>b, <1>4, <2>3, <2>4, <2>5 DEF CreateTenant
<1>5. ASSUME NEW r \in Requests, Record(r) PROVE TablesTyped'
  <2>1. PICK action \in AuditActions, actor \in Emails :
          audit' = [audit EXCEPT ![req[r].tenant] = @ \cup {<<action, actor>>}]
    BY <1>5, AtWork DEF Record, WellFormed
  <2>2. <<action, actor>> \in AuditActions \X Emails
    OBVIOUS
  <2>3. audit' \in [Tenants -> SUBSET (AuditActions \X Emails)]
    <3> DEFINE entry == <<action, actor>>
               Entries == AuditActions \X Emails
    <3>1. entry \in Entries /\ audit \in [Tenants -> SUBSET Entries]
      BY <1>a, <2>2
    <3>2. audit' = [audit EXCEPT ![req[r].tenant] = @ \cup {entry}]
      BY <2>1
    <3> HIDE DEF entry, Entries
    <3>3. audit' \in [Tenants -> SUBSET Entries]
      BY <3>1, <3>2
    <3>4. QED
      BY <3>3 DEF Entries
  <2>4. QED
    BY <1>a, <1>5, <2>3 DEF Record
<1>6. ASSUME NEW r \in Requests, Issue(r) PROVE TablesTyped'
  BY <1>a, <1>6, AtWork DEF Issue, WellFormed
<1>7. ASSUME UNCHANGED <<tables, founder, lost>> PROVE TablesTyped'
  BY <1>a, <1>7
<1>8. QED
  BY <1>1, <1>2, <1>3, <1>4, <1>5, <1>6, <1>7
     DEF Next, Start, Step, vars, RefuseRegister, StartRegister, Login, StartCreate,
         StartInvite, FindUser, TrySlug, CheckMember

LEMMA TypedStep == Typed /\ [Next]_vars => Typed'
BY ReqTypedStep, TablesTypedStep DEF ReqTyped, TablesTyped, Typed, TypeOK

(* THEOREM 1.  Every variable has its type in every reachable state.         *)
THEOREM TypeCorrect == Spec => []TypeOK
<1>1. Typed => TypeOK
  BY DEF Typed
<1>2. QED
  BY <1>1, TypedInit, TypedStep, PTL DEF Spec

-----------------------------------------------------------------------------
(* A tenant without a slug was not created yet.                              *)
UnfoundedUntilCreated == \A t \in Tenants : ~Exists(t) => founder[t].user = NoEmail

(* An invitation in progress is for the tenant its principal founded and not *)
(* for an owner; a request with a tenant of its own founded it.              *)
RequestsOfFounders ==
  \A r \in Requests :
    /\ req[r].at # "idle" /\ req[r].op = "invite" =>
         founder[req[r].tenant].user = req[r].actor /\ req[r].role # "OWNER"
    /\ req[r].at \in {"record", "member", "issue"} /\ req[r].op # "invite" =>
         founder[req[r].tenant].user = req[r].user

(* OnlyFoundersAct, table by table.                                          *)
ActsOfFounders ==
  \A t \in Tenants, e \in Emails :
    /\ <<t, e>> \in session => founder[t].user = e
    /\ \A action \in AuditActions : <<action, e>> \in audit[t] => founder[t].user = e
    /\ \A i \in Emails : member[t][i].by = e => founder[t].user = e

(* The inductive invariant about founders.                                   *)
Founding ==
  /\ UnfoundedUntilCreated
  /\ RequestsOfFounders
  /\ ActsOfFounders
  /\ OwnersFounded

LEMMA FoundingInit == Init => Founding
<1> SUFFICES ASSUME Init PROVE Founding
  OBVIOUS
<1>1. UnfoundedUntilCreated /\ RequestsOfFounders /\ OwnersFounded
  BY DEF Init, UnfoundedUntilCreated, RequestsOfFounders, OwnersFounded, Idle
<1>2. ActsOfFounders
  BY TenancyAssumption DEF Init, ActsOfFounders
<1>3. QED
  BY <1>1, <1>2 DEF Founding

(* One request moves on, and what it then says of founders is true.          *)
LEMMA RequestsMove ==
  ASSUME RequestsOfFounders, NEW r \in Requests, UNCHANGED founder,
         \A q \in Requests : q # r => req'[q] = req[q],
         req'[r].at # "idle" /\ req'[r].op = "invite" =>
           founder[req'[r].tenant].user = req'[r].actor /\ req'[r].role # "OWNER",
         req'[r].at \in {"record", "member", "issue"} /\ req'[r].op # "invite" =>
           founder[req'[r].tenant].user = req'[r].user
  PROVE  RequestsOfFounders'
BY DEF RequestsOfFounders

(* A request that ends, or goes to another place with what it holds.         *)
LEMMA RequestsGo ==
  ASSUME Typed, RequestsOfFounders, NEW r \in Requests, NEW place \in Places,
         UNCHANGED founder, req[r].at # "idle", Finish(r) \/ Goto(r, place),
         place \in {"record", "member", "issue"} /\ req[r].op # "invite" =>
           founder[req[r].tenant].user = req[r].user
  PROVE  RequestsOfFounders'
<1>1. CASE Finish(r)
  <2>1. /\ \A q \in Requests : q # r => req'[q] = req[q]
        /\ req'[r].at = "idle"
    BY <1>1, IdleIsRequest DEF Finish, Typed, TypeOK
  <2>2. QED
    BY <2>1, RequestsMove
<1>2. CASE Goto(r, place)
  <2>1. /\ \A q \in Requests : q # r => req'[q] = req[q]
        /\ req'[r].at = place /\ req'[r].op = req[r].op /\ req'[r].tenant = req[r].tenant
        /\ req'[r].actor = req[r].actor /\ req'[r].role = req[r].role
        /\ req'[r].user = req[r].user
    BY <1>2 DEF Goto, Typed, TypeOK, Request
  <2>2. req[r].op = "invite" =>
          founder[req[r].tenant].user = req[r].actor /\ req[r].role # "OWNER"
    BY DEF RequestsOfFounders
  <2>3. QED
    BY <2>1, <2>2, RequestsMove
<1>3. QED
  BY <1>1, <1>2

(* The founding invariant when the tables stay and one request moves on.     *)
LEMMA FoundingMove ==
  ASSUME Typed, Founding, NEW r \in Requests,
         UNCHANGED <<slug, member, session, audit, founder>>,
         \A q \in Requests : q # r => req'[q] = req[q],
         req'[r].at # "idle" /\ req'[r].op = "invite" =>
           founder[req'[r].tenant].user = req'[r].actor /\ req'[r].role # "OWNER",
         req'[r].at \in {"record", "member", "issue"} /\ req'[r].op # "invite" =>
           founder[req'[r].tenant].user = req'[r].user
  PROVE  Founding'
<1>1. UnfoundedUntilCreated' /\ ActsOfFounders' /\ OwnersFounded'
  BY DEF Founding, UnfoundedUntilCreated, ActsOfFounders, OwnersFounded, Exists
<1>2. RequestsOfFounders'
  BY RequestsMove DEF Founding
<1>3. QED
  BY <1>1, <1>2 DEF Founding

LEMMA FoundingStep ==
  ASSUME Typed, Founding, [Next]_vars
  PROVE  Founding'
<1> USE DEF tables
<1>a. TypeOK /\ RequestsOfFounders /\ ActsOfFounders /\ OwnersFounded /\ UnfoundedUntilCreated
  BY DEF Typed, Founding
<1>b. ASSUME NEW r \in Requests, Finish(r), UNCHANGED <<slug, member, session, audit, founder>>
      PROVE  Founding'
  BY <1>a, <1>b, IdleIsRequest, FoundingMove DEF Finish, TypeOK
<1>c. ASSUME NEW r \in Requests, NEW place \in Places, Goto(r, place),
             UNCHANGED <<slug, member, session, audit, founder>>, req[r].at # "idle",
             place \in {"record", "member", "issue"} => req[r].at \in {"record", "member", "issue"}
      PROVE  Founding'
  <2>1. /\ \A q \in Requests : q # r => req'[q] = req[q]
        /\ req'[r].at = place /\ req'[r].op = req[r].op /\ req'[r].tenant = req[r].tenant
        /\ req'[r].actor = req[r].actor /\ req'[r].role = req[r].role
        /\ req'[r].user = req[r].user
    BY <1>a, <1>c DEF Goto, TypeOK, Request
  <2>2. QED
    BY <1>a, <1>c, <2>1, FoundingMove DEF RequestsOfFounders
<1>d. ASSUME UNCHANGED <<slug, member, session, audit, founder, req>> PROVE Founding'
  BY <1>a, <1>d DEF Founding, UnfoundedUntilCreated, RequestsOfFounders, ActsOfFounders,
                    OwnersFounded, Exists
<1>1. ASSUME NEW r \in Requests, NEW e \in Emails, NEW name \in Names, StartRegister(r, e, name)
      PROVE  Founding'
  <2>1. /\ \A q \in Requests : q # r => req'[q] = req[q]
        /\ req'[r].op = "register" /\ req'[r].at = "createUser"
    BY <1>a, <1>1 DEF StartRegister, TypeOK, Idle
  <2>2. QED
    BY <1>1, <2>1, FoundingMove DEF StartRegister
<1>2. ASSUME NEW r \in Requests, NEW e \in Emails, NEW t \in Tenants, Login(r, e, t)
      PROVE  Founding'
  <2>1. /\ \A q \in Requests : q # r => req'[q] = req[q]
        /\ req'[r].op = "login" /\ req'[r].user = e /\ req'[r].tenant = t
    BY <1>a, <1>2 DEF Login, TypeOK, Idle
  <2>2. founder[t].user = e
    BY <1>a, <1>2 DEF Login, OwnersFounded
  <2>3. QED
    BY <1>2, <2>1, <2>2, FoundingMove DEF Login
<1>3. ASSUME NEW r \in Requests, NEW e \in Emails, NEW t \in Tenants, NEW name \in Names,
             StartCreate(r, e, t, name)
      PROVE  Founding'
  <2>1. /\ \A q \in Requests : q # r => req'[q] = req[q]
        /\ req'[r].op = "create" /\ req'[r].at = "slug"
    BY <1>a, <1>3 DEF StartCreate, TypeOK, Idle
  <2>2. QED
    BY <1>3, <2>1, FoundingMove DEF StartCreate
<1>4. ASSUME NEW r \in Requests, NEW e \in Emails, NEW invitee \in Emails, NEW t \in Tenants,
             NEW into \in Tenants, NEW role \in Roles, StartInvite(r, e, t, into, invitee, role)
      PROVE  Founding'
  <2>1. /\ \A q \in Requests : q # r => req'[q] = req[q]
        /\ req'[r].op = "invite" /\ req'[r].actor = e /\ req'[r].tenant = t
        /\ req'[r].role = role
    BY <1>a, <1>4 DEF StartInvite, InvitesInto, TypeOK, Idle
  <2>2. founder[t].user = e /\ role # "OWNER"
    BY <1>a, <1>4 DEF StartInvite, Admitted, Asks, OwnersFounded
  <2>3. QED
    BY <1>4, <2>1, <2>2, FoundingMove DEF StartInvite
<1>5. ASSUME NEW r \in Requests, CreateUser(r) PROVE Founding'
  <2>1. CASE /\ req[r].op = "register"
             /\ req' = [req EXCEPT ![r] = [@ EXCEPT !.at = "slug", !.n = 1]]
    <3>1. /\ \A q \in Requests : q # r => req'[q] = req[q]
          /\ req'[r].op = "register" /\ req'[r].at = "slug"
      BY <1>a, <2>1 DEF TypeOK, Request
    <3>2. QED
      BY <1>5, <3>1, FoundingMove DEF CreateUser
  <2>2. QED
    BY <1>5, <1>b, <1>c, <2>1 DEF CreateUser
<1>6. ASSUME NEW r \in Requests, Invite(r) PROVE Founding'
  <2> DEFINE t == req[r].tenant
             e == req[r].user
             i == req[r].actor
  <2>1. /\ t \in Tenants /\ e \in Emails /\ i \in Emails
        /\ req[r].op = "invite" /\ founder[t].user = i /\ req[r].role # "OWNER"
    BY <1>6, <1>a, AtWork DEF Invite, WellFormed, RequestsOfFounders
  <2>2. /\ member'[t][e] = [status |-> "INVITED", role |-> req[r].role, by |-> i]
        /\ \A u \in Tenants, d \in Emails : u # t \/ d # e => member'[u][d] = member[u][d]
    BY <1>6, <1>a, <2>1 DEF Invite, InvitedStatus, TypeOK
  <2>3. /\ \A q \in Requests : req'[q].op = req[q].op /\ req'[q].tenant = req[q].tenant
              /\ req'[q].user = req[q].user /\ req'[q].actor = req[q].actor
              /\ req'[q].role = req[q].role
        /\ \A q \in Requests : q # r => req'[q].at = req[q].at
        /\ UNCHANGED <<slug, session, audit, founder>>
        /\ req[r].at = "invite"
    BY <1>6, <1>a DEF Invite, Goto, TypeOK, Request
  <2>5. RequestsOfFounders'
    BY <1>6, <1>a, <2>1, <2>3, RequestsGo DEF Invite
  <2> HIDE DEF t, e, i
  <2>4. UnfoundedUntilCreated'
    BY <1>a, <2>3 DEF UnfoundedUntilCreated, Exists
  <2>6. ActsOfFounders'
    <3>1. ASSUME NEW u \in Tenants, NEW d \in Emails, NEW x \in Emails, member'[u][x].by = d
          PROVE  founder'[u].user = d
      <4>1. CASE u = t /\ x = e
        BY <2>1, <2>2, <2>3, <3>1, <4>1
      <4>2. CASE u # t \/ x # e
        BY <1>a, <2>2, <2>3, <3>1, <4>2 DEF ActsOfFounders
      <4>3. QED
        BY <4>1, <4>2
    <3>2. \A u \in Tenants, d \in Emails :
            /\ <<u, d>> \in session' => founder'[u].user = d
            /\ \A action \in AuditActions : <<action, d>> \in audit'[u] => founder'[u].user = d
      BY <1>a, <2>3 DEF ActsOfFounders
    <3>3. QED
      BY <3>1, <3>2 DEF ActsOfFounders
  <2>7. OwnersFounded'
    BY <1>a, <2>1, <2>2, <2>3 DEF OwnersFounded
  <2>8. QED
    BY <2>4, <2>5, <2>6, <2>7 DEF Founding
<1>7. ASSUME NEW r \in Requests, TrySlug(r) PROVE Founding'
  <2>1. CASE req' = [req EXCEPT ![r].n = @ + 1]
    <3>1. /\ \A q \in Requests : q # r => req'[q] = req[q]
          /\ req'[r].op = req[r].op /\ req'[r].at = "slug" /\ req[r].at = "slug"
      BY <1>7, <1>a, <2>1 DEF TrySlug, TypeOK, Request
    <3>2. req[r].op # "invite"
      BY <3>1, AtWork DEF WellFormed
    <3>3. QED
      BY <1>7, <3>1, <3>2, FoundingMove DEF TrySlug
  <2>2. CASE Goto(r, "createTenant")
    BY <1>7, <1>c, <2>2 DEF TrySlug
  <2>3. QED
    BY <1>7, <2>1, <2>2 DEF TrySlug
<1>8. ASSUME NEW r \in Requests, NEW t \in Tenants, CreateTenant(r, t),
             req' = [req EXCEPT ![r] = [@ EXCEPT !.at = "record", !.tenant = t]],
             slug' = [slug EXCEPT ![t] = Candidate(req[r])],
             founder' = [founder EXCEPT ![t] = [user |-> req[r].user, name |-> req[r].name]],
             member' = [member EXCEPT ![t][req[r].user] =
                           [status |-> "ACTIVE", role |-> "OWNER", by |-> NoEmail]]
      PROVE  Founding'
  <2> DEFINE e == req[r].user
             new == Candidate(req[r])
             owner == [status |-> "ACTIVE", role |-> "OWNER", by |-> NoEmail]
  <2>1. /\ e \in Emails /\ e # NoEmail /\ req[r].op # "invite"
        /\ new \in Slugs /\ new # NoSlug /\ founder[t].user = NoEmail
    BY <1>8, <1>a, AtWork, CandidateIsSlug, TenancyAssumption
       DEF CreateTenant, WellFormed, UnfoundedUntilCreated
  <2>2. owner.status = "ACTIVE" /\ owner.role = "OWNER" /\ owner.by = NoEmail
    OBVIOUS
  <2>3. /\ member'[t][e] = owner
        /\ \A u \in Tenants, d \in Emails : u # t \/ d # e => member'[u][d] = member[u][d]
    BY <1>8, <1>a, <2>1 DEF TypeOK
  <2>4. /\ \A q \in Requests : q # r => req'[q] = req[q]
        /\ req'[r].op = req[r].op /\ req'[r].tenant = t /\ req'[r].user = e
    BY <1>8, <1>a DEF TypeOK, Request
  <2>5. founder'[t].user = e /\ \A u \in Tenants : u # t => founder'[u] = founder[u]
    BY <1>8, <1>a DEF TypeOK
  <2>6. slug'[t] = new /\ \A u \in Tenants : u # t => slug'[u] = slug[u]
    BY <1>8, <1>a DEF TypeOK
  <2>7. UNCHANGED <<session, audit>>
    BY <1>8 DEF CreateTenant
  <2> HIDE DEF e, new, owner
  <2>8. UnfoundedUntilCreated'
    BY <1>a, <2>1, <2>5, <2>6 DEF UnfoundedUntilCreated, Exists
  <2>9. RequestsOfFounders'
    <3> SUFFICES ASSUME NEW q \in Requests
                 PROVE  /\ req'[q].at # "idle" /\ req'[q].op = "invite" =>
                             founder'[req'[q].tenant].user = req'[q].actor /\ req'[q].role # "OWNER"
                        /\ req'[q].at \in {"record", "member", "issue"} /\ req'[q].op # "invite" =>
                             founder'[req'[q].tenant].user = req'[q].user
      BY DEF RequestsOfFounders
    <3>1. CASE q = r
      BY <2>1, <2>4, <2>5, <3>1
    <3>2. CASE q # r
      BY <1>a, <2>1, <2>4, <2>5, <3>2, AtWork, TenancyAssumption DEF RequestsOfFounders, WellFormed
    <3>3. QED
      BY <3>1, <3>2
  <2>10. ActsOfFounders'
    <3>1. ASSUME NEW u \in Tenants, NEW d \in Emails, founder[u].user = d
          PROVE  founder'[u].user = d
      BY <2>1, <2>5, <3>1, TenancyAssumption
    <3>2. \A u \in Tenants, d \in Emails : <<u, d>> \in session' => founder'[u].user = d
      BY <1>a, <2>7, <3>1 DEF ActsOfFounders
    <3>3. \A u \in Tenants, d \in Emails : \A action \in AuditActions :
            <<action, d>> \in audit'[u] => founder'[u].user = d
      BY <1>a, <2>7, <3>1 DEF ActsOfFounders
    <3>4. ASSUME NEW u \in Tenants, NEW d \in Emails, NEW i \in Emails, member'[u][i].by = d
          PROVE  founder'[u].user = d
      <4>1. u # t \/ i # e
        BY <2>2, <2>3, <3>4, TenancyAssumption
      <4>2. member[u][i].by = d
        BY <2>3, <3>4, <4>1
      <4>3. QED
        BY <1>a, <3>1, <4>2 DEF ActsOfFounders
    <3>5. QED
      BY <3>2, <3>3, <3>4 DEF ActsOfFounders
  <2>11. OwnersFounded'
    BY <1>a, <2>1, <2>2, <2>3, <2>5, TenancyAssumption DEF OwnersFounded
  <2>12. QED
    BY <2>8, <2>9, <2>10, <2>11 DEF Founding
<1>9. ASSUME NEW r \in Requests, Record(r) PROVE Founding'
  <2> DEFINE t == req[r].tenant
  <2>1. PICK action \in AuditActions, actor \in Emails :
          /\ audit' = [audit EXCEPT ![t] = @ \cup {<<action, actor>>}]
          /\ founder[t].user = actor
    BY <1>9, <1>a, AtWork DEF Record, WellFormed, RequestsOfFounders
  <2>2. t \in Tenants
    BY <1>9, AtWork DEF Record, WellFormed
  <2>3. UnfoundedUntilCreated' /\ OwnersFounded'
    BY <1>9, <1>a DEF Record, UnfoundedUntilCreated, OwnersFounded, Exists
  <2>4. ActsOfFounders'
    <3>1. \A u \in Tenants : \A x : x \in audit'[u] => x \in audit[u] \/ (u = t /\ x = <<action, actor>>)
      BY <1>a, <2>1, <2>2 DEF TypeOK
    <3>2. UNCHANGED <<session, member, founder>>
      BY <1>9 DEF Record
    <3>3. ASSUME NEW u \in Tenants, NEW d \in Emails, NEW a \in AuditActions,
                 <<a, d>> \in audit'[u]
          PROVE  founder'[u].user = d
      <4>1. CASE <<a, d>> \in audit[u]
        BY <1>a, <3>2, <4>1 DEF ActsOfFounders
      <4>2. CASE u = t /\ <<a, d>> = <<action, actor>>
        BY <2>1, <3>2, <4>2
      <4>3. QED
        BY <3>1, <3>3, <4>1, <4>2
    <3>4. \A u \in Tenants, d \in Emails :
            /\ <<u, d>> \in session' => founder'[u].user = d
            /\ \A i \in Emails : member'[u][i].by = d => founder'[u].user = d
      BY <1>a, <3>2 DEF ActsOfFounders
    <3>5. QED
      BY <3>3, <3>4 DEF ActsOfFounders
  <2>5. RequestsOfFounders'
    <3>1. req[r].op # "invite" => founder[req[r].tenant].user = req[r].user
      BY <1>9, <1>a DEF Record, RequestsOfFounders
    <3>2. QED
      BY <1>9, <1>a, <3>1, RequestsGo DEF Record
  <2>6. QED
    BY <2>3, <2>4, <2>5 DEF Founding
<1>10. ASSUME NEW r \in Requests, Issue(r) PROVE Founding'
  <2>1. founder[req[r].tenant].user = req[r].user /\ req[r].op # "invite"
    BY <1>10, <1>a, AtWork DEF Issue, WellFormed, RequestsOfFounders
  <2>2. UnfoundedUntilCreated' /\ OwnersFounded'
    BY <1>10, <1>a DEF Issue, UnfoundedUntilCreated, OwnersFounded, Exists
  <2>3. ActsOfFounders'
    <3>1. session' = session \cup {<<req[r].tenant, req[r].user>>}
      BY <1>10 DEF Issue
    <3>2. UNCHANGED <<member, audit, founder>>
      BY <1>10 DEF Issue
    <3>3. ASSUME NEW u \in Tenants, NEW d \in Emails, <<u, d>> \in session'
          PROVE  founder'[u].user = d
      <4>1. CASE <<u, d>> \in session
        BY <1>a, <3>2, <4>1 DEF ActsOfFounders
      <4>2. CASE u = req[r].tenant /\ d = req[r].user
        BY <2>1, <3>2, <4>2
      <4>3. QED
        BY <3>1, <3>3, <4>1, <4>2
    <3>4. QED
      BY <1>a, <3>2, <3>3 DEF ActsOfFounders
  <2>4. RequestsOfFounders'
    BY <1>10, <1>a, <2>1, RequestsGo DEF Issue
  <2>5. QED
    BY <2>2, <2>3, <2>4 DEF Founding
<1>11. ASSUME NEW r \in Requests, NEW t \in Tenants, CreateTenant(r, t) PROVE Founding'
  BY <1>11, <1>8, <1>b DEF CreateTenant
<1>12. ASSUME NEW r \in Requests, FindUser(r) \/ RejectName(r) \/ CheckMember(r) \/ Fail(r)
       PROVE  Founding'
  BY <1>12, <1>b, <1>c DEF FindUser, RejectName, CheckMember, Fail
<1>13. QED
  BY <1>d, <1>1, <1>2, <1>3, <1>4, <1>5, <1>6, <1>7, <1>9, <1>10, <1>11, <1>12
     DEF Next, Start, Step, vars, RefuseRegister

(* THEOREM 2.  Active members are the owners, and owners founded the tenant. *)
THEOREM OwnersAreFounders == Spec => []OwnersFounded
<1>1. Founding => OwnersFounded
  BY DEF Founding
<1>2. Typed /\ Founding /\ [Next]_vars => (Typed /\ Founding)'
  BY TypedStep, FoundingStep
<1>3. QED
  BY <1>1, <1>2, TypedInit, FoundingInit, PTL DEF Spec

(* THEOREM 3.  Sessions, audit records and invitations of a tenant name its  *)
(* founder only.                                                             *)
THEOREM ActorsAreFounders == Spec => []OnlyFoundersAct
<1>1. Founding => OnlyFoundersAct
  BY DEF Founding, ActsOfFounders, OnlyFoundersAct
<1>2. Typed /\ Founding /\ [Next]_vars => (Typed /\ Founding)'
  BY TypedStep, FoundingStep
<1>3. QED
  BY <1>1, <1>2, TypedInit, FoundingInit, PTL DEF Spec

-----------------------------------------------------------------------------
(* What a step is to addresses, slugs and the requests that search a slug:   *)
(* one request moves, in one of five ways.                                   *)
Alone(r) == \A q \in Requests : q # r => req'[q] = req[q]

(* It does not search, before or after, or it goes on searching.             *)
Keeps(r) ==
  /\ UNCHANGED <<user, slug, founder, lost>>
  /\ \/ req[r].at \notin Searching /\ req'[r].at \notin Searching
     \/ /\ req[r].at \in Searching /\ req'[r].at \in Searching
        /\ req'[r].op = req[r].op /\ req'[r].user = req[r].user /\ req'[r].name = req[r].name
        /\ \/ req'[r].n = req[r].n
           \/ req'[r].n = req[r].n + 1 /\ Taken(Candidate(req[r]))

(* It begins to search: a founder who wants another tenant, or a new user.   *)
Enters(r) ==
  /\ req[r].at \notin Searching /\ req'[r].at = "slug" /\ req'[r].n = 1
  /\ req'[r].user \in Emails
  /\ UNCHANGED <<slug, founder, lost>>
  /\ \/ /\ req'[r].op = "create" /\ UNCHANGED user
        /\ \E t \in Tenants : founder[t].user = req'[r].user
     \/ /\ req'[r].op = "register" /\ user[req'[r].user] = "NONE"
        /\ user' = [user EXCEPT ![req'[r].user] = "ACTIVE"]

(* It creates an invited user.                                               *)
Invites(r) ==
  /\ req[r].at \notin Searching /\ req'[r].at \notin Searching
  /\ UNCHANGED <<slug, founder, lost>>
  /\ \E e \in Emails : user[e] = "NONE" /\ user' = [user EXCEPT ![e] = "INVITED"]

(* It gives up searching.                                                    *)
Drops(r) ==
  /\ req[r].at \in Searching /\ req'[r].at \notin Searching
  /\ lost' = lost \cup LostWith(r)
  /\ UNCHANGED <<user, slug, founder>>

(* It founds a tenant.                                                       *)
Founds(r) ==
  /\ req[r].at \in Searching /\ req'[r].at \notin Searching
  /\ SlugsOf[req[r].name] # <<>>
  /\ \E t \in Tenants :
       /\ ~Exists(t) /\ ~Taken(Candidate(req[r]))
       /\ slug' = [slug EXCEPT ![t] = Candidate(req[r])]
       /\ founder' = [founder EXCEPT ![t] = [user |-> req[r].user, name |-> req[r].name]]
  /\ UNCHANGED <<user, lost>>

Moves(r) == Keeps(r) \/ Enters(r) \/ Invites(r) \/ Drops(r) \/ Founds(r)

LEMMA OneMoves ==
  ASSUME Typed, Founding, [Next]_vars, ~UNCHANGED vars
  PROVE  \E r \in Requests : Alone(r) /\ Moves(r)
<1>a. req \in [Requests -> Request] /\ \A r \in Requests : WellFormed(req[r]) /\ req[r] \in Request
  BY DEF Typed, TypeOK
<1> USE DEF tables
<1>b. ASSUME NEW r \in Requests, Finish(r)
      PROVE  Alone(r) /\ req'[r].at = "idle"
  BY <1>a, <1>b, IdleIsRequest DEF Finish, Alone
<1>c. ASSUME NEW r \in Requests, NEW place, Goto(r, place)
      PROVE  /\ Alone(r) /\ req'[r].at = place /\ req'[r].op = req[r].op
             /\ req'[r].user = req[r].user /\ req'[r].name = req[r].name /\ req'[r].n = req[r].n
  BY <1>a, <1>c DEF Goto, Alone, Request
<1>d. ASSUME NEW r \in Requests, Finish(r), lost' = lost \cup LostWith(r),
             UNCHANGED <<user, slug, founder>>
      PROVE  Alone(r) /\ (Drops(r) \/ Keeps(r))
  <2>1. CASE req[r].at \in Searching
    BY <1>b, <1>d, <2>1 DEF Drops
  <2>2. CASE req[r].at \notin Searching
    <3>1. LostWith(r) = {}
      BY <2>2 DEF LostWith, Between
    <3>2. QED
      BY <1>b, <1>d, <2>2, <3>1 DEF Keeps
  <2>3. QED
    BY <2>1, <2>2
<1>1. ASSUME NEW r \in Requests, Start(r), ~UNCHANGED vars
      PROVE  Alone(r) /\ (Keeps(r) \/ Enters(r))
  <2>1. req[r].at = "idle"
    BY <1>1 DEF Start, RefuseRegister, StartRegister, Login, StartCreate, StartInvite
  <2>2. ASSUME NEW e \in Emails, NEW t \in Tenants, NEW name \in Names, StartCreate(r, e, t, name)
        PROVE  Alone(r) /\ Enters(r)
    <3>1. /\ Alone(r)
          /\ req'[r].at = "slug" /\ req'[r].n = 1 /\ req'[r].op = "create" /\ req'[r].user = e
      BY <1>a, <2>2 DEF StartCreate, Alone, Idle
    <3>2. founder[t].user = e
      BY <2>2 DEF StartCreate, Admitted, Founding, OwnersFounded
    <3>3. UNCHANGED <<user, slug, founder, lost>>
      BY <2>2 DEF StartCreate
    <3>4. QED
      BY <2>1, <3>1, <3>2, <3>3 DEF Enters
  <2>3. ASSUME NEW rq, req' = [req EXCEPT ![r] = rq], rq.at \notin Searching,
               UNCHANGED <<user, slug, founder, lost>>
        PROVE  Alone(r) /\ Keeps(r)
    BY <1>a, <2>1, <2>3 DEF Alone, Keeps
  <2>4. ASSUME NEW e \in Emails, NEW name \in Names, StartRegister(r, e, name)
        PROVE  Alone(r) /\ Keeps(r)
    BY <2>3, <2>4 DEF StartRegister, Idle
  <2>5. ASSUME NEW e \in Emails, NEW t \in Tenants, Login(r, e, t)
        PROVE  Alone(r) /\ Keeps(r)
    BY <2>3, <2>5 DEF Login, Idle
  <2>6. ASSUME NEW e \in Emails, NEW invitee \in Emails, NEW t \in Tenants,
               NEW into \in Tenants, NEW role \in Roles, StartInvite(r, e, t, into, invitee, role)
        PROVE  Alone(r) /\ Keeps(r)
    BY <2>3, <2>6 DEF StartInvite, Idle
  <2>7. QED
    BY <1>1, <2>2, <2>4, <2>5, <2>6 DEF Start, RefuseRegister
<1>2. ASSUME NEW r \in Requests, CreateUser(r) PROVE Alone(r) /\ Moves(r)
  <2>1. req[r].user \in Emails /\ req[r].at = "createUser"
    BY <1>a, <1>2 DEF CreateUser, WellFormed
  <2>2. CASE req[r].op = "register" /\ user[req[r].user] = "NONE"
             /\ user' = [user EXCEPT ![req[r].user] = "ACTIVE"]
             /\ req' = [req EXCEPT ![r] = [@ EXCEPT !.at = "slug", !.n = 1]]
    <3>1. /\ Alone(r)
          /\ req'[r].at = "slug" /\ req'[r].n = 1 /\ req'[r].op = "register"
          /\ req'[r].user = req[r].user
      BY <1>a, <2>2 DEF Alone, Request
    <3>2. QED
      BY <1>2, <2>1, <2>2, <3>1 DEF CreateUser, Enters, Moves
  <2>3. CASE user[req[r].user] = "NONE" /\ user' = [user EXCEPT ![req[r].user] = "INVITED"]
             /\ Goto(r, "invite")
    <3>1. Alone(r) /\ req'[r].at = "invite"
      BY <1>c, <2>3
    <3>2. UNCHANGED <<slug, founder, lost>>
      BY <1>2 DEF CreateUser
    <3>3. Invites(r)
      BY <2>1, <2>3, <3>1, <3>2 DEF Invites
    <3>4. QED
      BY <3>1, <3>3 DEF Moves
  <2>4. CASE Finish(r) /\ UNCHANGED user
    BY <1>2, <1>b, <2>1, <2>4 DEF CreateUser, Keeps, Moves
  <2>5. QED
    BY <1>2, <2>2, <2>3, <2>4 DEF CreateUser, EmailFree
<1>3. ASSUME NEW r \in Requests, TrySlug(r) PROVE Alone(r) /\ Keeps(r)
  <2>1. CASE Taken(Candidate(req[r])) /\ req' = [req EXCEPT ![r].n = @ + 1]
    <3>1. /\ Alone(r) /\ req'[r].at = req[r].at /\ req'[r].op = req[r].op
          /\ req'[r].user = req[r].user /\ req'[r].name = req[r].name /\ req'[r].n = req[r].n + 1
      BY <1>a, <2>1 DEF Alone, Request
    <3>2. QED
      BY <1>3, <2>1, <3>1 DEF TrySlug, Keeps
  <2>2. CASE Goto(r, "createTenant")
    BY <1>3, <1>c, <2>2 DEF TrySlug, Keeps
  <2>3. QED
    BY <1>3, <2>1, <2>2 DEF TrySlug
<1>4. ASSUME NEW r \in Requests, NEW t \in Tenants, CreateTenant(r, t) PROVE Alone(r) /\ Moves(r)
  <2>1. CASE req' = [req EXCEPT ![r] = [@ EXCEPT !.at = "record", !.tenant = t]]
             /\ ~Taken(Candidate(req[r]))
             /\ slug' = [slug EXCEPT ![t] = Candidate(req[r])]
             /\ founder' = [founder EXCEPT ![t] = [user |-> req[r].user, name |-> req[r].name]]
             /\ UNCHANGED lost
    <3>1. Alone(r) /\ req'[r].at = "record"
      BY <1>a, <2>1 DEF Alone, Request
    <3>2. SlugsOf[req[r].name] # <<>>
      BY <1>a, <1>4 DEF CreateTenant, WellFormed
    <3>3. QED
      BY <1>4, <2>1, <3>1, <3>2 DEF CreateTenant, Founds, Moves
  <2>2. CASE Finish(r) /\ lost' = lost \cup LostWith(r) /\ UNCHANGED <<slug, founder>>
    BY <1>4, <1>d, <2>2 DEF CreateTenant, Moves
  <2>3. QED
    BY <1>4, <2>1, <2>2 DEF CreateTenant
<1>5. ASSUME NEW r \in Requests, RejectName(r) \/ Fail(r) PROVE Alone(r) /\ Moves(r)
  BY <1>5, <1>d DEF RejectName, Fail, Moves
<1>6. ASSUME NEW r \in Requests,
             FindUser(r) \/ Invite(r) \/ Record(r) \/ CheckMember(r) \/ Issue(r)
      PROVE  Alone(r) /\ Keeps(r)
  <2>1. UNCHANGED <<user, slug, founder, lost>> /\ req[r].at \notin Searching
    BY <1>6 DEF FindUser, Invite, Record, CheckMember, Issue
  <2>2. \/ Finish(r)
        \/ \E place \in {"createUser", "invite", "record", "member", "issue"} : Goto(r, place)
    BY <1>6 DEF FindUser, Invite, Record, CheckMember, Issue
  <2>3. QED
    BY <1>b, <1>c, <2>1, <2>2 DEF Keeps
<1>7. PICK r \in Requests : Start(r) \/ Step(r) \/ Fail(r)
  BY DEF Next
<1>8. QED
  BY <1>1, <1>2, <1>3, <1>4, <1>5, <1>6, <1>7 DEF Step, Moves

-----------------------------------------------------------------------------
(* What is known of addresses: a lost user is no founder and is not being    *)
(* registered, nor is one that is being registered, which only one request   *)
(* does; founders are users; and whoever asks for another tenant founded one.*)
LostIsOut ==
  \A e \in lost :
    /\ user[e] # "NONE"
    /\ \A t \in Tenants : founder[t].user # e
    /\ \A r \in Requests : Between(r) => req[r].user # e

BetweenIsNew ==
  \A r \in Requests : Between(r) =>
    /\ user[req[r].user] # "NONE"
    /\ \A t \in Tenants : founder[t].user # req[r].user
    /\ \A q \in Requests : Between(q) /\ req[q].user = req[r].user => q = r

FoundersAreUsers ==
  \A t \in Tenants, e \in Emails : founder[t].user = e => user[e] # "NONE"

CreatorsFounded ==
  \A r \in Requests : req[r].at \in Searching /\ req[r].op = "create" =>
    \E t \in Tenants : founder[t].user = req[r].user

Registering ==
  LostIsOut /\ BetweenIsNew /\ FoundersAreUsers /\ CreatorsFounded /\ StrandedHasCause

LEMMA RegisteringInit == Init => Registering
BY TenancyAssumption
   DEF Init, Registering, LostIsOut, BetweenIsNew, FoundersAreUsers, CreatorsFounded,
       StrandedHasCause, Between, Idle

(* Who is between its two transactions after a step in which r moves.        *)
LEMMA BetweenAfter ==
  ASSUME NEW r \in Requests, Alone(r)
  PROVE  /\ \A q \in Requests : q # r => (Between(q)' <=> Between(q)) /\ req'[q].user = req[q].user
         /\ req'[r].at \notin Searching => ~Between(r)'
         /\ req[r].at \notin Searching => ~Between(r)
         /\ Between(r)' <=> req'[r].at \in Searching /\ req'[r].op = "register"
         /\ Between(r) <=> req[r].at \in Searching /\ req[r].op = "register"
BY DEF Alone, Between

(* A step after which the same requests are between, for the same users.     *)
LEMMA RegisteringSame ==
  ASSUME Typed, Registering, NEW r \in Requests, Alone(r), UNCHANGED <<founder, lost>>,
         Between(r)' <=> Between(r), Between(r) => req'[r].user = req[r].user,
         req'[r].at \in Searching /\ req'[r].op = "create" =>
           \E t \in Tenants : founder[t].user = req'[r].user,
         \A e \in Emails : user'[e] = user[e] \/ (user[e] = "NONE" /\ user'[e] = "INVITED")
  PROVE  Registering'
<1>1. \A q \in Requests : (Between(q)' <=> Between(q)) /\ (Between(q) => req'[q].user = req[q].user)
  BY BetweenAfter
<1>2. \A q \in Requests : Between(q) => req[q].user \in Emails
  BY AtWork DEF Between, WellFormed
<1>3. lost \subseteq Emails
  BY DEF Typed, TypeOK
<1>4. LostIsOut'
  BY <1>1, <1>3 DEF Registering, LostIsOut
<1>5. BetweenIsNew'
  BY <1>1, <1>2 DEF Registering, BetweenIsNew
<1>6. FoundersAreUsers'
  BY DEF Registering, FoundersAreUsers
<1>7. CreatorsFounded'
  BY DEF Registering, CreatorsFounded, Alone
<1>8. StrandedHasCause'
  BY <1>1 DEF Registering, StrandedHasCause
<1>9. QED
  BY <1>4, <1>5, <1>6, <1>7, <1>8 DEF Registering

LEMMA RegisteringStep ==
  ASSUME Typed, Founding, Registering, [Next]_vars
  PROVE  Registering'
<1>1. CASE UNCHANGED vars
  BY <1>1 DEF Registering, LostIsOut, BetweenIsNew, FoundersAreUsers, CreatorsFounded,
              StrandedHasCause, Between, vars
<1> SUFFICES ASSUME ~UNCHANGED vars PROVE Registering'
  BY <1>1
<1>2. PICK r \in Requests : Alone(r) /\ Moves(r)
  BY OneMoves
<1>a. /\ lost \subseteq Emails /\ user \in [Emails -> UserStatuses]
      /\ founder \in [Tenants -> [user : Emails \cup {NoEmail}, name : Names \cup {NoName}]]
      /\ \A q \in Requests : Between(q) => req[q].user \in Emails
  BY AtWork DEF Typed, TypeOK, Between, WellFormed
<1>b. /\ LostIsOut /\ BetweenIsNew /\ FoundersAreUsers /\ CreatorsFounded /\ StrandedHasCause
      /\ UnfoundedUntilCreated
  BY DEF Registering, Founding
<1>c. /\ \A q \in Requests : q # r => (Between(q)' <=> Between(q)) /\ req'[q].user = req[q].user
      /\ req'[r].at \notin Searching => ~Between(r)'
      /\ req[r].at \notin Searching => ~Between(r)
      /\ Between(r)' <=> req'[r].at \in Searching /\ req'[r].op = "register"
      /\ Between(r) <=> req[r].at \in Searching /\ req[r].op = "register"
  BY <1>2, BetweenAfter
<1>3. CASE Keeps(r)
  <2>1. UNCHANGED <<user, founder, lost>> /\ (Between(r)' <=> Between(r))
    BY <1>3, <1>c DEF Keeps
  <2>2. req'[r].at \in Searching =>
          req[r].at \in Searching /\ req'[r].op = req[r].op /\ req'[r].user = req[r].user
    BY <1>3 DEF Keeps
  <2>3. Between(r) => req'[r].user = req[r].user
    BY <1>c, <2>1, <2>2
  <2>4. req'[r].at \in Searching /\ req'[r].op = "create" =>
          \E t \in Tenants : founder[t].user = req'[r].user
    BY <1>b, <2>2 DEF CreatorsFounded
  <2>5. QED
    BY <1>2, <2>1, <2>3, <2>4, RegisteringSame
<1>4. CASE Invites(r)
  <2>1. \A e \in Emails : user'[e] = user[e] \/ (user[e] = "NONE" /\ user'[e] = "INVITED")
    BY <1>4, <1>a DEF Invites
  <2>2. QED
    BY <1>2, <1>4, <1>c, <2>1, RegisteringSame DEF Invites
<1>5. CASE Enters(r)
  <2> DEFINE e == req'[r].user
  <2>0. /\ ~Between(r) /\ req'[r].at = "slug" /\ e \in Emails /\ UNCHANGED <<founder, lost>>
    BY <1>5, <1>c DEF Enters
  <2>1. CASE req'[r].op = "create" /\ UNCHANGED user /\ \E t \in Tenants : founder[t].user = e
    <3>1. (Between(r)' <=> Between(r)) /\ UNCHANGED user
      BY <1>c, <2>0, <2>1
    <3>2. QED
      BY <1>2, <2>0, <2>1, <3>1, RegisteringSame
  <2>2. CASE /\ req'[r].op = "register" /\ user[e] = "NONE"
             /\ user' = [user EXCEPT ![e] = "ACTIVE"]
    <3>1. /\ user'[e] = "ACTIVE" /\ \A d \in Emails : d # e => user'[d] = user[d]
          /\ Between(r)'
      BY <1>a, <1>c, <2>0, <2>2
    <3>2. /\ e \notin lost /\ \A t \in Tenants : founder[t].user # e
          /\ \A q \in Requests : Between(q) => req[q].user # e
      BY <1>b, <2>0, <2>2 DEF LostIsOut, BetweenIsNew, FoundersAreUsers
    <3>e. req'[r].user = e
      OBVIOUS
    <3> HIDE DEF e
    <3>3. LostIsOut'
      BY <1>a, <1>b, <1>c, <2>0, <3>1, <3>2, <3>e DEF LostIsOut
    <3>4. BetweenIsNew'
      BY <1>a, <1>b, <1>c, <2>0, <3>1, <3>2, <3>e DEF BetweenIsNew
    <3>5. FoundersAreUsers'
      BY <1>b, <2>0, <3>1 DEF FoundersAreUsers
    <3>6. CreatorsFounded'
      BY <1>2, <1>b, <2>0, <2>2 DEF CreatorsFounded, Alone
    <3>7. StrandedHasCause'
      BY <1>b, <1>c, <2>0, <3>1, <3>e DEF StrandedHasCause
    <3>8. QED
      BY <3>3, <3>4, <3>5, <3>6, <3>7 DEF Registering
  <2>3. QED
    BY <1>5, <2>1, <2>2 DEF Enters
<1>6. CASE Drops(r)
  <2>1. UNCHANGED <<user, founder>> /\ ~Between(r)' /\ lost' = lost \cup LostWith(r)
    BY <1>6, <1>c DEF Drops
  <2>2. LostIsOut'
    BY <1>a, <1>b, <1>c, <2>1 DEF LostIsOut, BetweenIsNew, LostWith
  <2>3. BetweenIsNew'
    BY <1>b, <1>c, <2>1 DEF BetweenIsNew
  <2>4. FoundersAreUsers'
    BY <1>b, <2>1 DEF FoundersAreUsers
  <2>5. CreatorsFounded'
    BY <1>2, <1>6, <1>b, <2>1 DEF CreatorsFounded, Alone, Drops
  <2>6. StrandedHasCause'
    <3> SUFFICES ASSUME NEW e \in Emails, user[e] = "ACTIVE",
                        \A t \in Tenants : founder[t].user # e, e \notin lost'
                 PROVE  \E q \in Requests : Between(q)' /\ req'[q].user = e
      BY <2>1 DEF StrandedHasCause
    <3>1. PICK q \in Requests : Between(q) /\ req[q].user = e
      BY <1>b, <2>1 DEF StrandedHasCause
    <3>2. q # r
      BY <2>1, <3>1 DEF LostWith
    <3>3. QED
      BY <1>c, <3>1, <3>2
  <2>7. QED
    BY <2>2, <2>3, <2>4, <2>5, <2>6 DEF Registering
<1>7. CASE Founds(r)
  <2> DEFINE e == req[r].user
  <2>1. PICK t \in Tenants :
          /\ ~Exists(t)
          /\ founder' = [founder EXCEPT ![t] = [user |-> e, name |-> req[r].name]]
    BY <1>7 DEF Founds
  <2>2. UNCHANGED <<user, lost>> /\ ~Between(r)' /\ e \in Emails
    BY <1>7, <1>c, AtWork DEF Founds, WellFormed
  <2>3. /\ founder'[t].user = e /\ founder[t].user = NoEmail
        /\ \A u \in Tenants : u # t => founder'[u] = founder[u]
    BY <1>a, <1>b, <2>1 DEF UnfoundedUntilCreated
  <2>4. user[e] # "NONE" /\ e \notin lost /\ \A q \in Requests : q # r /\ Between(q) => req[q].user # e
    <3>1. CASE req[r].op = "register"
      <4>1. Between(r)
        BY <1>7, <1>c, <3>1 DEF Founds
      <4>2. QED
        BY <1>b, <4>1 DEF LostIsOut, BetweenIsNew
    <3>2. CASE req[r].op = "create"
      <4>1. PICK u \in Tenants : founder[u].user = e
        BY <1>7, <1>b, <3>2 DEF Founds, CreatorsFounded
      <4>2. QED
        BY <1>b, <2>2, <4>1 DEF LostIsOut, BetweenIsNew, FoundersAreUsers
    <3>3. QED
      BY <1>7, <3>1, <3>2, AtWork DEF Founds, WellFormed
  <2>5. \A d \in Emails : (\E u \in Tenants : founder[u].user = d) => \E u \in Tenants : founder'[u].user = d
    BY <2>3, TenancyAssumption
  <2>6. e = req[r].user
    OBVIOUS
  <2> HIDE DEF e
  <2>7. LostIsOut'
    BY <1>a, <1>b, <1>c, <2>2, <2>3, <2>4 DEF LostIsOut
  <2>8. BetweenIsNew'
    BY <1>b, <1>c, <2>2, <2>3, <2>4 DEF BetweenIsNew
  <2>9. FoundersAreUsers'
    BY <1>b, <2>2, <2>3, <2>4 DEF FoundersAreUsers
  <2>10. CreatorsFounded'
    <3>1. ASSUME NEW q \in Requests, req'[q].at \in Searching, req'[q].op = "create"
          PROVE  \E u \in Tenants : founder'[u].user = req'[q].user
      <4>1. q # r /\ req'[q] = req[q]
        BY <1>2, <1>7, <3>1 DEF Founds, Alone
      <4>2. req[q].user \in Emails
        BY <3>1, <4>1, AtWork DEF WellFormed
      <4>3. QED
        BY <1>b, <2>5, <3>1, <4>1, <4>2 DEF CreatorsFounded
    <3>2. QED
      BY <3>1 DEF CreatorsFounded
  <2>11. StrandedHasCause'
    <3> SUFFICES ASSUME NEW d \in Emails, user[d] = "ACTIVE",
                        \A u \in Tenants : founder'[u].user # d, d \notin lost
                 PROVE  \E q \in Requests : Between(q)' /\ req'[q].user = d
      BY <2>2 DEF StrandedHasCause
    <3>1. PICK q \in Requests : Between(q) /\ req[q].user = d
      BY <1>b, <2>5 DEF StrandedHasCause
    <3>2. q # r
      BY <2>3, <2>6, <3>1
    <3>3. QED
      BY <1>c, <3>1, <3>2
  <2>12. QED
    BY <2>7, <2>8, <2>9, <2>10, <2>11 DEF Registering
<1>8. QED
  BY <1>2, <1>3, <1>4, <1>5, <1>6, <1>7 DEF Moves

LEMMA RegisteringHolds == Spec => [](Typed /\ Founding /\ Registering)
<1>1. Typed /\ Founding /\ Registering /\ [Next]_vars => (Typed /\ Founding /\ Registering)'
  BY TypedStep, FoundingStep, RegisteringStep
<1>2. QED
  BY <1>1, TypedInit, FoundingInit, RegisteringInit, PTL DEF Spec

(* THEOREM 4.  An active user without a tenant is being registered, or its   *)
(* registration ended between its two transactions.                          *)
THEOREM StrandedUsersHaveCause == Spec => []StrandedHasCause
<1>1. Registering => StrandedHasCause
  BY DEF Registering
<1>2. QED
  BY <1>1, RegisteringHolds, PTL

(* THEOREM 5.  A user lost in registration never founds a tenant.            *)
THEOREM LostUsersStayOut == Spec => []LostStayOut
<1>1. Registering => LostStayOut
  BY DEF Registering, LostIsOut, LostStayOut
<1>2. QED
  BY <1>1, RegisteringHolds, PTL

-----------------------------------------------------------------------------
(* The slugs a request has passed over are in use.                           *)
Passed(rq) ==
  rq.at \in Searching =>
    \A m \in 1..Len(SlugsOf[rq.name]) : m < rq.n => Taken(SlugsOf[rq.name][m])

NamedOnceCreated == \A t \in Tenants : Exists(t) => founder[t].name \in Names

Dense == SuffixesDense /\ NamedOnceCreated /\ \A r \in Requests : Passed(req[r])

LEMMA DenseInit == Init => Dense
BY DEF Init, Dense, SuffixesDense, NamedOnceCreated, Passed, Idle, Exists

LEMMA DenseStep ==
  ASSUME Typed, Founding, Dense, [Next]_vars
  PROVE  Dense'
<1>1. CASE UNCHANGED vars
  BY <1>1 DEF Dense, SuffixesDense, NamedOnceCreated, Passed, Exists, Taken, vars
<1> SUFFICES ASSUME ~UNCHANGED vars PROVE Dense'
  BY <1>1
<1>2. PICK r \in Requests : Alone(r) /\ Moves(r)
  BY OneMoves
<1>a. /\ slug \in [Tenants -> Slugs \cup {NoSlug}]
      /\ founder \in [Tenants -> [user : Emails \cup {NoEmail}, name : Names \cup {NoName}]]
      /\ SuffixesDense /\ NamedOnceCreated /\ \A q \in Requests : Passed(req[q])
  BY DEF Typed, TypeOK, Dense
<1>3. CASE UNCHANGED <<slug, founder>>
  <2>1. SuffixesDense' /\ NamedOnceCreated'
    BY <1>3, <1>a DEF SuffixesDense, NamedOnceCreated, Exists, Taken
  <2>2. \A s : Taken(s)' <=> Taken(s)
    BY <1>3 DEF Taken
  <2>3. \A q \in Requests : q # r => Passed(req[q])'
    BY <1>2, <1>a, <2>2 DEF Passed, Alone
  <2>4. Passed(req[r])'
    <3>1. CASE req'[r].at \notin Searching
      BY <3>1 DEF Passed
    <3>2. CASE Enters(r)
      <4>1. req'[r].n = 1
        BY <3>2 DEF Enters
      <4>2. QED
        BY <4>1 DEF Passed
    <3>3. CASE Keeps(r) /\ req'[r].at \in Searching
      <4>1. /\ req[r].at \in Searching /\ req'[r].name = req[r].name /\ req[r].n \in Nat
            /\ req'[r].n = req[r].n \/ (req'[r].n = req[r].n + 1 /\ Taken(Candidate(req[r])))
        BY <3>3, AtWork DEF Keeps, Request
      <4>2. \A m \in 1..Len(SlugsOf[req[r].name]) : m < req[r].n => Taken(SlugsOf[req[r].name][m])
        BY <1>a, <4>1 DEF Passed
      <4>3. req[r].name \in Names
        BY <4>1, AtWork DEF WellFormed
      <4>4. Len(SlugsOf[req[r].name]) \in Nat
        BY <4>3, SlugsListed
      <4>5. \A m \in 1..Len(SlugsOf[req[r].name]) : m < req'[r].n => Taken(SlugsOf[req[r].name][m])
        BY <4>1, <4>2, <4>4 DEF Candidate
      <4>6. QED
        BY <2>2, <4>1, <4>5 DEF Passed
    <3>4. QED
      BY <1>2, <3>1, <3>2, <3>3 DEF Moves, Invites, Drops, Founds
  <2>5. QED
    BY <2>1, <2>3, <2>4 DEF Dense
<1>4. CASE Founds(r)
  <2> DEFINE b == req[r].name
             new == Candidate(req[r])
             e == req[r].user
  <2>1. PICK t \in Tenants :
          /\ ~Exists(t) /\ ~Taken(new)
          /\ slug' = [slug EXCEPT ![t] = new]
          /\ founder' = [founder EXCEPT ![t] = [user |-> e, name |-> b]]
    BY <1>4 DEF Founds
  <2>2. b \in Names /\ new \in Slugs /\ req[r].n \in 1..Len(SlugsOf[b]) /\ new = SlugsOf[b][req[r].n]
    BY <1>4, AtWork, CandidateIsSlug DEF Founds, WellFormed, Candidate
  <2>3. /\ slug'[t] = new /\ founder'[t].name = b
        /\ \A u \in Tenants : u # t => slug'[u] = slug[u] /\ founder'[u] = founder[u]
    BY <1>a, <2>1
  <2>4. \A s \in Slugs : Taken(s) => \E u \in Tenants : slug'[u] = s
    BY <2>1, <2>3, TenancyAssumption DEF Taken, Exists
  <2>5. \A m \in 1..Len(SlugsOf[b]) : m < req[r].n => Taken(SlugsOf[b][m])
    BY <1>4, <1>a DEF Founds, Passed
  <2>6. \A m, n \in 1..Len(SlugsOf[b]) : m < n /\ SlugsOf[b][n] = new => Taken(SlugsOf[b][m])
    BY <2>2, <2>5, TenancyAssumption
  <2>7. \A c \in Names : \A m \in 1..Len(SlugsOf[c]) : SlugsOf[c][m] \in Slugs
    BY SlugsListed
  <2>8. \A q \in Requests : Passed(req[q])'
    <3> SUFFICES ASSUME NEW q \in Requests, req'[q].at \in Searching,
                        NEW m \in 1..Len(SlugsOf[req'[q].name]), m < req'[q].n
                 PROVE  \E s \in Tenants : slug'[s] = SlugsOf[req'[q].name][m]
      BY DEF Passed, Taken
    <3>1. req'[q] = req[q]
      BY <1>2, <1>4 DEF Alone, Founds
    <3>2. req[q].name \in Names /\ Taken(SlugsOf[req[q].name][m])
      BY <1>a, <3>1, AtWork DEF Passed, WellFormed
    <3>3. QED
      BY <2>4, <2>7, <3>1, <3>2
  <2> HIDE DEF b, new, e
  <2>9. SuffixesDense'
    <3> SUFFICES ASSUME NEW u \in Tenants, slug'[u] # NoSlug
                 PROVE  /\ \A s \in Tenants : s # u => slug'[s] # slug'[u]
                        /\ \A m, n \in 1..Len(SlugsOf[founder'[u].name]) :
                             m < n /\ SlugsOf[founder'[u].name][n] = slug'[u]
                             => \E s \in Tenants : slug'[s] = SlugsOf[founder'[u].name][m]
      BY DEF SuffixesDense, Exists, Taken
    <3>1. \A s \in Tenants : s # u => slug'[s] # slug'[u]
      BY <1>a, <2>1, <2>3 DEF SuffixesDense, Exists, Taken
    <3>2. ASSUME NEW m \in 1..Len(SlugsOf[founder'[u].name]),
                 NEW n \in 1..Len(SlugsOf[founder'[u].name]),
                 m < n, SlugsOf[founder'[u].name][n] = slug'[u]
          PROVE  \E s \in Tenants : slug'[s] = SlugsOf[founder'[u].name][m]
      <4>1. CASE u = t
        BY <2>2, <2>3, <2>4, <2>6, <2>7, <3>2, <4>1
      <4>2. CASE u # t
        <5>1. founder'[u] = founder[u] /\ slug'[u] = slug[u] /\ Exists(u)
          BY <2>3, <4>2 DEF Exists
        <5>2. Taken(SlugsOf[founder[u].name][m])
          BY <1>a, <3>2, <5>1 DEF SuffixesDense
        <5>3. PICK s \in Tenants : slug[s] = SlugsOf[founder[u].name][m]
          BY <5>2 DEF Taken
        <5>4. CASE s # t
          BY <2>3, <5>1, <5>3, <5>4
        <5>5. CASE s = t
          BY <1>a, <2>1, <2>7, <5>1, <5>3, <5>5, TenancyAssumption DEF NamedOnceCreated, Exists
        <5>6. QED
          BY <5>4, <5>5
      <4>3. QED
        BY <4>1, <4>2
    <3>3. QED
      BY <3>1, <3>2
  <2>10. NamedOnceCreated'
    BY <1>a, <2>2, <2>3 DEF NamedOnceCreated, Exists
  <2>11. QED
    BY <2>8, <2>9, <2>10 DEF Dense
<1>5. QED
  BY <1>2, <1>3, <1>4 DEF Moves, Keeps, Enters, Invites, Drops

(* THEOREM 6.  A tenant has the first free slug of its name, and nobody      *)
(* shares it.                                                                *)
THEOREM SlugsAreDense == Spec => []SuffixesDense
<1>1. Dense => SuffixesDense
  BY DEF Dense
<1>2. Typed /\ Founding /\ Dense /\ [Next]_vars => (Typed /\ Founding /\ Dense)'
  BY TypedStep, FoundingStep, DenseStep
<1>3. QED
  BY <1>1, <1>2, TypedInit, FoundingInit, DenseInit, PTL DEF Spec

-----------------------------------------------------------------------------
(* Only two steps write a membership, and neither makes anybody active in a  *)
(* tenant that is there: one makes it there, the other writes INVITED.       *)
LEMMA NobodyJoinsStep ==
  ASSUME Typed, [Next]_vars,
         NEW t \in Tenants, NEW e \in Emails,
         Exists(t), member'[t][e].status = "ACTIVE"
  PROVE  member[t][e].status = "ACTIVE"
<1>a. member \in [Tenants -> [Emails -> Membership]]
  BY DEF Typed, TypeOK
<1>1. ASSUME NEW r \in Requests, Invite(r) PROVE member[t][e].status = "ACTIVE"
  BY <1>a, <1>1 DEF Invite, InvitedStatus
<1>2. ASSUME NEW r \in Requests, NEW new \in Tenants, CreateTenant(r, new)
      PROVE  member[t][e].status = "ACTIVE"
  BY <1>a, <1>2 DEF CreateTenant
<1>3. CASE UNCHANGED member
  BY <1>3
<1>4. QED
  BY <1>1, <1>2, <1>3 DEF Next, Start, Step, vars, tables, RefuseRegister, StartRegister, Login,
     StartCreate, StartInvite, FindUser, CreateUser, RejectName, TrySlug, Record, CheckMember,
     Issue, Fail

(* THEOREM 7.  A tenant gains no active member once it is there.             *)
THEOREM TenantsGainNobody == Spec => NobodyJoins
<1>1. Typed /\ [Next]_vars =>
        \A t \in Tenants, e \in Emails :
          Exists(t) /\ member'[t][e].status = "ACTIVE" => member[t][e].status = "ACTIVE"
  BY NobodyJoinsStep
<1>2. QED
  BY <1>1, TypedInit, TypedStep, PTL DEF Spec, NobodyJoins

=============================================================================
