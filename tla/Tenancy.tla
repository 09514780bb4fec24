------------------------------ MODULE Tenancy ------------------------------
(***************************************************************************)
(* Users, tenants and memberships of the API: AuthService.register and     *)
(* login, TenantsService.createTenantForUser, MembershipsService.invite,   *)
(* and the guards in front of the last two.  Every await of a handler is a *)
(* step of its own; a transaction is one step.  Every lookup of a name     *)
(* that must be unique is made before the write, which the unique index    *)
(* then refuses when the name was taken in between.                        *)
(***************************************************************************)
EXTENDS Naturals, Sequences, FiniteSets

CONSTANTS
  Emails,     (* the normalized addresses; a user is found by its own        *)
  Tenants,    (* the ids tenants can get, a bound of the model               *)
  Names,      (* the names or slugs organizations ask for                    *)
  Slugs,
  SlugsOf,    (* for each name, its slug and the slug with suffixes 2, 3, .. *)
              (* empty for a name without letters and digits                 *)
  AskedRoles, (* the roles invitations ask for                               *)
  Requests,   (* the slots of requests in progress at the same time          *)
  NoEmail, NoTenant, NoSlug, NoName,
  CanFail     (* whether a query may throw or the process die mid-request    *)

Roles == {"OWNER", "ADMIN", "SECURITY_ANALYST", "READ_ONLY"}

ASSUME TenancyAssumption ==
  /\ SlugsOf \in [Names -> Seq(Slugs)]
  /\ \A b \in Names : \A m, n \in 1..Len(SlugsOf[b]) :
       SlugsOf[b][m] = SlugsOf[b][n] => m = n
  /\ AskedRoles \subseteq Roles
  /\ NoEmail \notin Emails /\ NoTenant \notin Tenants
  /\ NoSlug \notin Slugs /\ NoName \notin Names
  /\ CanFail \in BOOLEAN

VARIABLES
  user,     (* User.status of the user with an address                       *)
  slug,     (* Tenant.slug                                                   *)
  member,   (* the Membership row of a tenant and a user                     *)
  session,  (* the pairs of tenant and user that hold an access token        *)
  audit,    (* the audit records of a tenant: who did what                   *)
  req,      (* where each request is, and its local variables                *)
  founder,  (* history: who a tenant was created for, and its name           *)
  lost      (* history: the users whose registration ended between its two   *)
            (* transactions                                                  *)

tables == <<user, slug, member, session, audit>>
vars   == <<user, slug, member, session, audit, req, founder, lost>>

-----------------------------------------------------------------------------
UserStatuses == {"NONE", "ACTIVE", "INVITED"}

Membership == [status : UserStatuses, role : Roles, by : Emails \cup {NoEmail}]

AuditActions == {"Login", "TenantCreate", "MembershipInvite"}

Places == {"idle", "find", "createUser", "invite", "slug", "createTenant",
           "record", "member", "issue"}

Request == [op : {"register", "create", "invite", "login"}, at : Places,
            user : Emails \cup {NoEmail},     (* whom the request is about    *)
            actor : Emails \cup {NoEmail},    (* the principal, when guarded  *)
            tenant : Tenants \cup {NoTenant},
            role : Roles, name : Names \cup {NoName}, n : Nat]

Idle == [op |-> "login", at |-> "idle", user |-> NoEmail, actor |-> NoEmail,
         tenant |-> NoTenant, role |-> "READ_ONLY", name |-> NoName, n |-> 0]

Goto(r, place) == req' = [req EXCEPT ![r].at = place]
Finish(r)      == req' = [req EXCEPT ![r] = Idle]

Exists(t)     == slug[t] # NoSlug
Taken(s)      == \E t \in Tenants : slug[t] = s
Candidate(rq) == SlugsOf[rq.name][rq.n]

(* Who has the permissions user:invite and tenant:manage (rolePermissionMap). *)
MayInvite(role) == role \in {"OWNER", "ADMIN"}
MayManage(role) == role = "OWNER"

(* A registration that has created its user and not yet its tenant.          *)
Between(r) == req[r].op = "register" /\ req[r].at \in {"slug", "createTenant"}

(* Bound: a request that creates a tenant starts only while an id is left.   *)
Room ==
  Cardinality({t \in Tenants : ~Exists(t)}) >
    Cardinality({r \in Requests : req[r].at \in {"createUser", "slug", "createTenant"}})

-----------------------------------------------------------------------------
Init ==
  /\ user = [e \in Emails |-> "NONE"]
  /\ slug = [t \in Tenants |-> NoSlug]
  /\ member = [t \in Tenants |-> [e \in Emails |->
                 [status |-> "NONE", role |-> "READ_ONLY", by |-> NoEmail]]]
  /\ session = {}
  /\ audit = [t \in Tenants |-> {}]
  /\ req = [r \in Requests |-> Idle]
  /\ founder = [t \in Tenants |-> [user |-> NoEmail, name |-> NoName]]
  /\ lost = {}

(* register with an address in use: createActiveUser throws.                 *)
RefuseRegister(r, e) ==
  /\ req[r].at = "idle"
  /\ user[e] # "NONE"
  /\ UNCHANGED vars

(* register up to the answer of findByEmail that the address is unused.      *)
StartRegister(r, e, name) ==
  /\ req[r].at = "idle"
  /\ Room
  /\ user[e] = "NONE"
  /\ req' = [req EXCEPT ![r] = [Idle EXCEPT !.op = "register", !.at = "createUser",
                                            !.user = e, !.name = name]]
  /\ UNCHANGED <<tables, founder, lost>>

(* login of an active user who knows the password, into a tenant it asks for *)
(* or its first one: in either case one where its membership is active.  No  *)
(* code changes the status of a user, so reading it first makes no difference.*)
Login(r, e, t) ==
  /\ req[r].at = "idle"
  /\ user[e] = "ACTIVE"
  /\ member[t][e].status = "ACTIVE"
  /\ req' = [req EXCEPT ![r] = [Idle EXCEPT !.op = "login", !.at = "issue",
                                            !.user = e, !.tenant = t]]
  /\ UNCHANGED <<tables, founder, lost>>

(* JwtAuthGuard: the role is that of the row, not the one in the token.      *)
Admitted(e, t) ==
  /\ <<t, e>> \in session
  /\ member[t][e].status = "ACTIVE"
  /\ user[e] = "ACTIVE"

(* The guards in front of createTenantForUser.                               *)
StartCreate(r, e, t, name) ==
  /\ req[r].at = "idle"
  /\ Room
  /\ Admitted(e, t)
  /\ MayManage(member[t][e].role)
  /\ req' = [req EXCEPT ![r] = [Idle EXCEPT !.op = "create", !.at = "slug",
                                            !.user = e, !.name = name, !.n = 1]]
  /\ UNCHANGED <<tables, founder, lost>>

(* The role an invitation may ask for.                                       *)
Asks(role) == role \in AskedRoles /\ role # "OWNER"

(* Mutant of InvitesInto: the tenant comes with the body of the request.     *)
InvitesIntoAny(t, into) == Exists(into)

(* The tenant an invitation is for is the principal's.                       *)
InvitesInto(t, into) == into = t

(* The guards in front of invite, and its check of the role.                 *)
StartInvite(r, e, t, into, invitee, role) ==
  /\ req[r].at = "idle"
  /\ Admitted(e, t)
  /\ MayInvite(member[t][e].role)
  /\ Asks(role)
  /\ InvitesInto(t, into)
  /\ req' = [req EXCEPT ![r] = [Idle EXCEPT !.op = "invite", !.at = "find",
                                            !.user = invitee, !.actor = e,
                                            !.tenant = into, !.role = role]]
  /\ UNCHANGED <<tables, founder, lost>>

(* The read of findOrCreateInvitedUser.                                      *)
FindUser(r) ==
  /\ req[r].at = "find"
  /\ Goto(r, IF user[req[r].user] = "NONE" THEN "createUser" ELSE "invite")
  /\ UNCHANGED <<tables, founder, lost>>

(* Mutant of EmailFree: no unique index on the address.                      *)
EmailAlwaysFree(e) == TRUE

(* The unique index on User.email.                                           *)
EmailFree(e) == user[e] = "NONE"

(* UsersRepository.create throws when the address was taken since the read.  *)
CreateUser(r) ==
  LET e == req[r].user
  IN /\ req[r].at = "createUser"
     /\ \/ /\ EmailFree(e)
           /\ \/ /\ req[r].op = "register"
                 /\ user' = [user EXCEPT ![e] = "ACTIVE"]
                 /\ req' = [req EXCEPT ![r] = [@ EXCEPT !.at = "slug", !.n = 1]]
              \/ /\ req[r].op = "invite"
                 /\ user' = [user EXCEPT ![e] = "INVITED"]
                 /\ Goto(r, "invite")
        \/ /\ ~EmailFree(e)
           /\ Finish(r)
           /\ UNCHANGED user
     /\ UNCHANGED <<slug, member, session, audit, founder, lost>>

(* Mutants of InvitedStatus: left to the default of the schema, and a status *)
(* the enum does not have.                                                   *)
InvitedStatusDefault == "ACTIVE"
InvitedStatusUnknown == "PENDING"

InvitedStatus == "INVITED"

(* The upsert of inviteMember: the row that is there is overwritten.         *)
Invite(r) ==
  /\ req[r].at = "invite"
  /\ member' = [member EXCEPT ![req[r].tenant][req[r].user] =
                  [status |-> InvitedStatus, role |-> req[r].role, by |-> req[r].actor]]
  /\ Goto(r, "record")
  /\ UNCHANGED <<user, slug, session, audit, founder, lost>>

(* What a request that throws leaves behind: a registration past its first   *)
(* transaction leaves its user.                                              *)
LostWith(r) == IF Between(r) THEN {req[r].user} ELSE {}

(* generateAvailableSlug throws for a name that yields no slug.              *)
RejectName(r) ==
  /\ req[r].at = "slug"
  /\ SlugsOf[req[r].name] = <<>>
  /\ lost' = lost \cup LostWith(r)
  /\ Finish(r)
  /\ UNCHANGED <<tables, founder>>

(* Mutants of TrySlug: one try only, or every second suffix.                 *)
TrySlugOnce(r) ==
  /\ req[r].at = "slug"
  /\ SlugsOf[req[r].name] # <<>>
  /\ IF Taken(Candidate(req[r])) THEN Finish(r) ELSE Goto(r, "createTenant")
  /\ UNCHANGED <<tables, founder, lost>>

TrySlugByTwo(r) ==
  /\ req[r].at = "slug"
  /\ SlugsOf[req[r].name] # <<>>
  /\ \/ Taken(Candidate(req[r])) /\ req[r].n + 1 < Len(SlugsOf[req[r].name]) /\ req' = [req EXCEPT ![r].n = @ + 2]
     \/ ~Taken(Candidate(req[r])) /\ Goto(r, "createTenant")
  /\ UNCHANGED <<tables, founder, lost>>

(* One turn of the loop of generateAvailableSlug.  Bound: SlugsOf lists more *)
(* slugs than there can be tenants, so the loop never comes to its end.      *)
TrySlug(r) ==
  /\ req[r].at = "slug"
  /\ SlugsOf[req[r].name] # <<>>
  /\ \/ /\ Taken(Candidate(req[r]))
        /\ req[r].n < Len(SlugsOf[req[r].name])
        /\ req' = [req EXCEPT ![r].n = @ + 1]
     \/ ~Taken(Candidate(req[r])) /\ Goto(r, "createTenant")
  /\ UNCHANGED <<tables, founder, lost>>

(* The transaction of createTenantWithOwner: the tenant, its roles and the   *)
(* owner's membership, or nothing when the slug was taken since the read.    *)
CreateTenant(r, t) ==
  LET e == req[r].user
  IN /\ req[r].at = "createTenant"
     /\ ~Exists(t)
     /\ \/ /\ ~Taken(Candidate(req[r]))
           /\ slug' = [slug EXCEPT ![t] = Candidate(req[r])]
           /\ member' = [member EXCEPT ![t][e] =
                           [status |-> "ACTIVE", role |-> "OWNER", by |-> NoEmail]]
           /\ founder' = [founder EXCEPT ![t] = [user |-> e, name |-> req[r].name]]
           /\ req' = [req EXCEPT ![r] = [@ EXCEPT !.at = "record", !.tenant = t]]
           /\ UNCHANGED lost
        \/ /\ Taken(Candidate(req[r]))
           /\ lost' = lost \cup LostWith(r)
           /\ Finish(r)
           /\ UNCHANGED <<slug, member, founder>>
     /\ UNCHANGED <<user, session, audit>>

(* The audit record of the operation; a registration goes on to its session. *)
Record(r) ==
  LET action == CASE req[r].op = "login"  -> "Login"
                  [] req[r].op = "invite" -> "MembershipInvite"
                  [] OTHER                -> "TenantCreate"
      actor  == IF req[r].op = "invite" THEN req[r].actor ELSE req[r].user
  IN /\ req[r].at = "record"
     /\ audit' = [audit EXCEPT ![req[r].tenant] = @ \cup {<<action, actor>>}]
     /\ IF req[r].op = "register" THEN Goto(r, "member") ELSE Finish(r)
     /\ UNCHANGED <<user, slug, member, session, founder, lost>>

(* register looks its new membership up, and throws when it is not active.   *)
CheckMember(r) ==
  /\ req[r].at = "member"
  /\ IF member[req[r].tenant][req[r].user].status = "ACTIVE"
     THEN Goto(r, "issue")
     ELSE Finish(r)
  /\ UNCHANGED <<tables, founder, lost>>

(* issueTokenPair, the end of a registration.                                *)
Issue(r) ==
  /\ req[r].at = "issue"
  /\ session' = session \cup {<<req[r].tenant, req[r].user>>}
  /\ IF req[r].op = "login" THEN Goto(r, "record") ELSE Finish(r)
  /\ UNCHANGED <<user, slug, member, audit, founder, lost>>

(* A query throws or the process dies.  A write whose answer is lost is that *)
(* write followed by this step.                                              *)
Fail(r) ==
  /\ CanFail
  /\ req[r].at # "idle"
  /\ lost' = lost \cup LostWith(r)
  /\ Finish(r)
  /\ UNCHANGED <<tables, founder>>

-----------------------------------------------------------------------------
(* What a request does on its own once it is accepted.                       *)
Step(r) ==
  \/ FindUser(r)
  \/ CreateUser(r)
  \/ Invite(r)
  \/ RejectName(r)
  \/ TrySlug(r)
  \/ \E t \in Tenants : CreateTenant(r, t)
  \/ Record(r)
  \/ CheckMember(r)
  \/ Issue(r)

Start(r) ==
  \/ \E e \in Emails : RefuseRegister(r, e)
  \/ \E e \in Emails, name \in Names : StartRegister(r, e, name)
  \/ \E e \in Emails, t \in Tenants : Login(r, e, t)
  \/ \E e \in Emails, t \in Tenants, name \in Names : StartCreate(r, e, t, name)
  \/ \E e, invitee \in Emails, t, into \in Tenants, role \in Roles :
       StartInvite(r, e, t, into, invitee, role)

Next == \E r \in Requests : Start(r) \/ Step(r) \/ Fail(r)

Spec == Init /\ [][Next]_vars

-----------------------------------------------------------------------------
TypeOK ==
  /\ user \in [Emails -> UserStatuses]
  /\ slug \in [Tenants -> Slugs \cup {NoSlug}]
  /\ member \in [Tenants -> [Emails -> Membership]]
  /\ session \subseteq Tenants \X Emails
  /\ audit \in [Tenants -> SUBSET (AuditActions \X Emails)]
  /\ req \in [Requests -> Request]
  /\ founder \in [Tenants -> [user : Emails \cup {NoEmail}, name : Names \cup {NoName}]]
  /\ lost \subseteq Emails

(* The owner of a tenant is whoever it was created for, and only owners are  *)
(* active: inviteMember writes INVITED over whatever is there, and no code   *)
(* makes an invited member active.                                           *)
OwnersFounded ==
  \A t \in Tenants, e \in Emails :
    /\ member[t][e].role = "OWNER" => founder[t].user = e
    /\ member[t][e].status = "ACTIVE" <=> member[t][e].role = "OWNER"

(* Whoever acts in a tenant founded it, also while invitations and requests  *)
(* that passed the guard earlier overtake each other: sessions, audit        *)
(* records and invitations name nobody else (JwtAuthGuard, invite, login).   *)
OnlyFoundersAct ==
  \A t \in Tenants, e \in Emails :
    \/ <<t, e>> \in session
    \/ \E action \in AuditActions : <<action, e>> \in audit[t]
    \/ \E i \in Emails : member[t][i].by = e
    => founder[t].user = e

(* A user that can log in but belongs nowhere was left by a registration     *)
(* that ended between its two transactions, or one is still in between       *)
(* (register).                                                               *)
StrandedHasCause ==
  \A e \in Emails : user[e] = "ACTIVE" =>
    \/ \E t \in Tenants : founder[t].user = e
    \/ \E r \in Requests : Between(r) /\ req[r].user = e
    \/ e \in lost

(* Such a user stays out: its address is in use, so it cannot register       *)
(* again, and without a membership it cannot log in to create a tenant.      *)
LostStayOut ==
  \A e \in lost, t \in Tenants : founder[t].user # e

(* A tenant has the first slug of its name that was free: nobody shares it,  *)
(* and the ones before it are in use, also when another tenant was created   *)
(* between the search and the insert (generateAvailableSlug).                *)
SuffixesDense ==
  \A t \in Tenants : Exists(t) =>
    /\ \A s \in Tenants : s # t => slug[s] # slug[t]
    /\ \A m, n \in 1..Len(SlugsOf[founder[t].name]) :
         m < n /\ SlugsOf[founder[t].name][n] = slug[t]
         => Taken(SlugsOf[founder[t].name][m])

(* A tenant gains no active member once it is there: nothing accepts an      *)
(* invitation, whatever requests cross it, and an owner whose row an         *)
(* invitation overwrote does not come back (inviteMember,                    *)
(* createTenantWithOwner).                                                   *)
NobodyJoins ==
  [][\A t \in Tenants, e \in Emails :
       Exists(t) /\ member'[t][e].status = "ACTIVE" => member[t][e].status = "ACTIVE"]_vars

=============================================================================
