----------------------- MODULE DashboardPatienceProofs -----------------------
(***************************************************************************)
(* A user of Dashboard who waits for answers sees what the API holds.  The *)
(* proof follows what is in flight while nobody is hasty: one call, or the *)
(* two that open a page of a session; and what each of them was answered.  *)
(***************************************************************************)
EXTENDS DashboardProofs

(* The calls in flight: one, or those that open a page of a session.         *)
Companions(cs) ==
  \A i, j \in 1..Len(cs) :
    cs[i].at # "done" /\ cs[j].at # "done" /\ i # j =>
      \/ cs[i].kind = "posture" /\ cs[j].kind \in {"filtered", "detail"}
      \/ cs[j].kind = "posture" /\ cs[i].kind \in {"filtered", "detail"}

(* What the API lists when it holds s.                                       *)
ListOf(s, filter) ==
  [f \in Findings |-> IF filter \in {None, s.status[f]} THEN s.status[f] ELSE None]

(* A call in flight is about what page p shows, and what the API answered it *)
(* still holds in s, except for what is in g.                                *)
Fits(c, p, s, g) ==
  LET answered == c.at = "ok"
  IN /\ c.kind = "posture" =>
          /\ p.load = "loading"
          /\ answered => /\ \A f \in Findings : c.answer.status[f] = s.status[f]
                         /\ \A a \in Accounts \ g :
                              c.answer.accounts[a] = IF a \in s.accounts THEN 1 ELSE 0
     /\ c.kind = "filtered" =>
          /\ c.filter = p.filter
          /\ answered => c.answer = ListOf(s, c.filter)
     /\ c.kind = "detail" =>
          /\ c.id = p.route
          /\ answered => c.answer = s.status[c.id]
     /\ c.kind = "update" =>
          /\ c.id = p.route
          /\ answered => c.status = s.status[c.id]
     /\ c.kind = "connect" =>
          /\ c.at = "create" => c.id \notin s.accounts \/ c.id \in g
          /\ answered => c.id \in s.accounts

(* The API has done what a call of this kind asked for, unknown to the page. *)
Applied(cs, kind, id) ==
  \E i \in 1..Len(cs) : cs[i].at = "ok" /\ cs[i].kind = kind /\ cs[i].id = id

(* What the page shows is what the API holds, but for what has been applied. *)
PostureTrue(p, cs, s, g) ==
  p.load = "ready" =>
    /\ \A f \in Findings \ g : /\ p.posture.status[f] # None
                               /\ Applied(cs, "update", f) \/ p.posture.status[f] = s.status[f]
    /\ \A a \in Accounts \ g :
         p.posture.accounts[a] = IF a \in s.accounts /\ ~Applied(cs, "connect", a) THEN 1 ELSE 0

ListTrue(p, s, g) ==
  p.session /\ p.route = "findings" /\ p.findingsLoad = "ready" =>
    \A f \in Findings \ g : p.filtered[f] \in {ListOf(s, p.filter)[f], s.status[f]}

DetailTrue(p, cs, s, g) ==
  p.session /\ p.route \in Findings \ g /\ p.detailLoad = "ready" =>
    /\ p.selected.id = p.route
    /\ Applied(cs, "update", p.route) \/ p.selected.status = s.status[p.route]

Truth(p, cs, s, g) == PostureTrue(p, cs, s, g) /\ ListTrue(p, s, g) /\ DetailTrue(p, cs, s, g)

Patience ==
  ~hasty => /\ Companions(calls)
            /\ \A i \in Pending : Fits(calls[i], page, server, foreign)
            /\ Truth(page, calls, server, foreign)

-----------------------------------------------------------------------------
(* What a list call is answered, in terms of the API's state.                *)
LEMMA ListsAre ==
  ASSUME server.status \in [Findings -> Statuses]
  PROVE  /\ \A filter : Listed(filter) = ListOf(server, filter)
         /\ \A f \in Findings : Listed(None)[f] = server.status[f]
         /\ \A a \in Accounts : ListedAccounts[a] = IF a \in server.accounts THEN 1 ELSE 0
BY DEF Listed, ListOf, ListedAccounts

(* A status is a status, whatever else None may be.                          *)
LEMMA StatusesAreSome == \A s \in Statuses : s # None
BY DashboardAssumption

LEMMA FindingsAreNoLists == \A f \in Findings : f # "findings" /\ f # "overview"
BY DashboardAssumption

-----------------------------------------------------------------------------
(* New calls, made when none is in flight.                                   *)
AllDone(cs) == \A i \in 1..Len(cs) : cs[i].at = "done"

LEMMA CallsAppended ==
  ASSUME NEW cs \in Seq(CallSet), AllDone(cs), NEW new \in Seq(Fresh)
  PROVE  /\ Companions(new) => Companions(cs \o new)
         /\ \A i \in 1..Len(cs \o new) : (cs \o new)[i].at # "done" =>
              \E j \in 1..Len(new) : (cs \o new)[i] = new[j]
         /\ \A kind, id : ~Applied(cs \o new, kind, id)
<1> DEFINE ds == cs \o new
<1>1. new \in Seq(CallSet) /\ Len(cs) \in Nat /\ Len(new) \in Nat
  BY FreshCalls
<1>2. Len(ds) = Len(cs) + Len(new)
      /\ \A i \in 1..Len(ds) : ds[i] = IF i <= Len(cs) THEN cs[i] ELSE new[i - Len(cs)]
  BY <1>1, ConcatProperties
<1>3. \A j \in 1..Len(new) : new[j].at = "sent"
  BY FreshCalls
<1> HIDE DEF ds
<1>4. \A i \in 1..Len(ds) :
        \/ ds[i].at = "done"
        \/ i - Len(cs) \in 1..Len(new) /\ ds[i] = new[i - Len(cs)]
  BY <1>1, <1>2 DEF AllDone
<1>5. \A i \in 1..Len(ds) : ds[i].at # "done" => \E j \in 1..Len(new) : ds[i] = new[j]
  BY <1>4
<1>6. \A kind, id : ~Applied(ds, kind, id)
  BY <1>3, <1>4 DEF Applied
<1>7. ASSUME Companions(new) PROVE Companions(ds)
  <2> SUFFICES ASSUME NEW i \in 1..Len(ds), NEW j \in 1..Len(ds),
                      ds[i].at # "done", ds[j].at # "done", i # j
               PROVE  \/ ds[i].kind = "posture" /\ ds[j].kind \in {"filtered", "detail"}
                      \/ ds[j].kind = "posture" /\ ds[i].kind \in {"filtered", "detail"}
    BY DEF Companions
  <2>1. /\ i - Len(cs) \in 1..Len(new) /\ ds[i] = new[i - Len(cs)]
        /\ j - Len(cs) \in 1..Len(new) /\ ds[j] = new[j - Len(cs)]
    BY <1>4
  <2>2. i - Len(cs) # j - Len(cs)
    BY <1>1
  <2>3. QED
    BY <1>7, <2>1, <2>2 DEF Companions
<1>8. QED
  BY <1>5, <1>6, <1>7 DEF ds

LEMMA AtMostOneCall ==
  ASSUME NEW new \in Seq(Fresh), Len(new) <= 1
  PROVE  Companions(new)
<1>1. \A i, j \in 1..Len(new) : i = j
  OBVIOUS
<1>2. QED
  BY <1>1 DEF Companions

(* What PageCalls makes fits the page it was made for.                       *)
LEMMA PageCallsAre ==
  ASSUME NEW p \in PageRow
  PROVE  /\ PageCalls(p) \in Seq(Fresh) /\ Len(PageCalls(p)) <= 1
         /\ \A j \in 1..Len(PageCalls(p)) :
              /\ PageCalls(p)[j].kind \in {"filtered", "detail"}
              /\ PageCalls(p)[j].at = "sent"
              /\ PageCalls(p)[j].kind = "filtered" => PageCalls(p)[j].filter = p.filter
              /\ PageCalls(p)[j].kind = "detail" => PageCalls(p)[j].id = p.route
<1>1. p.route \in Routes
  BY DEF PageRow
<1>2. \/ PageCalls(p) = <<>>
      \/ PageCalls(p) = <<Call("filtered", None, None, p.filter)>>
      \/ PageCalls(p) = <<Call("detail", p.route, None, None)>>
  BY <1>1 DEF PageCalls, Routes
<1>3. \A c : Len(<<c>>) = 1 /\ \A j \in 1..1 : <<c>>[j] = c
  OBVIOUS
<1>4. QED
  BY <1>2, <1>3, CallsMade DEF Call

(* Two calls at most, of which the first is the posture.                     *)
LEMMA SessionCalls ==
  ASSUME NEW p \in PageRow
  PROVE  /\ <<PostureCall>> \o PageCalls(p) \in Seq(Fresh)
         /\ Companions(<<PostureCall>> \o PageCalls(p))
         /\ \A j \in 1..Len(<<PostureCall>> \o PageCalls(p)) :
              LET c == (<<PostureCall>> \o PageCalls(p))[j]
              IN /\ c.at = "sent" /\ c.kind \in {"posture", "filtered", "detail"}
                 /\ c.kind = "filtered" => c.filter = p.filter
                 /\ c.kind = "detail" => c.id = p.route
<1> DEFINE new == <<PostureCall>> \o PageCalls(p)
<1>1. /\ PostureCall \in Fresh /\ PostureCall.kind = "posture" /\ PostureCall.at = "sent"
      /\ <<PostureCall>> \in Seq(Fresh) /\ Len(<<PostureCall>>) = 1 /\ <<PostureCall>>[1] = PostureCall
  BY CallsMade DEF PostureCall, Call
<1>2. /\ PageCalls(p) \in Seq(Fresh) /\ Len(PageCalls(p)) <= 1 /\ Len(PageCalls(p)) \in Nat
      /\ \A j \in 1..Len(PageCalls(p)) : PageCalls(p)[j].kind \in {"filtered", "detail"}
  BY PageCallsAre
<1>3. new \in Seq(Fresh) /\ Len(new) = 1 + Len(PageCalls(p))
      /\ \A j \in 1..Len(new) : new[j] = IF j <= 1 THEN PostureCall ELSE PageCalls(p)[j - 1]
  BY <1>1, <1>2, ConcatProperties
<1> HIDE DEF new
<1>4. \A j \in 1..Len(new) : \/ j = 1 /\ new[j] = PostureCall
                             \/ j = 2 /\ 1 \in 1..Len(PageCalls(p)) /\ new[j] = PageCalls(p)[1]
  BY <1>2, <1>3
<1>5. Companions(new)
  BY <1>1, <1>2, <1>4 DEF Companions
<1>6. QED
  BY <1>1, <1>3, <1>4, <1>5, PageCallsAre DEF new

-----------------------------------------------------------------------------
(* A page that is opened shows nothing until its call is answered.           *)
LEMMA OpenedPage ==
  ASSUME NEW p \in PageRow
  PROVE  LET q == PageLoading(p)
         IN /\ q.session = p.session /\ q.route = p.route /\ q.filter = p.filter
            /\ q.load = p.load /\ q.posture = p.posture
            /\ \A s, g : ListTrue(q, s, g)
            /\ \A cs, s, g : DetailTrue(q, cs, s, g)
<1>1. p.route \in Routes
  BY DEF PageRow
<1>2. CASE p.route = "overview"
  <2>1. PageLoading(p) = p
    BY <1>2 DEF PageLoading
  <2>2. QED
    BY <1>2, <2>1, FindingsAreNoLists DEF ListTrue, DetailTrue
<1>3. CASE p.route = "findings"
  <2>1. PageLoading(p) = FilteredLoading(p)
    BY <1>3 DEF PageLoading
  <2>2. LET q == FilteredLoading(p)
        IN /\ q.session = p.session /\ q.route = p.route /\ q.filter = p.filter
           /\ q.load = p.load /\ q.posture = p.posture /\ q.findingsLoad = "loading"
    BY DEF FilteredLoading, PageRow
  <2>3. QED
    BY <1>3, <2>1, <2>2, FindingsAreNoLists DEF ListTrue, DetailTrue
<1>4. CASE p.route \in Findings
  <2>1. PageLoading(p) = DetailLoading(p)
    BY <1>4, FindingsAreNoLists DEF PageLoading
  <2>2. LET q == DetailLoading(p)
        IN /\ q.session = p.session /\ q.route = p.route /\ q.filter = p.filter
           /\ q.load = p.load /\ q.posture = p.posture /\ q.detailLoad = "loading"
    BY DEF DetailLoading, PageRow
  <2>3. QED
    BY <1>4, <2>1, <2>2, FindingsAreNoLists DEF ListTrue, DetailTrue
<1>5. QED
  BY <1>1, <1>2, <1>3, <1>4 DEF Routes

(* The parts of the truth depend on what is shown, and on nothing else.      *)
LEMMA TruthSame ==
  ASSUME NEW p, NEW q, NEW cs, NEW ds, NEW s, NEW g, Truth(p, cs, s, g),
         \A kind, id : Applied(ds, kind, id) <=> Applied(cs, kind, id)
  PROVE  /\ q.load = p.load /\ q.posture = p.posture => PostureTrue(q, ds, s, g)
         /\ (q.session => p.session) /\ q.route = p.route /\ q.findingsLoad = p.findingsLoad
              /\ q.filter = p.filter /\ q.filtered = p.filtered => ListTrue(q, s, g)
         /\ (q.session => p.session) /\ q.route = p.route /\ q.detailLoad = p.detailLoad
              /\ q.selected = p.selected => DetailTrue(q, ds, s, g)
BY DEF Truth, PostureTrue, ListTrue, DetailTrue

(* The call made has not been answered, so it only has to be about the page. *)
LEMMA FreshFits ==
  ASSUME NEW c, c.at = "sent", NEW q, NEW s, NEW g,
         c.kind = "posture" => q.load = "loading",
         c.kind = "filtered" => c.filter = q.filter,
         c.kind \in {"detail", "update"} => c.id = q.route
  PROVE  Fits(c, q, s, g)
BY DEF Fits

(* What the user does while nothing is in flight.                            *)
LEMMA PatientCalls ==
  ASSUME Typed, Patience, ~hasty', NEW new \in Seq(Fresh), Makes(new),
         UNCHANGED <<server, foreign>>, Companions(new),
         \A j \in 1..Len(new) : Fits(new[j], page', server, foreign),
         ListTrue(page', server, foreign),
         PostureTrue(page', calls', server, foreign),
         DetailTrue(page', calls', server, foreign)
  PROVE  Patience'
<1>1. calls' = calls \o new /\ Pending = {} /\ calls \in Seq(CallSet)
  BY DEF Makes, Typed
<1>2. AllDone(calls)
  BY <1>1 DEF AllDone, Pending
<1>3. Companions(calls')
  BY <1>1, <1>2, CallsAppended
<1>4. \A i \in Pending' : Fits(calls'[i], page', server', foreign')
  <2>1. \A i \in Pending' : i \in 1..Len(calls') /\ calls'[i].at # "done"
    BY DEF Pending
  <2>2. \A i \in 1..Len(calls') : calls'[i].at # "done" =>
          \E j \in 1..Len(new) : calls'[i] = new[j]
    BY <1>1, <1>2, CallsAppended
  <2>3. QED
    BY <2>1, <2>2
<1>5. QED
  BY <1>3, <1>4 DEF Patience, Truth

(* While nothing is in flight nothing is applied unknown to the page, before *)
(* the new calls and after them.                                             *)
LEMMA NothingApplied ==
  ASSUME Typed, Patience, ~hasty', NEW new \in Seq(Fresh), Makes(new)
  PROVE  /\ Truth(page, calls, server, foreign)
         /\ \A kind, id : Applied(calls', kind, id) <=> Applied(calls, kind, id)
<1>1. calls' = calls \o new /\ Pending = {} /\ calls \in Seq(CallSet) /\ ~hasty
  BY DEF Makes, Typed
<1>2. AllDone(calls)
  BY <1>1 DEF AllDone, Pending
<1>3. \A kind, id : ~Applied(calls', kind, id)
  BY <1>1, <1>2, CallsAppended
<1>4. \A kind, id : ~Applied(calls, kind, id)
  BY <1>2 DEF Applied, AllDone
<1>5. QED
  BY <1>1, <1>3, <1>4 DEF Patience

LEMMA PatientUser ==
  ASSUME Typed, Patience, User
  PROVE  Patience'
<1> SUFFICES ASSUME ~hasty' PROVE Patience'
  BY DEF Patience
<1>u. UNCHANGED <<server, foreign>>
  BY UserIs DEF Navigate, Refresh, ChooseFilter, ClickStatus, OpenModal, CloseModal, Connect,
                SignOut, SignIn
<1>0. page \in PageRow /\ UNCHANGED <<server, foreign>> /\ <<>> \in Seq(Fresh)
  BY <1>u DEF Typed
<1>n. /\ Companions(<<>>)
      /\ \A j \in 1..Len(<<>>) : Fits(<<>>[j], page', server, foreign)
  BY DEF Companions
<1>c. ASSUME NEW c \in Fresh, Makes(<<c>>), Fits(c, page', server, foreign),
             ListTrue(page', server, foreign),
             PostureTrue(page', calls', server, foreign),
             DetailTrue(page', calls', server, foreign)
      PROVE  Patience'
  <2>1. <<c>> \in Seq(Fresh) /\ Len(<<c>>) = 1 /\ \A j \in 1..Len(<<c>>) : <<c>>[j] = c
    OBVIOUS
  <2>2. Companions(<<c>>)
    BY <2>1, AtMostOneCall
  <2>3. QED
    BY <1>0, <1>c, <2>1, <2>2, PatientCalls
<1>s. ASSUME NEW c \in Fresh, Makes(<<c>>)
      PROVE  /\ Truth(page, calls, server, foreign)
             /\ \A kind, id : Applied(calls', kind, id) <=> Applied(calls, kind, id)
  <2>1. <<c>> \in Seq(Fresh)
    OBVIOUS
  <2>2. QED
    BY <1>s, <2>1, NothingApplied
<1>1. ASSUME NEW r \in Routes, Navigate(r)
      PROVE  Patience'
  <2> DEFINE p == [page EXCEPT !.route = r]
  <2>1. /\ page' = IF page.session THEN PageLoading(p) ELSE p
        /\ Makes(IF page.session THEN PageCalls(p) ELSE <<>>)
    BY <1>1 DEF Navigate
  <2>2. p \in PageRow /\ p.session = page.session /\ p.load = page.load /\ p.posture = page.posture
    BY <1>0 DEF PageRow
  <2> HIDE DEF p
  <2>3. CASE page.session
    <3>1. page' = PageLoading(p) /\ Makes(PageCalls(p))
      BY <2>1, <2>3
    <3>2. /\ PageCalls(p) \in Seq(Fresh) /\ Len(PageCalls(p)) <= 1
          /\ \A j \in 1..Len(PageCalls(p)) :
               /\ PageCalls(p)[j].kind \in {"filtered", "detail"} /\ PageCalls(p)[j].at = "sent"
               /\ PageCalls(p)[j].kind = "filtered" => PageCalls(p)[j].filter = p.filter
               /\ PageCalls(p)[j].kind = "detail" => PageCalls(p)[j].id = p.route
      BY <2>2, PageCallsAre
    <3>3. /\ page'.route = p.route /\ page'.filter = p.filter
          /\ page'.load = page.load /\ page'.posture = page.posture
          /\ ListTrue(page', server, foreign)
          /\ DetailTrue(page', calls', server, foreign)
      BY <2>2, <3>1, OpenedPage
    <3>4. \A j \in 1..Len(PageCalls(p)) : Fits(PageCalls(p)[j], page', server, foreign)
      BY <3>2, <3>3, FreshFits
    <3>5. PostureTrue(page', calls', server, foreign)
      BY <3>1, <3>2, <3>3, NothingApplied, TruthSame
    <3>6. QED
      BY <1>0, <3>1, <3>2, <3>3, <3>4, <3>5, AtMostOneCall, PatientCalls
  <2>4. CASE ~page.session
    <3>1. page' = p /\ Makes(<<>>)
      BY <2>1, <2>4
    <3>2. ListTrue(page', server, foreign) /\ DetailTrue(page', calls', server, foreign)
      BY <2>2, <2>4, <3>1 DEF ListTrue, DetailTrue
    <3>3. PostureTrue(page', calls', server, foreign)
      BY <1>0, <2>2, <3>1, NothingApplied, TruthSame
    <3>4. QED
      BY <1>0, <1>n, <3>1, <3>2, <3>3, PatientCalls
  <2>5. QED
    BY <2>3, <2>4
<1>2. CASE Refresh
  <2>1. page' = PostureLoading(page) /\ Makes(<<PostureCall>>)
    BY <1>2 DEF Refresh
  <2>2. /\ page'.session = page.session /\ page'.route = page.route /\ page'.filter = page.filter
        /\ page'.findingsLoad = page.findingsLoad /\ page'.filtered = page.filtered
        /\ page'.detailLoad = page.detailLoad /\ page'.selected = page.selected
        /\ page'.load = "loading"
    BY <1>0, <2>1 DEF PostureLoading, PageRow
  <2>3. PostureCall \in Fresh /\ PostureCall.kind = "posture" /\ PostureCall.at = "sent"
    BY CallsMade DEF PostureCall, Call
  <2>4. Fits(PostureCall, page', server, foreign)
    BY <2>2, <2>3, FreshFits
  <2>5. ListTrue(page', server, foreign) /\ DetailTrue(page', calls', server, foreign)
    BY <1>s, <2>1, <2>2, <2>3, TruthSame
  <2>6. PostureTrue(page', calls', server, foreign)
    BY <2>2 DEF PostureTrue
  <2>7. QED
    BY <1>c, <2>1, <2>3, <2>4, <2>5, <2>6
<1>3. ASSUME NEW filter \in Filters, ChooseFilter(filter)
      PROVE  Patience'
  <2> DEFINE p == [page EXCEPT !.filter = filter]
  <2>1. page' = FilteredLoading(p) /\ Makes(PageCalls(p)) /\ page.route = "findings"
    BY <1>3 DEF ChooseFilter
  <2>2. p \in PageRow /\ p.route = "findings" /\ p.load = page.load /\ p.posture = page.posture
    BY <1>0, <2>1 DEF PageRow
  <2> HIDE DEF p
  <2>3. page' = PageLoading(p)
    BY <2>1, <2>2 DEF PageLoading
  <2>4. /\ PageCalls(p) \in Seq(Fresh) /\ Len(PageCalls(p)) <= 1
        /\ \A j \in 1..Len(PageCalls(p)) :
             /\ PageCalls(p)[j].kind \in {"filtered", "detail"} /\ PageCalls(p)[j].at = "sent"
             /\ PageCalls(p)[j].kind = "filtered" => PageCalls(p)[j].filter = p.filter
             /\ PageCalls(p)[j].kind = "detail" => PageCalls(p)[j].id = p.route
    BY <2>2, PageCallsAre
  <2>5. /\ page'.route = p.route /\ page'.filter = p.filter
        /\ page'.load = page.load /\ page'.posture = page.posture
        /\ ListTrue(page', server, foreign)
        /\ DetailTrue(page', calls', server, foreign)
    BY <2>2, <2>3, OpenedPage
  <2>6. \A j \in 1..Len(PageCalls(p)) : Fits(PageCalls(p)[j], page', server, foreign)
    BY <2>4, <2>5, FreshFits
  <2>7. PostureTrue(page', calls', server, foreign)
    BY <2>1, <2>4, <2>5, NothingApplied, TruthSame
  <2>8. QED
    BY <1>0, <2>1, <2>4, <2>5, <2>6, <2>7, AtMostOneCall, PatientCalls
<1>4. ASSUME NEW status \in Statuses, ClickStatus(status)
      PROVE  Patience'
  <2> DEFINE c == Call("update", page.route, status, page.filter)
  <2>1. page' = [page EXCEPT !.updating = TRUE] /\ Makes(<<c>>) /\ page.route \in Findings
    BY <1>4 DEF ClickStatus
  <2>2. c \in Fresh /\ c.kind = "update" /\ c.at = "sent" /\ c.id = page.route
    BY <1>0, <2>1, CallsMade DEF Call, PageRow
  <2>3. /\ page'.session = page.session /\ page'.route = page.route /\ page'.filter = page.filter
        /\ page'.findingsLoad = page.findingsLoad /\ page'.filtered = page.filtered
        /\ page'.detailLoad = page.detailLoad /\ page'.selected = page.selected
        /\ page'.load = page.load /\ page'.posture = page.posture
    BY <1>0, <2>1 DEF PageRow
  <2> HIDE DEF c
  <2>4. Fits(c, page', server, foreign)
    BY <2>2, <2>3, FreshFits
  <2>5. QED
    BY <1>c, <1>s, <2>1, <2>2, <2>3, <2>4, TruthSame
<1>5. CASE OpenModal \/ CloseModal
  <2>1. /\ page'.session = page.session /\ page'.route = page.route /\ page'.filter = page.filter
        /\ page'.findingsLoad = page.findingsLoad /\ page'.filtered = page.filtered
        /\ page'.detailLoad = page.detailLoad /\ page'.selected = page.selected
        /\ page'.load = page.load /\ page'.posture = page.posture
        /\ Makes(<<>>)
    BY <1>0, <1>5 DEF OpenModal, CloseModal, PageRow
  <2>2. /\ Truth(page, calls, server, foreign)
        /\ \A kind, id : Applied(calls', kind, id) <=> Applied(calls, kind, id)
    BY <1>0, <2>1, NothingApplied
  <2>3. /\ ListTrue(page', server, foreign) /\ PostureTrue(page', calls', server, foreign)
        /\ DetailTrue(page', calls', server, foreign)
    BY <2>1, <2>2, TruthSame
  <2>4. QED
    BY <1>0, <1>n, <2>1, <2>3, PatientCalls
<1>6. CASE (\E a \in Accounts : Connect(a)) \/ SignOut \/ SignIn
  <2>1. PICK c \in Fresh : Makes(<<c>>) /\ c.kind \in {"connect", "logout", "login"}
                           /\ c.at = "sent"
    <3>1. /\ \A a \in Accounts : Call("connect", a, None, None) \in Fresh
          /\ Call("login", None, None, None) \in Fresh
          /\ Call("logout", None, None, None) \in Fresh
          /\ \A kind, id : LET c == Call(kind, id, None, None) IN c.kind = kind /\ c.at = "sent"
      BY CallsMade DEF Call
    <3>2. QED
      BY <1>6, <3>1 DEF Connect, SignOut, SignIn
  <2>2. /\ page'.session = page.session /\ page'.route = page.route /\ page'.filter = page.filter
        /\ page'.findingsLoad = page.findingsLoad /\ page'.filtered = page.filtered
        /\ page'.detailLoad = page.detailLoad /\ page'.selected = page.selected
        /\ page'.load = page.load /\ page'.posture = page.posture
    BY <1>0, <1>6 DEF Connect, SignOut, SignIn, PageRow
  <2>3. Fits(c, page', server, foreign)
    BY <2>1, FreshFits
  <2>4. QED
    BY <1>c, <1>s, <2>1, <2>2, <2>3, TruthSame
<1>7. QED
  BY <1>1, <1>2, <1>3, <1>4, <1>5, <1>6, UserIs

-----------------------------------------------------------------------------
(* While nobody is hasty, a call that is no read is the only one in flight.  *)
LEMMA Alone ==
  ASSUME Companions(calls), NEW i \in 1..Len(calls), calls[i].at # "done",
         calls[i].kind \notin {"posture", "filtered", "detail"}
  PROVE  \A j \in 1..Len(calls) : j # i => calls[j].at = "done"
BY DEF Companions

LEMMA AnsweredIs ==
  ASSUME Typed, NEW i \in 1..Len(calls), Serve(i), NEW at, NEW answer, Answered(i, at, answer)
  PROVE  /\ Len(calls') = Len(calls)
         /\ \A j \in 1..Len(calls) : j # i => calls'[j] = calls[j]
         /\ calls'[i] = [calls[i] EXCEPT !.at = at, !.answer = answer]
         /\ calls'[i].kind = calls[i].kind /\ calls'[i].id = calls[i].id
         /\ calls'[i].status = calls[i].status /\ calls'[i].filter = calls[i].filter
         /\ calls'[i].at = at /\ calls'[i].answer = answer
<1>1. calls \in Seq(CallSet) /\ calls[i] \in CallRow
  BY DEF Typed, CallSet
<1> DEFINE c == [calls[i] EXCEPT !.at = at, !.answer = answer]
<1>2. calls' = [calls EXCEPT ![i] = c]
  BY DEF Answered
<1> HIDE DEF c
<1>a. DOMAIN calls = 1..Len(calls) /\ calls = [j \in 1..Len(calls) |-> calls[j]]
  BY <1>1
<1>b. Len(calls') = Len(calls)
  BY ServeIs
<1>3. /\ Len(calls') = Len(calls)
      /\ \A j \in 1..Len(calls) : j # i => calls'[j] = calls[j]
      /\ calls'[i] = [calls[i] EXCEPT !.at = at, !.answer = answer]
  BY <1>2, <1>a, <1>b DEF c
<1>4. LET d == [calls[i] EXCEPT !.at = at, !.answer = answer]
      IN /\ d.kind = calls[i].kind /\ d.id = calls[i].id /\ d.at = at /\ d.answer = answer
         /\ d.status = calls[i].status /\ d.filter = calls[i].filter
  BY <1>1 DEF CallRow
<1>5. QED
  BY <1>3, <1>4

(* An answer to a read, or one that asks for no change, is nothing applied.  *)
LEMMA AppliedSame ==
  ASSUME Typed, NEW i \in 1..Len(calls), Serve(i), NEW at, NEW answer, Answered(i, at, answer),
         calls[i].at # "ok",
         at # "ok" \/ calls[i].kind \in {"posture", "filtered", "detail"}
  PROVE  \A kind \in {"update", "connect"} : \A id :
           Applied(calls', kind, id) <=> Applied(calls, kind, id)
<1>1. /\ Len(calls') = Len(calls) /\ calls'[i].kind = calls[i].kind /\ calls'[i].at = at
      /\ \A j \in 1..Len(calls) : j # i => calls'[j] = calls[j]
  BY AnsweredIs
<1>2. QED
  BY <1>1 DEF Applied

LEMMA PatientServe ==
  ASSUME Typed, Patience, NEW i \in 1..Len(calls), Serve(i)
  PROVE  Patience'
<1>i. /\ UNCHANGED <<page, hasty, foreign>> /\ Len(calls') = Len(calls)
      /\ \A j \in 1..Len(calls) : calls'[j].kind = calls[j].kind
                                  /\ (calls'[j].at = "done" <=> calls[j].at = "done")
  BY ServeIs
<1> SUFFICES ASSUME ~hasty PROVE Patience'
  BY <1>i DEF Patience
<1>0. /\ Companions(calls) /\ Truth(page, calls, server, foreign)
      /\ \A j \in 1..Len(calls) : calls[j].at # "done" => Fits(calls[j], page, server, foreign)
  BY DEF Patience, Pending
<1>t. /\ page \in PageRow /\ calls[i] \in CallRow /\ Sensible(calls[i])
      /\ server.status \in [Findings -> Statuses] /\ server.accounts \subseteq Accounts
      /\ server = [status |-> server.status, accounts |-> server.accounts]
  BY DEF Typed, CallSet
<1>1. Companions(calls')
  BY <1>0, <1>i DEF Companions
<1>2. SUFFICES /\ \A j \in 1..Len(calls) : calls[j].at # "done" => Fits(calls'[j], page, server', foreign)
               /\ Truth(page, calls', server', foreign)
  BY <1>1, <1>i DEF Patience, Pending
<1>3. CASE ServeRead(i)
  <2> DEFINE answer == CASE calls[i].kind = "posture"  ->
                              [status |-> Listed(None), accounts |-> ListedAccounts]
                         [] calls[i].kind = "filtered" -> Listed(calls[i].filter)
                         [] calls[i].kind = "detail"   -> server.status[calls[i].id]
  <2>1. /\ calls[i].at = "sent" /\ calls[i].kind \in {"posture", "filtered", "detail"}
        /\ Answered(i, "ok", answer) /\ server' = server
    BY <1>3 DEF ServeRead
  <2>2. /\ calls[i].kind = "posture" =>
             answer = [status |-> Listed(None), accounts |-> ListedAccounts]
        /\ calls[i].kind = "filtered" => answer = Listed(calls[i].filter)
        /\ calls[i].kind = "detail" => answer = server.status[calls[i].id]
    OBVIOUS
  <2> HIDE DEF answer
  <2>3. Fits(calls'[i], page, server, foreign)
    <3>1. Fits(calls[i], page, server, foreign)
      BY <1>0, <2>1
    <3>2. /\ calls'[i].kind = calls[i].kind /\ calls'[i].id = calls[i].id
          /\ calls'[i].filter = calls[i].filter
          /\ calls'[i].at = "ok" /\ calls'[i].answer = answer
      BY <2>1, AnsweredIs
    <3>3. /\ calls[i].kind = "posture" =>
               /\ \A f \in Findings : answer.status[f] = server.status[f]
               /\ \A a \in Accounts : answer.accounts[a] = IF a \in server.accounts THEN 1 ELSE 0
          /\ calls[i].kind = "filtered" => answer = ListOf(server, calls[i].filter)
          /\ calls[i].kind = "detail" => answer = server.status[calls[i].id]
      BY <1>t, <2>2, ListsAre
    <3>4. QED
      BY <2>1, <3>1, <3>2, <3>3 DEF Fits
  <2>4. \A kind \in {"update", "connect"} : \A id : Applied(calls', kind, id) <=> Applied(calls, kind, id)
    BY <2>1, AppliedSame
  <2>5. Truth(page, calls', server, foreign)
    BY <1>0, <2>4 DEF Truth, PostureTrue, DetailTrue
  <2>6. QED
    BY <1>0, <2>1, <2>3, <2>5, AnsweredIs
<1>4. CASE ServeUpdate(i)
  <2> DEFINE id == calls[i].id
  <2>1. /\ calls[i].at = "sent" /\ calls[i].kind = "update"
        /\ server' = [server EXCEPT !.status[id] = calls[i].status]
        /\ Answered(i, "ok", calls[i].status)
    BY <1>4 DEF ServeUpdate
  <2>2. id \in Findings /\ id = page.route
    BY <1>0, <1>t, <2>1 DEF Sensible, Fits
  <2>3. /\ server'.accounts = server.accounts /\ server'.status[id] = calls[i].status
        /\ \A f \in Findings : f # id => server'.status[f] = server.status[f]
    BY <1>t, <2>1, <2>2
  <2>4. /\ calls'[i].kind = "update" /\ calls'[i].id = id /\ calls'[i].status = calls[i].status
        /\ calls'[i].at = "ok"
        /\ \A j \in 1..Len(calls) : j # i => calls'[j] = calls[j]
    BY <2>1, AnsweredIs
  <2>5. \A j \in 1..Len(calls) : calls[j].at # "done" => Fits(calls'[j], page, server', foreign)
    <3>1. Fits(calls'[i], page, server', foreign)
      BY <2>2, <2>3, <2>4 DEF Fits
    <3>2. \A j \in 1..Len(calls) : j # i => calls[j].at = "done"
      BY <1>0, <2>1, Alone
    <3>3. QED
      BY <3>1, <3>2
  <2>6. /\ Applied(calls', "update", id)
        /\ \A f : Applied(calls, "update", f) => Applied(calls', "update", f)
        /\ \A a : Applied(calls', "connect", a) <=> Applied(calls, "connect", a)
    BY <1>i, <2>1, <2>4 DEF Applied
  <2>7. Truth(page, calls', server', foreign)
    <3>1. PostureTrue(page, calls', server', foreign)
      BY <1>0, <2>3, <2>6 DEF Truth, PostureTrue
    <3>2. ListTrue(page, server', foreign)
      BY <2>2, FindingsAreNoLists DEF ListTrue
    <3>3. DetailTrue(page, calls', server', foreign)
      BY <1>0, <2>2, <2>3, <2>6 DEF Truth, DetailTrue
    <3>4. QED
      BY <3>1, <3>2, <3>3 DEF Truth
  <2>8. QED
    BY <2>5, <2>7
<1>5. CASE LookUpAccount(i)
  <2>1. PICK at \in {"refused", "create"} :
          /\ calls[i].at = "sent" /\ calls[i].kind = "connect"
          /\ at = "create" => calls[i].id \notin server.accounts
          /\ Answered(i, at, None) /\ server' = server
    BY <1>5 DEF LookUpAccount
  <2>2. Fits(calls'[i], page, server, foreign)
    BY <2>1, AnsweredIs DEF Fits
  <2>3. \A kind \in {"update", "connect"} : \A id : Applied(calls', kind, id) <=> Applied(calls, kind, id)
    BY <2>1, AppliedSame
  <2>4. Truth(page, calls', server, foreign)
    BY <1>0, <2>3 DEF Truth, PostureTrue, DetailTrue
  <2>5. QED
    BY <1>0, <2>1, <2>2, <2>4, AnsweredIs
<1>6. CASE CreateAccount(i)
  <2> DEFINE id == calls[i].id
             at == IF id \in server.accounts THEN "refused" ELSE "ok"
  <2>1. /\ calls[i].at = "create" /\ calls[i].kind = "connect"
        /\ server' = [server EXCEPT !.accounts = @ \cup {id}]
        /\ Answered(i, at, None)
    BY <1>6, <1>t DEF CreateAccount, Sensible
  <2>2. id \in Accounts
    BY <1>t, <2>1 DEF Sensible
  <2>3. server'.status = server.status /\ server'.accounts = server.accounts \cup {id}
    BY <1>t, <2>1
  <2>4. /\ calls'[i].kind = "connect" /\ calls'[i].id = id /\ calls'[i].at = at
        /\ \A j \in 1..Len(calls) : j # i => calls'[j] = calls[j]
    BY <2>1, AnsweredIs
  <2>5. \A j \in 1..Len(calls) : calls[j].at # "done" => Fits(calls'[j], page, server', foreign)
    <3>1. Fits(calls'[i], page, server', foreign)
      BY <2>3, <2>4 DEF Fits
    <3>2. \A j \in 1..Len(calls) : j # i => calls[j].at = "done"
      BY <1>0, <2>1, Alone
    <3>3. QED
      BY <3>1, <3>2
  <2>6. /\ \A f : Applied(calls', "update", f) <=> Applied(calls, "update", f)
        /\ \A a : a # id => (Applied(calls', "connect", a) <=> Applied(calls, "connect", a))
        /\ id \notin server.accounts => Applied(calls', "connect", id)
    BY <1>i, <2>1, <2>4 DEF Applied
  <2>7. id \in server.accounts => (Applied(calls', "connect", id) <=> Applied(calls, "connect", id))
    BY <1>i, <2>1, <2>4 DEF Applied
  <2>8. Truth(page, calls', server', foreign)
    <3>1. PostureTrue(page, calls', server', foreign)
      BY <1>0, <2>2, <2>3, <2>6, <2>7 DEF Truth, PostureTrue
    <3>2. ListTrue(page, server', foreign)
      BY <1>0, <2>3 DEF Truth, ListTrue, ListOf
    <3>3. DetailTrue(page, calls', server', foreign)
      BY <1>0, <2>3, <2>6 DEF Truth, DetailTrue
    <3>4. QED
      BY <3>1, <3>2, <3>3 DEF Truth
  <2>9. QED
    BY <2>5, <2>8
<1>7. QED
  BY <1>3, <1>4, <1>5, <1>6 DEF Serve

-----------------------------------------------------------------------------
(* What is left in flight when call i has ended.                             *)
LEMMA WhenDone ==
  ASSUME Typed, NEW i \in 1..Len(calls)
  PROVE  /\ Done(i) \in Seq(CallSet) /\ Len(Done(i)) = Len(calls)
         /\ \A j \in 1..Len(calls) : Done(i)[j].at # "done" => j # i /\ Done(i)[j] = calls[j]
         /\ Companions(calls) => Companions(Done(i))
         /\ \A kind, id : kind # calls[i].kind =>
              (Applied(Done(i), kind, id) <=> Applied(calls, kind, id))
         /\ \A kind, id : id # calls[i].id =>
              (Applied(Done(i), kind, id) <=> Applied(calls, kind, id))
<1>1. /\ Done(i) \in Seq(CallSet) /\ Len(Done(i)) = Len(calls) /\ Ended(calls[i]).at = "done"
      /\ \A j \in 1..Len(calls) : Done(i)[j] = IF j = i THEN Ended(calls[i]) ELSE calls[j]
  BY DoneTyped
<1>2. \A j \in 1..Len(calls) : Done(i)[j].at # "done" => j # i /\ Done(i)[j] = calls[j]
  BY <1>1
<1>3. Companions(calls) => Companions(Done(i))
  BY <1>1, <1>2 DEF Companions
<1>4. \A j \in 1..Len(calls) : j # i => Done(i)[j] = calls[j]
  BY <1>1
<1>5. \A kind, id : Applied(Done(i), kind, id) => Applied(calls, kind, id)
  BY <1>1, <1>2 DEF Applied
<1>6. \A kind, id : kind # calls[i].kind \/ id # calls[i].id =>
        (Applied(calls, kind, id) => Applied(Done(i), kind, id))
  BY <1>1, <1>4 DEF Applied
<1>7. QED
  BY <1>1, <1>2, <1>3, <1>5, <1>6

(* The answer is gone from the calls: what is left to show is its effect.    *)
LEMMA PatientEnds ==
  ASSUME Typed, Patience, ~hasty, NEW i \in 1..Len(calls), calls' = Done(i), server' = server,
         NEW g, foreign' = g, foreign \subseteq g,
         \A j \in 1..Len(calls) : j # i /\ calls[j].at # "done" => Fits(calls[j], page', server, g),
         Truth(page', Done(i), server, g)
  PROVE  Patience'
<1>1. /\ Companions(calls') /\ Len(calls') = Len(calls)
      /\ \A j \in 1..Len(calls) : calls'[j].at # "done" => j # i /\ calls'[j] = calls[j]
  BY WhenDone DEF Patience
<1>2. \A j \in 1..Len(calls) : calls'[j].at # "done" => Fits(calls'[j], page', server', foreign')
  BY <1>1
<1>3. \A j \in Pending' : j \in 1..Len(calls) /\ calls'[j].at # "done"
  BY <1>1 DEF Pending
<1>4. QED
  BY <1>1, <1>2, <1>3 DEF Patience

LEMMA PatientTakes ==
  ASSUME Typed, Patience, ~hasty, NEW i \in 1..Len(calls), NEW ok \in BOOLEAN,
         \/ TakePosture(i, ok) \/ TakeFiltered(i, ok) \/ TakeDetail(i, ok)
         \/ TakeUpdate(i, ok) \/ TakeConnect(i, ok)
  PROVE  Patience'
<1> DEFINE c == calls[i]
<1>0. /\ Companions(calls) /\ Truth(page, calls, server, foreign)
      /\ \A j \in 1..Len(calls) : calls[j].at # "done" => Fits(calls[j], page, server, foreign)
  BY DEF Patience, Pending
<1>t. /\ page \in PageRow /\ c \in CallRow /\ Sensible(c)
      /\ server.status \in [Findings -> Statuses] /\ server.accounts \subseteq Accounts
  BY DEF Typed, CallSet
<1>e. \A kind \in {"posture", "filtered", "detail", "update", "connect"} : Ends(i, kind, ok) =>
        c.kind = kind /\ c.at # "done" /\ (ok => c.at = "ok")
  BY DEF Ends
<1>1. CASE TakePosture(i, ok)
  <2>1. /\ c.kind = "posture" /\ c.at # "done" /\ (ok => c.at = "ok")
        /\ calls' = Done(i) /\ server' = server /\ foreign' = foreign
        /\ page' = IF ok THEN [page EXCEPT !.posture = c.answer, !.load = "ready",
                                             !.filtered = c.answer.status]
                   ELSE [page EXCEPT !.load = "error"]
    BY <1>1, <1>e DEF TakePosture
  <2>2. /\ page'.session = page.session /\ page'.route = page.route /\ page'.filter = page.filter
        /\ page'.findingsLoad = page.findingsLoad /\ page'.detailLoad = page.detailLoad
        /\ page'.selected = page.selected
        /\ ok => page'.posture = c.answer /\ page'.filtered = c.answer.status
        /\ ~ok => page'.load = "error" /\ page'.filtered = page.filtered
    BY <1>t, <2>1 DEF PageRow
  <2>3. \A j \in 1..Len(calls) : j # i /\ calls[j].at # "done" =>
          calls[j].kind \in {"filtered", "detail"} /\ Fits(calls[j], page', server, foreign)
    BY <1>0, <2>1, <2>2 DEF Companions, Fits
  <2>4. \A id : ~Applied(calls, "update", id) /\ ~Applied(calls, "connect", id)
    BY <2>1, <2>3 DEF Applied
  <2>5. \A id : ~Applied(Done(i), "update", id) /\ ~Applied(Done(i), "connect", id)
    BY <2>1, <2>4, WhenDone
  <2>6. ok => /\ \A f \in Findings : c.answer.status[f] = server.status[f]
              /\ \A a \in Accounts \ foreign :
                   c.answer.accounts[a] = IF a \in server.accounts THEN 1 ELSE 0
    BY <1>0, <2>1 DEF Fits
  <2>7. PostureTrue(page', Done(i), server, foreign)
    <3>1. CASE ok
      BY <1>t, <2>2, <2>5, <2>6, <3>1, StatusesAreSome DEF PostureTrue
    <3>2. CASE ~ok
      BY <2>2, <3>2 DEF PostureTrue
    <3>3. QED
      BY <3>1, <3>2
  <2>8. ListTrue(page', server, foreign)
    BY <1>0, <2>2, <2>6 DEF Truth, ListTrue
  <2>9. DetailTrue(page', Done(i), server, foreign)
    BY <1>0, <2>2, <2>4 DEF Truth, DetailTrue
  <2>10. QED
    BY <2>1, <2>3, <2>7, <2>8, <2>9, PatientEnds DEF Truth
<1>2. CASE TakeFiltered(i, ok)
  <2>1. /\ c.kind = "filtered" /\ c.at # "done" /\ (ok => c.at = "ok")
        /\ calls' = Done(i) /\ server' = server /\ foreign' = foreign
        /\ page' = IF ok THEN [page EXCEPT !.filtered = c.answer, !.findingsLoad = "ready"]
                   ELSE [page EXCEPT !.findingsLoad = "error", !.findingsError = TRUE]
    BY <1>2, <1>e DEF TakeFiltered
  <2>2. /\ page'.session = page.session /\ page'.route = page.route /\ page'.filter = page.filter
        /\ page'.load = page.load /\ page'.posture = page.posture
        /\ page'.detailLoad = page.detailLoad /\ page'.selected = page.selected
        /\ ok => page'.filtered = c.answer
        /\ ~ok => page'.findingsLoad = "error"
    BY <1>t, <2>1 DEF PageRow
  <2>3. \A j \in 1..Len(calls) : j # i /\ calls[j].at # "done" => Fits(calls[j], page', server, foreign)
    BY <1>0, <2>2 DEF Fits
  <2>4. \A kind \in {"update", "connect"} : \A id : Applied(Done(i), kind, id) <=> Applied(calls, kind, id)
    BY <2>1, WhenDone
  <2>5. ListTrue(page', server, foreign)
    BY <1>0, <2>1, <2>2 DEF Fits, ListTrue
  <2>6. PostureTrue(page', Done(i), server, foreign) /\ DetailTrue(page', Done(i), server, foreign)
    BY <1>0, <2>2, <2>4 DEF Truth, PostureTrue, DetailTrue
  <2>7. QED
    BY <2>1, <2>3, <2>5, <2>6, PatientEnds DEF Truth
<1>3. CASE TakeDetail(i, ok)
  <2>1. /\ c.kind = "detail" /\ c.at # "done" /\ (ok => c.at = "ok")
        /\ calls' = Done(i) /\ server' = server /\ foreign' = foreign
        /\ page' = IF ok THEN [page EXCEPT !.selected = [id |-> c.id, status |-> c.answer],
                                             !.log = <<c.answer>>, !.detailLoad = "ready"]
                   ELSE [page EXCEPT !.detailLoad = "error"]
    BY <1>3, <1>e DEF TakeDetail
  <2>2. /\ page'.session = page.session /\ page'.route = page.route /\ page'.filter = page.filter
        /\ page'.load = page.load /\ page'.posture = page.posture
        /\ page'.findingsLoad = page.findingsLoad /\ page'.filtered = page.filtered
        /\ ok => page'.selected = [id |-> c.id, status |-> c.answer]
        /\ ~ok => page'.detailLoad = "error"
    BY <1>t, <2>1 DEF PageRow
  <2>3. \A j \in 1..Len(calls) : j # i /\ calls[j].at # "done" => Fits(calls[j], page', server, foreign)
    BY <1>0, <2>2 DEF Fits
  <2>4. \A kind \in {"update", "connect"} : \A id : Applied(Done(i), kind, id) <=> Applied(calls, kind, id)
    BY <2>1, WhenDone
  <2>5. DetailTrue(page', Done(i), server, foreign)
    BY <1>0, <2>1, <2>2 DEF Fits, DetailTrue
  <2>6. PostureTrue(page', Done(i), server, foreign) /\ ListTrue(page', server, foreign)
    BY <1>0, <2>2, <2>4 DEF Truth, PostureTrue, ListTrue
  <2>7. QED
    BY <2>1, <2>3, <2>5, <2>6, PatientEnds DEF Truth
<1>4. CASE TakeUpdate(i, ok)
  <2>1. /\ c.kind = "update" /\ c.at # "done" /\ (ok => c.at = "ok")
        /\ calls' = Done(i) /\ server' = server
        /\ page' = IF ok
                   THEN [page EXCEPT
                           !.selected = [id |-> c.id, status |-> c.answer],
                           !.posture.status = Replaced(@, c.id, c.answer),
                           !.filtered = Refiltered(@, c.id, c.answer, c.filter),
                           !.log = <<c.status>> \o @, !.updating = FALSE]
                   ELSE [page EXCEPT !.updating = FALSE]
        /\ foreign' = IF ok THEN foreign ELSE foreign \cup {c.id}
    BY <1>4, <1>e DEF TakeUpdate, Unconfirmed
  <2>2. \A j \in 1..Len(calls) : j # i => calls[j].at = "done"
    BY <1>0, <2>1, Alone
  <2>3. c.id \in Findings /\ c.id = page.route /\ (ok => c.answer = server.status[c.id])
    BY <1>0, <1>t, <2>1 DEF Sensible, Fits
  <2>4. /\ \A kind, id : id # c.id => (Applied(Done(i), kind, id) <=> Applied(calls, kind, id))
        /\ \A id : Applied(Done(i), "connect", id) <=> Applied(calls, "connect", id)
        /\ \A id : id # c.id => ~Applied(calls, "update", id)
    <3>1. \A id : Applied(Done(i), "connect", id) <=> Applied(calls, "connect", id)
      BY <2>1, WhenDone
    <3>2. \A id : id # c.id => ~Applied(calls, "update", id)
      BY <2>2 DEF Applied
    <3>3. QED
      BY <3>1, <3>2, WhenDone
  <2>5. CASE ok
    <3>1. /\ page'.session = page.session /\ page'.route = page.route
          /\ page'.load = page.load /\ page'.detailLoad = page.detailLoad
          /\ page'.selected = [id |-> c.id, status |-> c.answer]
          /\ page'.posture.accounts = page.posture.accounts
          /\ page'.posture.status = Replaced(page.posture.status, c.id, c.answer)
      BY <1>t, <2>1, <2>5 DEF PageRow, PostureData
    <3>2. /\ \A f \in Findings : f # c.id => page'.posture.status[f] = page.posture.status[f]
          /\ page.posture.status[c.id] # None => page'.posture.status[c.id] = server.status[c.id]
      BY <1>t, <2>3, <2>5, <3>1 DEF Replaced, PageRow, PostureData, Shown
    <3>3. PostureTrue(page', Done(i), server, foreign)
      <4> SUFFICES ASSUME page.load = "ready" PROVE PostureTrue(page', Done(i), server, foreign)
        BY <3>1 DEF PostureTrue
      <4>1. \A f \in Findings \ foreign :
              page'.posture.status[f] # None /\ page'.posture.status[f] = server.status[f]
        BY <1>0, <1>t, <2>4, <3>2, StatusesAreSome DEF Truth, PostureTrue
      <4>2. \A a \in Accounts \ foreign : page'.posture.accounts[a] =
              IF a \in server.accounts /\ ~Applied(Done(i), "connect", a) THEN 1 ELSE 0
        BY <1>0, <2>4, <3>1 DEF Truth, PostureTrue
      <4>3. QED
        BY <4>1, <4>2 DEF PostureTrue
    <3>4. ListTrue(page', server, foreign)
      BY <2>3, <3>1, FindingsAreNoLists DEF ListTrue
    <3>5. DetailTrue(page', Done(i), server, foreign)
      BY <2>3, <2>5, <3>1 DEF DetailTrue
    <3>6. QED
      BY <2>1, <2>2, <2>5, <3>3, <3>4, <3>5, PatientEnds DEF Truth
  <2>6. CASE ~ok
    <3>1. /\ page'.session = page.session /\ page'.route = page.route
          /\ page'.load = page.load /\ page'.posture = page.posture
          /\ page'.detailLoad = page.detailLoad /\ page'.selected = page.selected
          /\ foreign' = foreign \cup {c.id}
      BY <1>t, <2>1, <2>6 DEF PageRow
    <3>2. PostureTrue(page', Done(i), server, foreign')
      BY <1>0, <2>4, <3>1 DEF Truth, PostureTrue
    <3>3. ListTrue(page', server, foreign')
      BY <2>3, <3>1, FindingsAreNoLists DEF ListTrue
    <3>4. DetailTrue(page', Done(i), server, foreign')
      BY <2>3, <3>1 DEF DetailTrue
    <3>5. QED
      BY <2>1, <2>2, <3>1, <3>2, <3>3, <3>4, PatientEnds DEF Truth
  <2>7. QED
    BY <2>5, <2>6
<1>5. CASE TakeConnect(i, ok)
  <2>1. /\ c.kind = "connect" /\ c.at # "done" /\ (ok => c.at = "ok")
        /\ calls' = Done(i) /\ server' = server
        /\ page' = IF ok THEN [page EXCEPT !.posture.accounts[c.id] = @ + 1,
                                             !.modal = FALSE, !.connecting = FALSE]
                   ELSE [page EXCEPT !.connecting = FALSE]
        /\ foreign' = IF ok THEN foreign ELSE foreign \cup {c.id}
    BY <1>5, <1>e DEF TakeConnect, Unconfirmed
  <2>2. \A j \in 1..Len(calls) : j # i => calls[j].at = "done"
    BY <1>0, <2>1, Alone
  <2>3. c.id \in Accounts
    BY <1>t, <2>1 DEF Sensible
  <2>4. /\ \A id : Applied(Done(i), "update", id) <=> Applied(calls, "update", id)
        /\ \A id : id # c.id => (Applied(Done(i), "connect", id) <=> Applied(calls, "connect", id))
        /\ ~Applied(Done(i), "connect", c.id)
        /\ ok => Applied(calls, "connect", c.id)
    <3>1. ~Applied(Done(i), "connect", c.id)
      BY <2>2, WhenDone DEF Applied
    <3>2. ok => Applied(calls, "connect", c.id)
      BY <2>1 DEF Applied
    <3>3. QED
      BY <2>1, <3>1, <3>2, WhenDone
  <2>5. /\ page'.session = page.session /\ page'.route = page.route /\ page'.filter = page.filter
        /\ page'.load = page.load /\ page'.posture.status = page.posture.status
        /\ page'.findingsLoad = page.findingsLoad /\ page'.filtered = page.filtered
        /\ page'.detailLoad = page.detailLoad /\ page'.selected = page.selected
        /\ \A a \in Accounts : page'.posture.accounts[a] =
             IF ok /\ a = c.id THEN page.posture.accounts[a] + 1 ELSE page.posture.accounts[a]
    BY <1>t, <2>1, <2>3 DEF PageRow, PostureData
  <2>6. foreign \subseteq foreign' /\ (ok => foreign' = foreign) /\ (~ok => c.id \in foreign')
    BY <2>1
  <2>7. PostureTrue(page', Done(i), server, foreign')
    <3> SUFFICES ASSUME page.load = "ready" PROVE PostureTrue(page', Done(i), server, foreign')
      BY <2>5 DEF PostureTrue
    <3>1. \A f \in Findings \ foreign' :
            /\ page'.posture.status[f] # None
            /\ Applied(Done(i), "update", f) \/ page'.posture.status[f] = server.status[f]
      BY <1>0, <2>4, <2>5, <2>6 DEF Truth, PostureTrue
    <3>2. \A a \in Accounts \ foreign : page.posture.accounts[a] =
            IF a \in server.accounts /\ ~Applied(calls, "connect", a) THEN 1 ELSE 0
      BY <1>0 DEF Truth, PostureTrue
    <3>3. ok => c.id \in server.accounts \/ c.id \in foreign
      BY <1>0, <2>1, <2>4 DEF Fits
    <3>4. \A a \in Accounts \ foreign' : page'.posture.accounts[a] =
            IF a \in server.accounts /\ ~Applied(Done(i), "connect", a) THEN 1 ELSE 0
      BY <2>4, <2>5, <2>6, <3>2, <3>3
    <3>5. QED
      BY <2>5, <3>1, <3>4 DEF PostureTrue
  <2>8. ListTrue(page', server, foreign') /\ DetailTrue(page', Done(i), server, foreign')
    BY <1>0, <2>4, <2>5, <2>6 DEF Truth, ListTrue, DetailTrue
  <2>9. QED
    BY <2>1, <2>2, <2>6, <2>7, <2>8, PatientEnds DEF Truth
<1>6. QED
  BY <1>1, <1>2, <1>3, <1>4, <1>5

(* A session that begins loads all it shows, and one that ends shows nothing. *)
LEMMA PatientLogin ==
  ASSUME Typed, Patience, ~hasty, NEW i \in 1..Len(calls), NEW ok \in BOOLEAN, TakeLogin(i, ok)
  PROVE  Patience'
<1> DEFINE p == [page EXCEPT !.session = TRUE, !.signingIn = FALSE]
<1>0. /\ Companions(calls) /\ Truth(page, calls, server, foreign) /\ page \in PageRow
      /\ calls \in Seq(CallSet)
  BY DEF Patience, Typed
<1>1. /\ calls[i].kind = "login" /\ calls[i].at # "done"
      /\ server' = server /\ foreign' = foreign /\ hasty' = hasty
      /\ IF ok THEN /\ page' = PageLoading(PostureLoading(p))
                    /\ calls' = Done(i) \o <<PostureCall>> \o PageCalls(p)
         ELSE page' = [page EXCEPT !.signingIn = FALSE] /\ calls' = Done(i)
  BY DEF TakeLogin, Ends
<1>2. p \in PageRow
  BY <1>0 DEF PageRow
<1> HIDE DEF p
<1>3. \A j \in 1..Len(calls) : j # i => calls[j].at = "done"
  BY <1>0, <1>1, Alone
<1>4. Done(i) \in Seq(CallSet) /\ AllDone(Done(i))
  BY <1>3, DoneTyped DEF AllDone
<1>5. CASE ok
  <2> DEFINE q   == PostureLoading(p)
             new == <<PostureCall>> \o PageCalls(p)
  <2>1. q \in PageRow /\ q.load = "loading" /\ q.filter = p.filter /\ q.route = p.route
    BY <1>2, LoadsTyped DEF PostureLoading, PageRow
  <2>2. /\ new \in Seq(Fresh) /\ Companions(new)
        /\ \A j \in 1..Len(new) : /\ new[j].at = "sent"
                                  /\ new[j].kind \in {"posture", "filtered", "detail"}
                                  /\ new[j].kind = "filtered" => new[j].filter = p.filter
                                  /\ new[j].kind = "detail" => new[j].id = p.route
    BY <1>2, SessionCalls
  <2>3. calls' = Done(i) \o new
    <3>1. <<PostureCall>> \in Seq(Fresh) /\ PageCalls(p) \in Seq(Fresh)
      BY <1>2, CallsMade
    <3>2. <<PostureCall>> \in Seq(CallSet) /\ PageCalls(p) \in Seq(CallSet)
      BY <3>1, FreshCalls
    <3>3. (Done(i) \o <<PostureCall>>) \o PageCalls(p) = Done(i) \o (<<PostureCall>> \o PageCalls(p))
      BY <1>4, <3>2, ConcatAssociative
    <3>4. QED
      BY <1>1, <1>5, <3>3
  <2> HIDE DEF q, new
  <2>4. /\ page'.load = "loading" /\ page'.filter = p.filter /\ page'.route = p.route
        /\ ListTrue(page', server, foreign) /\ DetailTrue(page', calls', server, foreign)
    BY <1>1, <1>5, <2>1, OpenedPage DEF q
  <2>5. \A j \in 1..Len(new) : Fits(new[j], page', server, foreign)
    BY <2>2, <2>4, FreshFits
  <2>6. PostureTrue(page', calls', server, foreign)
    BY <2>4 DEF PostureTrue
  <2>7. /\ Companions(calls')
        /\ \A j \in 1..Len(calls') : calls'[j].at # "done" => \E k \in 1..Len(new) : calls'[j] = new[k]
    BY <1>4, <2>2, <2>3, CallsAppended
  <2>8. \A j \in Pending' : Fits(calls'[j], page', server', foreign')
    <3>1. \A j \in Pending' : j \in 1..Len(calls') /\ calls'[j].at # "done"
      BY DEF Pending
    <3>2. QED
      BY <1>1, <2>5, <2>7, <3>1
  <2>9. QED
    BY <1>1, <2>4, <2>6, <2>7, <2>8 DEF Patience, Truth
<1>6. CASE ~ok
  <2>1. /\ page'.session = page.session /\ page'.route = page.route /\ page'.filter = page.filter
        /\ page'.load = page.load /\ page'.posture = page.posture
        /\ page'.findingsLoad = page.findingsLoad /\ page'.filtered = page.filtered
        /\ page'.detailLoad = page.detailLoad /\ page'.selected = page.selected
        /\ calls' = Done(i)
    BY <1>0, <1>1, <1>6 DEF PageRow
  <2>2. \A kind \in {"update", "connect"} : \A id : Applied(Done(i), kind, id) <=> Applied(calls, kind, id)
    BY <1>1, WhenDone
  <2>3. Truth(page', Done(i), server, foreign)
    BY <1>0, <2>1, <2>2 DEF Truth, PostureTrue, ListTrue, DetailTrue
  <2>4. QED
    BY <1>1, <1>3, <2>1, <2>3, PatientEnds
<1>7. QED
  BY <1>5, <1>6

LEMMA PatientLogout ==
  ASSUME Typed, Patience, ~hasty, NEW i \in 1..Len(calls), TakeLogout(i)
  PROVE  Patience'
<1>0. Companions(calls) /\ page \in PageRow
  BY DEF Patience, Typed
<1>1. /\ calls[i].kind = "logout" /\ calls[i].at # "done"
      /\ calls' = Done(i) /\ server' = server /\ foreign' = foreign
      /\ page' = [page EXCEPT !.session = FALSE, !.posture = NoPosture, !.load = "idle",
                              !.route = "overview"]
  BY DEF TakeLogout, Ends
<1>2. page'.session = FALSE /\ page'.load = "idle"
  BY <1>0, <1>1 DEF PageRow
<1>3. Truth(page', Done(i), server, foreign)
  BY <1>2 DEF Truth, PostureTrue, ListTrue, DetailTrue
<1>4. QED
  BY <1>0, <1>1, <1>3, Alone, PatientEnds

(* What somebody else connects is exempt from then on.                       *)
LEMMA PatientElsewhere ==
  ASSUME Typed, Patience, ~hasty, NEW a \in Accounts, ConnectElsewhere(a)
  PROVE  Patience'
<1>1. /\ server' = [server EXCEPT !.accounts = @ \cup {a}] /\ foreign' = foreign \cup {a}
      /\ page' = page /\ calls' = calls
  BY DEF ConnectElsewhere
<1>2. /\ server = [status |-> server.status, accounts |-> server.accounts]
      /\ Companions(calls) /\ Truth(page, calls, server, foreign)
      /\ \A i \in Pending : Fits(calls[i], page, server, foreign)
  BY DEF Typed, Patience
<1>3. server'.status = server.status /\ server'.accounts = server.accounts \cup {a}
  BY <1>1, <1>2
<1>4. \A i \in Pending : Fits(calls[i], page, server', foreign')
  BY <1>1, <1>2, <1>3 DEF Fits, ListOf
<1>5. Pending' = Pending
  BY <1>1 DEF Pending
<1>6. Truth(page, calls, server', foreign')
  <2>1. PostureTrue(page, calls, server', foreign')
    BY <1>1, <1>2, <1>3 DEF Truth, PostureTrue
  <2>2. ListTrue(page, server', foreign')
    BY <1>1, <1>2, <1>3 DEF Truth, ListTrue, ListOf
  <2>3. DetailTrue(page, calls, server', foreign')
    BY <1>1, <1>2, <1>3 DEF Truth, DetailTrue
  <2>4. QED
    BY <2>1, <2>2, <2>3 DEF Truth
<1>7. QED
  BY <1>1, <1>2, <1>4, <1>5, <1>6 DEF Patience

LEMMA PatienceInit == Init => Patience
<1> SUFFICES ASSUME Init PROVE Patience
  OBVIOUS
<1>0. /\ Typed /\ SignedOut \in PageRow
      /\ server.status \in [Findings -> Statuses] /\ server.accounts = {}
  <2>1. /\ "idle" \in Loads /\ <<>> \in Seq(Statuses)
        /\ NoFindings \in Shown /\ None \in Filters
        /\ NoPosture \in PostureData /\ "overview" \in Routes
        /\ Nothing \in [id : Findings \cup {None}, status : Statuses \cup {None}]
    BY DEF Loads, NoFindings, Shown, NoPosture, PostureData, Filters, Nothing, Routes
  <2>2. SignedOut \in PageRow
    BY <2>1 DEF SignedOut, PageRow
  <2>3. server \in [status : [Findings -> Statuses], accounts : {{}}]
    BY DEF Init
  <2>4. QED
    BY <2>2, <2>3, InitTyped
<1>1. CASE Mount
  <2>1. PICK token \in BOOLEAN, r \in Routes :
          LET p == [SignedOut EXCEPT !.session = token, !.route = r]
          IN IF token THEN /\ page = PageLoading(PostureLoading(p))
                           /\ calls = <<PostureCall>> \o PageCalls(p)
                      ELSE page = p /\ calls = <<>>
    BY <1>1 DEF Mount
  <2> DEFINE p == [SignedOut EXCEPT !.session = token, !.route = r]
  <2>2. p \in PageRow /\ p.session = token /\ p.load = "idle"
    <3>1. p \in PageRow /\ p.session = token
      BY <1>0 DEF PageRow
    <3>2. p.load = "idle"
      BY DEF SignedOut
    <3>3. QED
      BY <3>1, <3>2
  <2>3. IF token THEN /\ page = PageLoading(PostureLoading(p))
                      /\ calls = <<PostureCall>> \o PageCalls(p)
                 ELSE page = p /\ calls = <<>>
    BY <2>1
  <2> HIDE DEF p
  <2>4. CASE token
    <3> DEFINE q == PostureLoading(p)
    <3>1. q \in PageRow /\ q.load = "loading" /\ q.filter = p.filter /\ q.route = p.route
      BY <2>2, LoadsTyped DEF PostureLoading, PageRow
    <3>2. page = PageLoading(q) /\ calls = <<PostureCall>> \o PageCalls(p)
      BY <2>3, <2>4
    <3> HIDE DEF q
    <3>3. /\ Companions(calls)
          /\ \A j \in 1..Len(calls) : /\ calls[j].at = "sent"
                                      /\ calls[j].kind \in {"posture", "filtered", "detail"}
                                      /\ calls[j].kind = "filtered" => calls[j].filter = p.filter
                                      /\ calls[j].kind = "detail" => calls[j].id = p.route
      BY <2>2, <3>2, SessionCalls
    <3>4. /\ page.load = "loading" /\ page.filter = p.filter /\ page.route = p.route
          /\ ListTrue(page, server, foreign) /\ DetailTrue(page, calls, server, foreign)
      BY <3>1, <3>2, OpenedPage
    <3>5. \A j \in Pending : Fits(calls[j], page, server, foreign)
      BY <3>3, <3>4, FreshFits DEF Pending
    <3>6. QED
      BY <3>3, <3>4, <3>5 DEF Patience, Truth, PostureTrue
  <2>5. CASE ~token
    BY <2>2, <2>3, <2>5 DEF Patience, Companions, Pending, Truth, PostureTrue, ListTrue, DetailTrue
  <2>6. QED
    BY <2>4, <2>5
<1>2. CASE Settled
  <2>1. calls = <<>>
    BY <1>2 DEF Settled
  <2>2. Companions(calls) /\ Pending = {}
    BY <2>1 DEF Companions, Pending
  <2>3. \A kind, id : ~Applied(calls, kind, id)
    BY <2>1 DEF Applied
  <2>4. PICK r \in Routes, filter \in Filters :
          LET listed == [SignedOut EXCEPT
                           !.session = TRUE, !.route = r, !.load = "ready",
                           !.posture = [status |-> Listed(None), accounts |-> ListedAccounts],
                           !.filter = filter, !.filtered = Listed(filter),
                           !.findingsLoad = "ready"]
          IN page = IF r \in Findings
                    THEN [listed EXCEPT !.selected = [id |-> r, status |-> server.status[r]],
                                        !.log = <<server.status[r]>>, !.detailLoad = "ready"]
                    ELSE listed
    BY <1>2 DEF Settled
  <2>5. /\ page.route = r /\ page.filter = filter
        /\ page.posture.status = Listed(None) /\ page.posture.accounts = ListedAccounts
        /\ page.filtered = Listed(filter)
        /\ r \in Findings => page.selected = [id |-> r, status |-> server.status[r]]
    BY <2>4 DEF SignedOut
  <2>6. PostureTrue(page, calls, server, foreign)
    BY <1>0, <2>3, <2>5, ListsAre, StatusesAreSome DEF PostureTrue
  <2>7. ListTrue(page, server, foreign)
    BY <1>0, <2>5, ListsAre DEF ListTrue
  <2>8. DetailTrue(page, calls, server, foreign)
    BY <2>5 DEF DetailTrue
  <2>9. QED
    BY <2>2, <2>6, <2>7, <2>8 DEF Patience, Truth
<1>3. QED
  BY <1>1, <1>2 DEF Init

LEMMA PatienceStep ==
  ASSUME Typed, Patience, [Next]_vars
  PROVE  Patience'
<1>1. CASE User
  BY <1>1, PatientUser
<1>2. ASSUME NEW i \in 1..Len(calls), Serve(i)
      PROVE  Patience'
  BY <1>2, PatientServe
<1>3. ASSUME NEW i \in 1..Len(calls), NEW ok \in BOOLEAN,
             \/ TakePosture(i, ok) \/ TakeFiltered(i, ok) \/ TakeDetail(i, ok)
             \/ TakeUpdate(i, ok) \/ TakeConnect(i, ok) \/ TakeLogin(i, ok)
      PROVE  Patience'
  <2>1. hasty' = hasty
    BY <1>3 DEF TakePosture, TakeFiltered, TakeDetail, TakeUpdate, TakeConnect, TakeLogin
  <2>2. QED
    BY <1>3, <2>1, PatientTakes, PatientLogin DEF Patience
<1>4. ASSUME NEW i \in 1..Len(calls), TakeLogout(i)
      PROVE  Patience'
  <2>1. hasty' = hasty
    BY <1>4 DEF TakeLogout
  <2>2. QED
    BY <1>4, <2>1, PatientLogout DEF Patience
<1>5. ASSUME NEW a \in Accounts, ConnectElsewhere(a)
      PROVE  Patience'
  <2>1. hasty' = hasty
    BY <1>5 DEF ConnectElsewhere
  <2>2. QED
    BY <1>5, <2>1, PatientElsewhere DEF Patience
<1>6. CASE UNCHANGED vars
  BY <1>6 DEF vars, Patience, Pending
<1>7. QED
  BY <1>1, <1>2, <1>3, <1>4, <1>5, <1>6, NextIs

(* THEOREM.  Who always waits for the answers sees what the API has, once    *)
(* they are there: the lists, the accounts and the finding opened, but for   *)
(* what somebody else did or nobody confirmed.                               *)
THEOREM PatientUsersSeeTheTruth == Spec => []PatientSeesTruth
<1>1. Typed /\ Patience => PatientSeesTruth
  <2> SUFFICES ASSUME Typed, Patience, ~hasty, Pending = {}, page.session, page.load = "ready"
               PROVE  /\ \A f \in Findings \ foreign :
                           /\ page.posture.status[f] = server.status[f]
                           /\ page.route = "findings" /\ page.findingsLoad = "ready"
                                => page.filtered[f] \in {Listed(page.filter)[f], server.status[f]}
                           /\ page.route = f /\ page.detailLoad = "ready"
                                => page.selected = [id |-> f, status |-> server.status[f]]
                      /\ \A a \in Accounts \ foreign : page.posture.accounts[a] = ListedAccounts[a]
    BY DEF PatientSeesTruth
  <2>1. \A kind, id : ~Applied(calls, kind, id)
    BY DEF Applied, Pending
  <2>2. Truth(page, calls, server, foreign)
    BY DEF Patience
  <2>3. /\ server.status \in [Findings -> Statuses]
        /\ page.selected = [id |-> page.selected.id, status |-> page.selected.status]
    BY DEF Typed, PageRow
  <2>4. QED
    BY <2>1, <2>2, <2>3, ListsAre DEF Truth, PostureTrue, ListTrue, DetailTrue
<1>2. QED
  BY <1>1, InitTyped, TypeStep, PatienceInit, PatienceStep, PTL DEF Spec

=============================================================================
