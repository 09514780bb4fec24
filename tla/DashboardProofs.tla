-------------------------- MODULE DashboardProofs --------------------------
(***************************************************************************)
(* Proofs about Dashboard, for any number of findings, statuses, accounts  *)
(* and calls.                                                              *)
(***************************************************************************)
EXTENDS Dashboard, SequenceTheorems, TLAPS

PostureData == [status : Shown, accounts : [Accounts -> Nat]]

PageRow ==
  [session : BOOLEAN, signingIn : BOOLEAN, route : Routes, load : Loads,
   posture : PostureData, filter : Filters, filtered : Shown, findingsLoad : Loads,
   findingsError : BOOLEAN,
   selected : [id : Findings \cup {None}, status : Statuses \cup {None}],
   detailLoad : Loads, log : Seq(Statuses), updating : BOOLEAN,
   modal : BOOLEAN, connecting : BOOLEAN]

CallRow ==
  [kind : Kinds \cup {None}, id : Findings \cup Accounts \cup {None},
   status : Statuses \cup {None}, filter : Filters,
   at : {"sent", "create", "ok", "refused", "done"},
   answer : {None} \cup Statuses \cup Shown \cup PostureData]

(* A call in flight asks for what its kind is about, and is answered so.     *)
Sensible(c) ==
  c.at # "done" =>
    /\ c.kind \in Kinds
    /\ c.kind = "detail"  => c.id \in Findings
    /\ c.kind = "update"  => c.id \in Findings /\ c.status \in Statuses
    /\ c.kind = "connect" => c.id \in Accounts
    /\ c.at = "create"    => c.kind = "connect"
    /\ c.at = "ok" => /\ c.kind = "posture"  => c.answer \in PostureData
                      /\ c.kind = "filtered" => c.answer \in Shown
                      /\ c.kind = "detail"   => c.answer \in Statuses
                      /\ c.kind = "update"   => c.answer = c.status

CallSet == {c \in CallRow : Sensible(c)}

Typed ==
  /\ page \in PageRow
  /\ calls \in Seq(CallSet) /\ Len(calls) <= MaxCalls
  /\ server.status \in [Findings -> Statuses] /\ server.accounts \subseteq Accounts
  /\ server = [status |-> server.status, accounts |-> server.accounts]
  /\ foreign \subseteq Findings \cup Accounts

-----------------------------------------------------------------------------
(* The calls that are made are sensible.                                     *)
Fresh == {c \in CallSet : c.at = "sent"}

LEMMA CallsMade ==
  /\ PostureCall \in Fresh
  /\ \A p \in PageRow : PageCalls(p) \in Seq(Fresh) /\ Len(PageCalls(p)) <= 1
  /\ \A f \in Findings, s \in Statuses, g \in Filters : Call("update", f, s, g) \in Fresh
  /\ \A a \in Accounts : Call("connect", a, None, None) \in Fresh
  /\ Call("login", None, None, None) \in Fresh /\ Call("logout", None, None, None) \in Fresh
<1>1. None \in Filters
  BY DEF Filters
<1>2. /\ PostureCall \in Fresh
      /\ \A g \in Filters : Call("filtered", None, None, g) \in Fresh
      /\ Call("login", None, None, None) \in Fresh /\ Call("logout", None, None, None) \in Fresh
  BY <1>1 DEF PostureCall, Call, Fresh, CallSet, CallRow, Sensible, Kinds
<1>3. \A f \in Findings : Call("detail", f, None, None) \in Fresh
  BY <1>1 DEF Call, Fresh, CallSet, CallRow, Sensible, Kinds
<1>4. \A f \in Findings, s \in Statuses, g \in Filters : Call("update", f, s, g) \in Fresh
  BY <1>1 DEF Call, Fresh, CallSet, CallRow, Sensible, Kinds
<1>5. \A a \in Accounts : Call("connect", a, None, None) \in Fresh
  BY <1>1 DEF Call, Fresh, CallSet, CallRow, Sensible, Kinds
<1>6. ASSUME NEW p \in PageRow
      PROVE  PageCalls(p) \in Seq(Fresh) /\ Len(PageCalls(p)) <= 1
  <2>1. p.route \in Routes /\ p.filter \in Filters
    BY DEF PageRow
  <2>2. \/ PageCalls(p) = <<>>
        \/ PageCalls(p) = <<Call("filtered", None, None, p.filter)>>
        \/ p.route \in Findings /\ PageCalls(p) = <<Call("detail", p.route, None, None)>>
    BY <2>1 DEF PageCalls, Routes
  <2>3. CASE PageCalls(p) = <<>>
    BY <2>3
  <2>4. CASE PageCalls(p) = <<Call("filtered", None, None, p.filter)>>
    <3>1. Call("filtered", None, None, p.filter) \in Fresh
      BY <1>2, <2>1
    <3>2. QED
      BY <2>4, <3>1
  <2>5. CASE p.route \in Findings /\ PageCalls(p) = <<Call("detail", p.route, None, None)>>
    <3>1. Call("detail", p.route, None, None) \in Fresh
      BY <1>3, <2>5
    <3>2. QED
      BY <2>5, <3>1
  <2>6. QED
    BY <2>2, <2>3, <2>4, <2>5
<1>7. QED
  BY <1>2, <1>4, <1>5, <1>6

LEMMA FreshCalls ==
  ASSUME NEW s \in Seq(Fresh)
  PROVE  s \in Seq(CallSet) /\ \A i \in 1..Len(s) : s[i] \in CallSet /\ s[i].at = "sent"
<1>1. Fresh \subseteq CallSet
  BY DEF Fresh
<1>2. \A i \in 1..Len(s) : s[i] \in Fresh
  OBVIOUS
<1>3. s \in Seq(CallSet)
  BY <1>1, <1>2
<1>4. QED
  BY <1>1, <1>2, <1>3 DEF Fresh

(* The loads keep the page in its type.                                      *)
LEMMA LoadsTyped ==
  ASSUME NEW p \in PageRow
  PROVE  PostureLoading(p) \in PageRow /\ FilteredLoading(p) \in PageRow
         /\ DetailLoading(p) \in PageRow /\ PageLoading(p) \in PageRow
<1>1. "loading" \in Loads /\ <<>> \in Seq(Statuses)
      /\ Nothing \in [id : Findings \cup {None}, status : Statuses \cup {None}]
  BY DEF Loads, Nothing
<1>2. PostureLoading(p) \in PageRow /\ FilteredLoading(p) \in PageRow
  BY <1>1 DEF PostureLoading, FilteredLoading, PageRow
<1>3. DetailLoading(p) \in PageRow
  BY <1>1 DEF DetailLoading, PageRow
<1>4. QED
  BY <1>2, <1>3 DEF PageLoading

(* What the API lists.                                                       *)
LEMMA ListsTyped ==
  ASSUME server.status \in [Findings -> Statuses]
  PROVE  /\ \A filter : Listed(filter) \in Shown
         /\ ListedAccounts \in [Accounts -> Nat]
BY DEF Listed, ListedAccounts, Shown

LEMMA InitTyped == Init => Typed
<1> SUFFICES ASSUME Init PROVE Typed
  OBVIOUS
<1>1. /\ server \in [status : [Findings -> Statuses], accounts : {{}}]
      /\ foreign = {}
  BY DEF Init
<1>2. /\ server.status \in [Findings -> Statuses] /\ server.accounts = {}
      /\ server = [status |-> server.status, accounts |-> server.accounts]
  BY <1>1
<1>3. /\ "idle" \in Loads /\ "ready" \in Loads /\ <<>> \in Seq(Statuses)
      /\ NoFindings \in Shown /\ None \in Filters
      /\ NoPosture \in PostureData /\ "overview" \in Routes
      /\ Nothing \in [id : Findings \cup {None}, status : Statuses \cup {None}]
  BY DEF Loads, NoFindings, Shown, NoPosture, PostureData, Filters, Nothing, Routes
<1>4. SignedOut \in PageRow
  BY <1>3 DEF SignedOut, PageRow
<1>5. CASE Mount
  <2>1. PICK token \in BOOLEAN, r \in Routes :
          LET p == [SignedOut EXCEPT !.session = token, !.route = r]
          IN IF token THEN /\ page = PageLoading(PostureLoading(p))
                           /\ calls = <<PostureCall>> \o PageCalls(p)
                      ELSE page = p /\ calls = <<>>
    BY <1>5 DEF Mount
  <2> DEFINE p == [SignedOut EXCEPT !.session = token, !.route = r]
  <2>2. p \in PageRow
    BY <1>4 DEF PageRow
  <2>0. IF token THEN /\ page = PageLoading(PostureLoading(p))
                      /\ calls = <<PostureCall>> \o PageCalls(p)
                 ELSE page = p /\ calls = <<>>
    BY <2>1
  <2> HIDE DEF p
  <2>3. PageLoading(PostureLoading(p)) \in PageRow
    BY <2>2, LoadsTyped
  <2>4. PageCalls(p) \in Seq(CallSet) /\ Len(PageCalls(p)) <= 1 /\ PostureCall \in CallSet
    <3>1. PageCalls(p) \in Seq(Fresh) /\ Len(PageCalls(p)) <= 1
      BY <2>2, CallsMade
    <3>2. PostureCall \in CallSet
      BY CallsMade DEF Fresh
    <3>3. QED
      BY <3>1, <3>2, FreshCalls
  <2>5. /\ <<PostureCall>> \o PageCalls(p) \in Seq(CallSet)
        /\ Len(<<PostureCall>> \o PageCalls(p)) <= 2
    BY <2>4
  <2>6. page \in PageRow /\ calls \in Seq(CallSet) /\ Len(calls) <= 2
    <3>1. CASE token
      BY <2>0, <2>3, <2>5, <3>1
    <3>2. CASE ~token
      BY <2>0, <2>2, <3>2
    <3>3. QED
      BY <3>1, <3>2
  <2>7. QED
    BY <1>1, <1>2, <2>6, DashboardAssumption DEF Typed
<1>6. CASE Settled
  <2>1. PICK r \in Routes, filter \in Filters :
          LET listed == [SignedOut EXCEPT
                           !.session = TRUE, !.route = r, !.load = "ready",
                           !.posture = [status |-> Listed(None), accounts |-> ListedAccounts],
                           !.filter = filter, !.filtered = Listed(filter),
                           !.findingsLoad = "ready"]
          IN page = IF r \in Findings
                    THEN [listed EXCEPT !.selected = [id |-> r, status |-> server.status[r]],
                                        !.log = <<server.status[r]>>, !.detailLoad = "ready"]
                    ELSE listed
    BY <1>6 DEF Settled
  <2> DEFINE listed == [SignedOut EXCEPT
                          !.session = TRUE, !.route = r, !.load = "ready",
                          !.posture = [status |-> Listed(None), accounts |-> ListedAccounts],
                          !.filter = filter, !.filtered = Listed(filter),
                          !.findingsLoad = "ready"]
  <2>2. listed \in PageRow
    <3>1. [status |-> Listed(None), accounts |-> ListedAccounts] \in PostureData
      BY <1>2, ListsTyped DEF PostureData
    <3>2. Listed(filter) \in Shown
      BY <1>2, ListsTyped
    <3>3. QED
      BY <1>3, <1>4, <3>1, <3>2 DEF PageRow
  <2> HIDE DEF listed
  <2>3. r \in Findings => [listed EXCEPT !.selected = [id |-> r, status |-> server.status[r]],
                                 !.log = <<server.status[r]>>, !.detailLoad = "ready"] \in PageRow
    <3> SUFFICES ASSUME r \in Findings
                 PROVE  [listed EXCEPT !.selected = [id |-> r, status |-> server.status[r]],
                           !.log = <<server.status[r]>>, !.detailLoad = "ready"] \in PageRow
      OBVIOUS
    <3>1. /\ [id |-> r, status |-> server.status[r]] \in
                [id : Findings \cup {None}, status : Statuses \cup {None}]
          /\ <<server.status[r]>> \in Seq(Statuses)
      BY <1>2
    <3>2. QED
      BY <1>3, <2>2, <3>1 DEF PageRow
  <2>4. page \in PageRow
    BY <2>1, <2>2, <2>3 DEF listed
  <2>5. calls = <<>>
    BY <1>6 DEF Settled
  <2>6. QED
    BY <1>1, <1>2, <2>4, <2>5, DashboardAssumption DEF Typed
<1>7. QED
  BY <1>5, <1>6 DEF Init

-----------------------------------------------------------------------------
(* Calls are added at the end, and a call's row is replaced by another.      *)
LEMMA CallsGrow ==
  ASSUME Typed, NEW new \in Seq(Fresh), Makes(new)
  PROVE  calls' \in Seq(CallSet) /\ Len(calls') <= MaxCalls
<1>1. new \in Seq(CallSet) /\ calls \in Seq(CallSet)
  BY FreshCalls DEF Typed
<1>2. calls' = calls \o new /\ Len(calls) + Len(new) <= MaxCalls
  BY DEF Makes
<1>3. QED
  BY <1>1, <1>2, ConcatProperties

LEMMA CallReplaced ==
  ASSUME Typed, NEW i \in 1..Len(calls), NEW c \in CallSet, calls' = [calls EXCEPT ![i] = c]
  PROVE  calls' \in Seq(CallSet) /\ Len(calls') = Len(calls) /\ Len(calls') <= MaxCalls
<1>1. calls \in Seq(CallSet) /\ Len(calls) <= MaxCalls
  BY DEF Typed
<1>2. QED
  BY <1>1, ExceptSeq

LEMMA DoneTyped ==
  ASSUME Typed, NEW i \in 1..Len(calls)
  PROVE  /\ Done(i) = [calls EXCEPT ![i] = Ended(calls[i])]
         /\ Ended(calls[i]) \in CallSet /\ Ended(calls[i]).at = "done"
         /\ calls[i].kind = "detail" <=> Ended(calls[i]).kind = "detail"
         /\ Done(i) \in Seq(CallSet) /\ Len(Done(i)) = Len(calls) /\ Len(Done(i)) <= MaxCalls
         /\ \A j \in 1..Len(calls) :
              Done(i)[j] = IF j = i THEN Ended(calls[i]) ELSE calls[j]
<1>1. calls \in Seq(CallSet) /\ calls[i] \in CallSet /\ Len(calls) <= MaxCalls
  BY DEF Typed
<1>2. /\ Ended(calls[i]) \in CallSet /\ Ended(calls[i]).at = "done"
      /\ calls[i].kind = "detail" <=> Ended(calls[i]).kind = "detail"
  <2>1. calls[i] \in CallRow
    BY <1>1 DEF CallSet
  <2>2. /\ Ended(calls[i]) \in CallRow /\ Ended(calls[i]).at = "done"
        /\ Ended(calls[i]).kind = IF calls[i].kind = "detail" THEN "detail" ELSE None
    BY <2>1 DEF Ended, CallRow, Filters
  <2>3. None # "detail"
    BY DashboardAssumption
  <2>4. QED
    BY <2>2, <2>3 DEF CallSet, Sensible
<1>3. Done(i) = [calls EXCEPT ![i] = Ended(calls[i])]
  BY DEF Done
<1>4. QED
  BY <1>1, <1>2, <1>3, ExceptSeq

LEMMA AnsweredTyped ==
  ASSUME Typed, NEW i \in 1..Len(calls), calls[i].at # "done", NEW at, NEW answer,
         \/ at \in {"refused", "ok"} /\ answer = None /\ calls[i].kind = "connect"
         \/ at = "create" /\ answer = None /\ calls[i].kind = "connect"
         \/ at = "ok" /\ calls[i].kind = "posture"  /\ answer \in PostureData
         \/ at = "ok" /\ calls[i].kind = "filtered" /\ answer \in Shown
         \/ at = "ok" /\ calls[i].kind = "detail"   /\ answer \in Statuses
         \/ at = "ok" /\ calls[i].kind = "update"   /\ answer = calls[i].status,
         Answered(i, at, answer)
  PROVE  /\ calls' \in Seq(CallSet) /\ Len(calls') = Len(calls) /\ Len(calls') <= MaxCalls
         /\ \A j \in 1..Len(calls) : calls'[j].kind = calls[j].kind /\ calls'[j].id = calls[j].id
                                     /\ (calls'[j].at = "done" <=> calls[j].at = "done")
<1> DEFINE c == [calls[i] EXCEPT !.at = at, !.answer = answer]
<1>1. calls \in Seq(CallSet) /\ calls[i] \in CallSet
  BY DEF Typed
<1>2. c \in CallSet /\ c.kind = calls[i].kind /\ c.id = calls[i].id /\ c.at # "done"
  BY <1>1 DEF CallSet, CallRow, Sensible
<1>3. calls' = [calls EXCEPT ![i] = c]
  BY DEF Answered
<1> HIDE DEF c
<1>4. calls' \in Seq(CallSet) /\ Len(calls') = Len(calls) /\ Len(calls') <= MaxCalls
  BY <1>2, <1>3, CallReplaced
<1>5. \A j \in 1..Len(calls) : calls'[j] = IF j = i THEN c ELSE calls[j]
  BY <1>1, <1>2, <1>3, ExceptSeq
<1>6. QED
  BY <1>2, <1>4, <1>5

-----------------------------------------------------------------------------
(* The actions of the user and what each makes of the page and the calls.    *)
LEMMA UserIs ==
  ASSUME User
  PROVE  \/ \E r \in Routes : Navigate(r)
         \/ Refresh
         \/ \E filter \in Filters : ChooseFilter(filter)
         \/ \E status \in Statuses : ClickStatus(status)
         \/ OpenModal
         \/ CloseModal
         \/ \E a \in Accounts : Connect(a)
         \/ SignOut
         \/ SignIn
BY DEF User

LEMMA NextIs ==
  ASSUME [Next]_vars
  PROVE  \/ User
         \/ \E i \in 1..Len(calls) : Serve(i)
         \/ \E i \in 1..Len(calls), ok \in BOOLEAN :
              \/ TakePosture(i, ok) \/ TakeFiltered(i, ok) \/ TakeDetail(i, ok)
              \/ TakeUpdate(i, ok) \/ TakeConnect(i, ok) \/ TakeLogin(i, ok)
         \/ \E i \in 1..Len(calls) : TakeLogout(i)
         \/ \E a \in Accounts : ConnectElsewhere(a)
         \/ UNCHANGED vars
BY DEF Next, Take

LEMMA OneCall == \A c \in Fresh : <<c>> \in Seq(Fresh)
OBVIOUS

LEMMA UserTyped ==
  ASSUME Typed, User
  PROVE  Typed'
<1>0. page \in PageRow /\ <<>> \in Seq(Fresh)
  BY DEF Typed
<1>1. SUFFICES page' \in PageRow /\ calls' \in Seq(CallSet) /\ Len(calls') <= MaxCalls
               /\ UNCHANGED <<server, foreign>>
  BY DEF Typed
<1>2. UNCHANGED <<server, foreign>>
  BY UserIs DEF Navigate, Refresh, ChooseFilter, ClickStatus, OpenModal, CloseModal, Connect,
                SignOut, SignIn
<1>3. ASSUME NEW r \in Routes, Navigate(r)
      PROVE  page' \in PageRow /\ \E new \in Seq(Fresh) : Makes(new)
  <2> DEFINE p == [page EXCEPT !.route = r]
  <2>1. /\ page' = IF page.session THEN PageLoading(p) ELSE p
        /\ Makes(IF page.session THEN PageCalls(p) ELSE <<>>)
    BY <1>3 DEF Navigate
  <2>2. p \in PageRow
    BY <1>0 DEF PageRow
  <2> HIDE DEF p
  <2>3. PageLoading(p) \in PageRow /\ PageCalls(p) \in Seq(Fresh)
    BY <2>2, LoadsTyped, CallsMade
  <2>4. CASE page.session
    BY <2>1, <2>3, <2>4
  <2>5. CASE ~page.session
    BY <1>0, <2>1, <2>2, <2>5
  <2>6. QED
    BY <2>4, <2>5
<1>4. CASE Refresh
  <2>1. PostureLoading(page) \in PageRow /\ <<PostureCall>> \in Seq(Fresh)
    BY <1>0, LoadsTyped, CallsMade, OneCall
  <2>2. QED
    BY <1>1, <1>2, <1>4, <2>1, CallsGrow DEF Refresh
<1>5. ASSUME NEW filter \in Filters, ChooseFilter(filter)
      PROVE  page' \in PageRow /\ \E new \in Seq(Fresh) : Makes(new)
  <2> DEFINE p == [page EXCEPT !.filter = filter]
  <2>1. page' = FilteredLoading(p) /\ Makes(PageCalls(p))
    BY <1>5 DEF ChooseFilter
  <2>2. p \in PageRow
    BY <1>0 DEF PageRow
  <2> HIDE DEF p
  <2>3. QED
    BY <2>1, <2>2, LoadsTyped, CallsMade
<1>6. ASSUME NEW status \in Statuses, ClickStatus(status)
      PROVE  page' \in PageRow /\ \E new \in Seq(Fresh) : Makes(new)
  <2>1. page' \in PageRow
    BY <1>0, <1>6 DEF ClickStatus, PageRow
  <2>2. <<Call("update", page.route, status, page.filter)>> \in Seq(Fresh)
    BY <1>0, <1>6, CallsMade, OneCall DEF ClickStatus, PageRow
  <2>3. QED
    BY <1>6, <2>1, <2>2 DEF ClickStatus
<1>7. CASE OpenModal \/ CloseModal
  <2>1. page' \in PageRow /\ Makes(<<>>)
    BY <1>0, <1>7 DEF OpenModal, CloseModal, PageRow
  <2>2. QED
    BY <1>0, <1>1, <1>2, <2>1, CallsGrow
<1>8. ASSUME NEW a \in Accounts, Connect(a)
      PROVE  page' \in PageRow /\ \E new \in Seq(Fresh) : Makes(new)
  <2>1. page' \in PageRow
    BY <1>0, <1>8 DEF Connect, PageRow
  <2>2. <<Call("connect", a, None, None)>> \in Seq(Fresh)
    BY CallsMade, OneCall
  <2>3. QED
    BY <1>8, <2>1, <2>2 DEF Connect
<1>9. CASE SignOut \/ SignIn
  <2>1. page' \in PageRow
    BY <1>0, <1>9 DEF SignOut, SignIn, PageRow
  <2>2. /\ <<Call("login", None, None, None)>> \in Seq(Fresh)
        /\ <<Call("logout", None, None, None)>> \in Seq(Fresh)
    BY CallsMade, OneCall
  <2>3. \E new \in Seq(Fresh) : Makes(new)
    BY <1>9, <2>2 DEF SignOut, SignIn
  <2>4. QED
    BY <1>1, <1>2, <2>1, <2>3, CallsGrow
<1>10. QED
  BY <1>1, <1>2, <1>3, <1>4, <1>5, <1>6, <1>7, <1>8, <1>9, UserIs, CallsGrow

LEMMA ServeIs ==
  ASSUME Typed, NEW i \in 1..Len(calls), Serve(i)
  PROVE  /\ UNCHANGED <<page, hasty, late, foreign>>
         /\ server' = [status |-> server'.status, accounts |-> server'.accounts]
         /\ server'.status \in [Findings -> Statuses] /\ server'.accounts \subseteq Accounts
         /\ calls' \in Seq(CallSet) /\ Len(calls') = Len(calls) /\ Len(calls') <= MaxCalls
         /\ \A j \in 1..Len(calls) : calls'[j].kind = calls[j].kind /\ calls'[j].id = calls[j].id
                                     /\ (calls'[j].at = "done" <=> calls[j].at = "done")
<1>0. /\ calls[i] \in CallSet /\ Sensible(calls[i])
      /\ server.status \in [Findings -> Statuses] /\ server.accounts \subseteq Accounts
      /\ server = [status |-> server.status, accounts |-> server.accounts]
  BY DEF Typed, CallSet
<1>1. CASE ServeRead(i)
  <2>1. /\ Listed(None) \in Shown /\ Listed(calls[i].filter) \in Shown
        /\ [status |-> Listed(None), accounts |-> ListedAccounts] \in PostureData
    BY <1>0, ListsTyped DEF PostureData
  <2>2. /\ calls[i].at = "sent" /\ calls[i].kind \in {"posture", "filtered", "detail"}
        /\ Answered(i, "ok",
             CASE calls[i].kind = "posture"  -> [status |-> Listed(None), accounts |-> ListedAccounts]
               [] calls[i].kind = "filtered" -> Listed(calls[i].filter)
               [] calls[i].kind = "detail"   -> server.status[calls[i].id])
        /\ UNCHANGED <<page, server, hasty, late, foreign>>
    BY <1>1 DEF ServeRead
  <2>3. CASE calls[i].kind = "posture"
    BY <1>0, <2>1, <2>2, <2>3, AnsweredTyped
  <2>4. CASE calls[i].kind = "filtered"
    BY <1>0, <2>1, <2>2, <2>4, AnsweredTyped
  <2>5. CASE calls[i].kind = "detail"
    <3>1. server.status[calls[i].id] \in Statuses
      BY <1>0, <2>2, <2>5 DEF Sensible
    <3>2. Answered(i, "ok", server.status[calls[i].id])
      BY <2>2, <2>5
    <3>3. QED
      BY <1>0, <2>2, <2>5, <3>1, <3>2, AnsweredTyped
  <2>6. QED
    BY <2>2, <2>3, <2>4, <2>5
<1>2. CASE ServeUpdate(i)
  <2>1. /\ calls[i].at = "sent" /\ calls[i].kind = "update"
        /\ server' = [server EXCEPT !.status[calls[i].id] = calls[i].status]
        /\ Answered(i, "ok", calls[i].status)
        /\ UNCHANGED <<page, hasty, late, foreign>>
    BY <1>2 DEF ServeUpdate
  <2>2. calls[i].id \in Findings /\ calls[i].status \in Statuses
    BY <1>0, <2>1 DEF Sensible
  <2>3. /\ server' = [status |-> server'.status, accounts |-> server'.accounts]
        /\ server'.status \in [Findings -> Statuses] /\ server'.accounts \subseteq Accounts
    BY <1>0, <2>1, <2>2
  <2>4. QED
    BY <2>1, <2>3, AnsweredTyped
<1>3. CASE LookUpAccount(i)
  <2>1. /\ calls[i].at = "sent" /\ calls[i].kind = "connect"
        /\ Answered(i, "refused", None) \/ Answered(i, "create", None)
        /\ UNCHANGED <<page, server, hasty, late, foreign>>
    BY <1>3 DEF LookUpAccount
  <2>2. QED
    BY <1>0, <2>1, AnsweredTyped
<1>4. CASE CreateAccount(i)
  <2>1. /\ calls[i].at = "create"
        /\ server' = [server EXCEPT !.accounts = @ \cup {calls[i].id}]
        /\ Answered(i, "refused", None) \/ Answered(i, "ok", None)
        /\ UNCHANGED <<page, hasty, late, foreign>>
    BY <1>4 DEF CreateAccount
  <2>2. calls[i].kind = "connect" /\ calls[i].id \in Accounts
    BY <1>0, <2>1 DEF Sensible
  <2>3. /\ server' = [status |-> server'.status, accounts |-> server'.accounts]
        /\ server'.status \in [Findings -> Statuses] /\ server'.accounts \subseteq Accounts
    BY <1>0, <2>1, <2>2
  <2>4. QED
    BY <2>1, <2>2, <2>3, AnsweredTyped
<1>5. QED
  BY <1>1, <1>2, <1>3, <1>4 DEF Serve

LEMMA ThreeParts ==
  ASSUME NEW S, NEW r \in Seq(S), NEW s \in Seq(S), NEW t \in Seq(S)
  PROVE  (r \o s) \o t \in Seq(S) /\ Len((r \o s) \o t) = Len(r) + Len(s) + Len(t)
<1>1. r \o s \in Seq(S) /\ Len(r \o s) = Len(r) + Len(s)
  BY ConcatProperties
<1>2. (r \o s) \o t \in Seq(S) /\ Len((r \o s) \o t) = Len(r \o s) + Len(t)
  BY <1>1, ConcatProperties
<1>3. QED
  BY <1>1, <1>2

LEMMA TakeTyped ==
  ASSUME Typed, NEW i \in 1..Len(calls), NEW ok \in BOOLEAN,
         \/ TakePosture(i, ok) \/ TakeFiltered(i, ok) \/ TakeDetail(i, ok)
         \/ TakeUpdate(i, ok) \/ TakeConnect(i, ok) \/ TakeLogin(i, ok)
         \/ TakeLogout(i)
  PROVE  Typed'
<1>0. /\ page \in PageRow /\ foreign \subseteq Findings \cup Accounts
      /\ calls[i] \in CallSet /\ calls[i] \in CallRow /\ Sensible(calls[i])
      /\ Done(i) \in Seq(CallSet) /\ Len(Done(i)) <= MaxCalls
  BY DoneTyped DEF Typed, CallSet
<1>1. \A kind \in Kinds : Ends(i, kind, ok) =>
        /\ calls[i].kind = kind /\ calls[i].at # "done"
        /\ ok => calls[i].at = IF kind \in {"login", "logout"} THEN "sent" ELSE "ok"
  BY DEF Ends
<1>k. {"posture", "filtered", "detail", "update", "connect", "login", "logout"} \subseteq Kinds
      /\ {"idle", "loading", "ready", "error"} \subseteq Loads
  BY DEF Kinds, Loads
<1>2. SUFFICES page' \in PageRow /\ calls' \in Seq(CallSet) /\ Len(calls') <= MaxCalls
               /\ foreign' \subseteq Findings \cup Accounts /\ server' = server
  BY DEF Typed
<1>3. CASE TakePosture(i, ok)
  <2>1. Ends(i, "posture", ok) /\ calls' = Done(i) /\ UNCHANGED <<server, foreign>>
    BY <1>3 DEF TakePosture
  <2>2. ok => calls[i].answer \in PostureData
    BY <1>0, <1>1, <1>k, <2>1 DEF Sensible
  <2>3. page' \in PageRow
    BY <1>0, <1>3, <1>k, <2>2 DEF TakePosture, PageRow, PostureData
  <2>4. QED
    BY <1>0, <2>1, <2>3
<1>4. CASE TakeFiltered(i, ok)
  <2>1. Ends(i, "filtered", ok) /\ calls' = Done(i) /\ UNCHANGED <<server, foreign>>
    BY <1>4 DEF TakeFiltered
  <2>2. ok => calls[i].answer \in Shown
    BY <1>0, <1>1, <1>k, <2>1 DEF Sensible
  <2>3. page' \in PageRow
    BY <1>0, <1>4, <1>k, <2>2 DEF TakeFiltered, PageRow
  <2>4. QED
    BY <1>0, <2>1, <2>3
<1>5. CASE TakeDetail(i, ok)
  <2>1. Ends(i, "detail", ok) /\ calls' = Done(i) /\ UNCHANGED <<server, foreign>>
    BY <1>5 DEF TakeDetail
  <2>2. ok => calls[i].id \in Findings /\ calls[i].answer \in Statuses
    BY <1>0, <1>1, <1>k, <2>1 DEF Sensible
  <2>3. page' \in PageRow
    <3>1. CASE ok
      <4>1. /\ [id |-> calls[i].id, status |-> calls[i].answer] \in
                  [id : Findings \cup {None}, status : Statuses \cup {None}]
            /\ <<calls[i].answer>> \in Seq(Statuses)
        BY <2>2, <3>1
      <4>2. QED
        BY <1>0, <1>5, <1>k, <3>1, <4>1 DEF TakeDetail, PageRow
    <3>2. CASE ~ok
      BY <1>0, <1>5, <1>k, <3>2 DEF TakeDetail, PageRow
    <3>3. QED
      BY <3>1, <3>2
  <2>4. QED
    BY <1>0, <2>1, <2>3
<1>6. CASE TakeUpdate(i, ok)
  <2>1. Ends(i, "update", ok) /\ calls' = Done(i) /\ UNCHANGED server /\ Unconfirmed(i, ok)
    BY <1>6 DEF TakeUpdate
  <2>2. /\ calls[i].id \in Findings /\ calls[i].status \in Statuses
        /\ ok => calls[i].answer = calls[i].status
    BY <1>0, <1>1, <1>k, <2>1 DEF Sensible
  <2>3. foreign' \subseteq Findings \cup Accounts
    BY <1>0, <2>1, <2>2 DEF Unconfirmed
  <2>4. page' \in PageRow
    <3>1. CASE ok
      <4> DEFINE c == calls[i]
                 posture  == [page.posture EXCEPT !.status = Replaced(@, c.id, c.answer)]
                 filtered == Refiltered(page.filtered, c.id, c.answer, c.filter)
                 log      == <<c.status>> \o page.log
      <4>1. \A list \in Shown : Replaced(list, c.id, c.answer) \in Shown
        BY <2>2, <3>1 DEF Replaced, Shown
      <4>2. posture \in PostureData
        BY <1>0, <4>1 DEF PageRow, PostureData
      <4>3. filtered \in Shown
        BY <1>0, <4>1 DEF PageRow, Refiltered, Shown
      <4>4. log \in Seq(Statuses)
        BY <1>0, <2>2 DEF PageRow
      <4>5. [id |-> c.id, status |-> c.answer] \in
              [id : Findings \cup {None}, status : Statuses \cup {None}]
        BY <2>2, <3>1
      <4>6. page' = [page EXCEPT !.selected = [id |-> c.id, status |-> c.answer],
                                 !.posture = posture, !.filtered = filtered,
                                 !.log = log, !.updating = FALSE]
        BY <1>0, <1>6, <3>1 DEF TakeUpdate, PageRow
      <4> HIDE DEF posture, filtered, log
      <4>7. QED
        BY <1>0, <4>2, <4>3, <4>4, <4>5, <4>6 DEF PageRow
    <3>2. CASE ~ok
      BY <1>0, <1>6, <3>2 DEF TakeUpdate, PageRow
    <3>3. QED
      BY <3>1, <3>2
  <2>5. QED
    BY <1>0, <2>1, <2>3, <2>4
<1>7. CASE TakeConnect(i, ok)
  <2>1. Ends(i, "connect", ok) /\ calls' = Done(i) /\ UNCHANGED server /\ Unconfirmed(i, ok)
    BY <1>7 DEF TakeConnect
  <2>2. calls[i].id \in Accounts
    BY <1>0, <1>1, <1>k, <2>1 DEF Sensible
  <2>3. foreign' \subseteq Findings \cup Accounts
    BY <1>0, <2>1, <2>2 DEF Unconfirmed
  <2>4. page' \in PageRow
    <3>1. CASE ok
      <4> DEFINE posture == [page.posture EXCEPT !.accounts[calls[i].id] = @ + 1]
      <4>1. page.posture \in PostureData
        BY <1>0 DEF PageRow
      <4>2. posture \in PostureData
        <5>1. page.posture.accounts \in [Accounts -> Nat]
          BY <4>1 DEF PostureData
        <5>2. [page.posture.accounts EXCEPT ![calls[i].id] = @ + 1] \in [Accounts -> Nat]
          BY <2>2, <5>1
        <5>3. posture = [page.posture EXCEPT
                           !.accounts = [page.posture.accounts EXCEPT ![calls[i].id] = @ + 1]]
          BY <4>1 DEF PostureData
        <5>4. QED
          BY <4>1, <5>2, <5>3 DEF PostureData
      <4>3. page' = [page EXCEPT !.posture = posture, !.modal = FALSE, !.connecting = FALSE]
        BY <1>0, <1>7, <3>1 DEF TakeConnect, PageRow
      <4> HIDE DEF posture
      <4>4. QED
        BY <1>0, <4>2, <4>3 DEF PageRow
    <3>2. CASE ~ok
      BY <1>0, <1>7, <3>2 DEF TakeConnect, PageRow
    <3>3. QED
      BY <3>1, <3>2
  <2>5. QED
    BY <1>0, <2>1, <2>3, <2>4
<1>8. CASE TakeLogin(i, ok)
  <2> DEFINE p == [page EXCEPT !.session = TRUE, !.signingIn = FALSE]
  <2>1. /\ IF ok THEN /\ Len(calls) + 1 + Len(PageCalls(p)) <= MaxCalls
                      /\ page' = PageLoading(PostureLoading(p))
                      /\ calls' = Done(i) \o <<PostureCall>> \o PageCalls(p)
           ELSE page' = [page EXCEPT !.signingIn = FALSE] /\ calls' = Done(i)
        /\ UNCHANGED <<server, foreign>>
    BY <1>8 DEF TakeLogin
  <2>2. p \in PageRow
    BY <1>0 DEF PageRow
  <2> HIDE DEF p
  <2>3. CASE ok
    <3>1. PageLoading(PostureLoading(p)) \in PageRow /\ PageCalls(p) \in Seq(Fresh)
          /\ <<PostureCall>> \in Seq(Fresh)
      BY <2>2, LoadsTyped, CallsMade, OneCall
    <3>2. PageCalls(p) \in Seq(CallSet) /\ <<PostureCall>> \in Seq(CallSet)
      BY <3>1, FreshCalls
    <3>3. /\ (Done(i) \o <<PostureCall>>) \o PageCalls(p) \in Seq(CallSet)
          /\ Len((Done(i) \o <<PostureCall>>) \o PageCalls(p)) = Len(calls) + 1 + Len(PageCalls(p))
      <4>1. Done(i) \in Seq(CallSet) /\ Len(Done(i)) = Len(calls) /\ Len(<<PostureCall>>) = 1
        BY DoneTyped
      <4>2. QED
        BY <3>2, <4>1, ThreeParts
    <3>4. QED
      BY <1>0, <2>1, <2>3, <3>1, <3>3
  <2>4. CASE ~ok
    BY <1>0, <2>1, <2>4 DEF PageRow
  <2>5. QED
    BY <2>3, <2>4
<1>9. CASE TakeLogout(i)
  <2>1. calls' = Done(i) /\ UNCHANGED <<server, foreign>>
    BY <1>9 DEF TakeLogout
  <2>2. NoPosture \in PostureData /\ "overview" \in Routes
    BY DEF NoPosture, PostureData, NoFindings, Shown, Routes
  <2>3. page' \in PageRow
    BY <1>0, <1>9, <1>k, <2>2 DEF TakeLogout, PageRow
  <2>4. QED
    BY <1>0, <2>1, <2>3
<1>10. QED
  BY <1>3, <1>4, <1>5, <1>6, <1>7, <1>8, <1>9

LEMMA TypeStep ==
  ASSUME Typed, [Next]_vars
  PROVE  Typed'
<1>1. CASE User
  BY <1>1, UserTyped
<1>2. ASSUME NEW i \in 1..Len(calls), Serve(i)
      PROVE  Typed'
  BY <1>2, ServeIs DEF Typed
<1>3. ASSUME NEW a \in Accounts, ConnectElsewhere(a)
      PROVE  Typed'
  <2>1. /\ server' = [server EXCEPT !.accounts = @ \cup {a}] /\ foreign' = foreign \cup {a}
        /\ UNCHANGED <<page, calls>>
    BY <1>3 DEF ConnectElsewhere
  <2>2. /\ server.status \in [Findings -> Statuses] /\ server.accounts \subseteq Accounts
        /\ server = [status |-> server.status, accounts |-> server.accounts]
    BY DEF Typed
  <2>3. QED
    BY <2>1, <2>2 DEF Typed
<1>4. CASE UNCHANGED vars
  BY <1>4 DEF vars, Typed
<1>5. QED
  BY <1>1, <1>2, <1>3, <1>4, NextIs, TakeTyped

(* THEOREM 1.  Whatever order answers come in, and whichever of them are     *)
(* lost, the page and the calls keep their types.                            *)
THEOREM TypeCorrect == Spec => []TypeOK
<1>1. Typed => TypeOK
  <2> SUFFICES ASSUME Typed PROVE TypeOK
    OBVIOUS
  <2>1. \A i \in 1..Len(calls) : calls[i] \in CallRow
    BY DEF Typed, CallSet
  <2>2. QED
    BY <2>1 DEF Typed, TypeOK, PageRow, PostureData, CallRow
<1>2. QED
  BY <1>1, InitTyped, TypeStep, PTL DEF Spec

-----------------------------------------------------------------------------
(* The calls of a kind that are in flight.                                   *)
FlightOf(cs, kind) == {i \in 1..Len(cs) : cs[i].at # "done" /\ cs[i].kind = kind}

LEMMA FlightGrows ==
  ASSUME NEW cs \in Seq(CallSet), NEW c \in Fresh
  PROVE  /\ cs \o <<c>> \in Seq(CallSet) /\ Len(cs \o <<c>>) = Len(cs) + 1
         /\ (\A i \in 1..Len(cs) : (cs \o <<c>>)[i] = cs[i]) /\ (cs \o <<c>>)[Len(cs) + 1] = c
         /\ \A kind : FlightOf(cs \o <<c>>, kind) =
              FlightOf(cs, kind) \cup IF c.kind = kind THEN {Len(cs) + 1} ELSE {}
<1>1. c \in CallSet /\ c.at # "done" /\ Len(cs) \in Nat
  BY DEF Fresh
<1>2. cs \o <<c>> \in Seq(CallSet) /\ Len(cs \o <<c>>) = Len(cs) + 1
  BY <1>1
<1>3. (\A i \in 1..Len(cs) : (cs \o <<c>>)[i] = cs[i]) /\ (cs \o <<c>>)[Len(cs) + 1] = c
  BY <1>1
<1> DEFINE ds == cs \o <<c>>
<1> HIDE DEF ds
<1>4. \A i \in 1..Len(ds) : i \in 1..Len(cs) \/ i = Len(cs) + 1
  BY <1>1, <1>2 DEF ds
<1>5. ASSUME NEW kind
      PROVE  FlightOf(ds, kind) = FlightOf(cs, kind) \cup IF c.kind = kind THEN {Len(cs) + 1} ELSE {}
  BY <1>1, <1>2, <1>3, <1>4 DEF FlightOf, ds
<1>6. QED
  BY <1>2, <1>3, <1>5 DEF ds

LEMMA NothingMore ==
  ASSUME NEW cs \in Seq(CallSet)
  PROVE  cs \o <<>> = cs
BY ConcatEmptySeq

LEMMA FlightEnds ==
  ASSUME Typed, NEW i \in 1..Len(calls)
  PROVE  \A kind : FlightOf(Done(i), kind) = FlightOf(calls, kind) \ {i}
BY DoneTyped DEF FlightOf

LEMMA FlightServed ==
  ASSUME Typed, NEW i \in 1..Len(calls), Serve(i)
  PROVE  \A kind : FlightOf(calls', kind) = FlightOf(calls, kind)
BY ServeIs DEF FlightOf

(* Whatever the page shows as in progress has its call in flight, and there  *)
(* is one update at most, and one account being connected.                   *)
Busy(p, cs) ==
  /\ p.updating <=> FlightOf(cs, "update") # {}
  /\ \A i, j \in FlightOf(cs, "update") : i = j
  /\ p.connecting <=> FlightOf(cs, "connect") # {}
  /\ \A i, j \in FlightOf(cs, "connect") : i = j
  /\ p.load = "loading" => FlightOf(cs, "posture") # {}
  /\ p.findingsLoad = "loading" => FlightOf(cs, "filtered") # {}
  /\ p.detailLoad = "loading" => FlightOf(cs, "detail") # {}
  /\ p.signingIn => FlightOf(cs, "login") # {}

LEMMA BusyCalling ==
  ASSUME NEW p, NEW q, NEW cs \in Seq(CallSet), NEW c \in Fresh, Busy(p, cs),
         c.kind \notin {"update", "connect"},
         q.updating = p.updating, q.connecting = p.connecting,
         q.load = "loading" => p.load = "loading" \/ c.kind = "posture",
         q.findingsLoad = "loading" => p.findingsLoad = "loading" \/ c.kind = "filtered",
         q.detailLoad = "loading" => p.detailLoad = "loading" \/ c.kind = "detail",
         q.signingIn => p.signingIn \/ c.kind = "login"
  PROVE  Busy(q, cs \o <<c>>)
<1> DEFINE ds == cs \o <<c>>
<1>1. \A kind : FlightOf(ds, kind) = FlightOf(cs, kind) \cup IF c.kind = kind THEN {Len(cs) + 1} ELSE {}
  BY FlightGrows
<1> HIDE DEF ds
<1>2. /\ FlightOf(ds, "update") = FlightOf(cs, "update")
      /\ FlightOf(ds, "connect") = FlightOf(cs, "connect")
      /\ \A kind : FlightOf(cs, kind) # {} \/ c.kind = kind => FlightOf(ds, kind) # {}
  BY <1>1
<1>3. Busy(q, ds)
  BY <1>2 DEF Busy
<1>4. QED
  BY <1>3 DEF ds

LEMMA BusyOpening ==
  ASSUME NEW p \in PageRow, NEW cs \in Seq(CallSet), Busy(p, cs)
  PROVE  Busy(PageLoading(p), cs \o PageCalls(p))
<1>0. p.route \in Routes /\ p.filter \in Filters /\ None \in Filters
  BY DEF PageRow, Filters
<1>1. CASE p.route = "overview"
  <2>1. PageLoading(p) = p /\ PageCalls(p) = <<>>
    BY <1>1 DEF PageLoading, PageCalls
  <2>2. QED
    BY <2>1, NothingMore
<1>2. CASE p.route = "findings"
  <2> DEFINE c == Call("filtered", None, None, p.filter)
  <2>1. PageLoading(p) = FilteredLoading(p) /\ PageCalls(p) = <<c>>
    BY <1>2 DEF PageLoading, PageCalls
  <2>2. c \in Fresh /\ c.kind = "filtered"
    BY <1>0 DEF Call, Fresh, CallSet, CallRow, Sensible, Kinds
  <2>3. LET q == FilteredLoading(p)
        IN /\ q.updating = p.updating /\ q.connecting = p.connecting /\ q.load = p.load
           /\ q.detailLoad = p.detailLoad /\ q.signingIn = p.signingIn
    BY DEF FilteredLoading, PageRow
  <2> HIDE DEF c
  <2>4. QED
    BY <2>1, <2>2, <2>3, BusyCalling
<1>3. CASE p.route \in Findings
  <2> DEFINE c == Call("detail", p.route, None, None)
  <2>1. PageLoading(p) = DetailLoading(p) /\ PageCalls(p) = <<c>>
    BY <1>3, DashboardAssumption DEF PageLoading, PageCalls
  <2>2. c \in Fresh /\ c.kind = "detail"
    BY <1>0, <1>3 DEF Call, Fresh, CallSet, CallRow, Sensible, Kinds
  <2>3. LET q == DetailLoading(p)
        IN /\ q.updating = p.updating /\ q.connecting = p.connecting /\ q.load = p.load
           /\ q.findingsLoad = p.findingsLoad /\ q.signingIn = p.signingIn
    BY DEF DetailLoading, PageRow
  <2> HIDE DEF c
  <2>4. QED
    BY <2>1, <2>2, <2>3, BusyCalling
<1>4. QED
  BY <1>0, <1>1, <1>2, <1>3 DEF Routes

LEMMA BusyRefreshing ==
  ASSUME NEW p \in PageRow, NEW cs \in Seq(CallSet), Busy(p, cs)
  PROVE  Busy(PostureLoading(p), cs \o <<PostureCall>>)
<1>1. PostureCall \in Fresh /\ PostureCall.kind = "posture"
  BY CallsMade DEF PostureCall, Call
<1>2. LET q == PostureLoading(p)
      IN /\ q.updating = p.updating /\ q.connecting = p.connecting /\ q.detailLoad = p.detailLoad
         /\ q.findingsLoad = p.findingsLoad /\ q.signingIn = p.signingIn
  BY DEF PostureLoading, PageRow
<1>3. QED
  BY <1>1, <1>2, BusyCalling

(* A page with the same progress is as busy, and so is one where an update   *)
(* or the connection of an account starts while there is none.               *)
LEMMA BusySame ==
  ASSUME NEW p, NEW q, NEW cs, Busy(p, cs),
         q.updating = p.updating, q.connecting = p.connecting, q.load = p.load,
         q.findingsLoad = p.findingsLoad, q.detailLoad = p.detailLoad, q.signingIn = p.signingIn
  PROVE  Busy(q, cs)
BY DEF Busy

LEMMA BusyStarting ==
  ASSUME NEW p, NEW q, NEW cs \in Seq(CallSet), NEW c \in Fresh, Busy(p, cs),
         \/ c.kind = "update" /\ ~p.updating /\ q.updating /\ q.connecting = p.connecting
         \/ c.kind = "connect" /\ ~p.connecting /\ q.connecting /\ q.updating = p.updating,
         q.load = p.load, q.findingsLoad = p.findingsLoad, q.detailLoad = p.detailLoad,
         q.signingIn = p.signingIn
  PROVE  Busy(q, cs \o <<c>>)
<1> DEFINE ds == cs \o <<c>>
<1>1. \A kind : FlightOf(ds, kind) = FlightOf(cs, kind) \cup IF c.kind = kind THEN {Len(cs) + 1} ELSE {}
  BY FlightGrows
<1> HIDE DEF ds
<1>2. c.kind \in {"update", "connect"}
  OBVIOUS
<1>0. \A kind : c.kind # kind => FlightOf(ds, kind) = FlightOf(cs, kind)
  BY <1>1
<1>6. /\ FlightOf(ds, "posture") = FlightOf(cs, "posture")
      /\ FlightOf(ds, "filtered") = FlightOf(cs, "filtered")
      /\ FlightOf(ds, "detail") = FlightOf(cs, "detail")
      /\ FlightOf(ds, "login") = FlightOf(cs, "login")
  BY <1>0, <1>2
<1>3. CASE c.kind = "update"
  <2>1. FlightOf(cs, "update") = {} /\ q.updating /\ q.connecting = p.connecting
    BY <1>3 DEF Busy
  <2>2. FlightOf(ds, "update") = {Len(cs) + 1} /\ FlightOf(ds, "connect") = FlightOf(cs, "connect")
    <3>1. FlightOf(ds, "update") = {Len(cs) + 1}
      BY <1>1, <1>3, <2>1
    <3>2. FlightOf(ds, "connect") = FlightOf(cs, "connect")
      BY <1>0, <1>3
    <3>3. QED
      BY <3>1, <3>2
  <2>3. Busy(q, ds)
    BY <1>6, <2>1, <2>2 DEF Busy
  <2>4. QED
    BY <2>3 DEF ds
<1>4. CASE c.kind = "connect"
  <2>1. FlightOf(cs, "connect") = {} /\ q.connecting /\ q.updating = p.updating
    BY <1>4 DEF Busy
  <2>2. FlightOf(ds, "connect") = {Len(cs) + 1} /\ FlightOf(ds, "update") = FlightOf(cs, "update")
    <3>1. FlightOf(ds, "connect") = {Len(cs) + 1}
      BY <1>1, <1>4, <2>1
    <3>2. FlightOf(ds, "update") = FlightOf(cs, "update")
      BY <1>0, <1>4
    <3>3. QED
      BY <3>1, <3>2
  <2>3. Busy(q, ds)
    BY <1>6, <2>1, <2>2 DEF Busy
  <2>4. QED
    BY <2>3 DEF ds
<1>5. QED
  BY <1>3, <1>4

LEMMA BusyInit == Init => Busy(page, calls)
<1> SUFFICES ASSUME Init PROVE Busy(page, calls)
  OBVIOUS
<1>0. SignedOut \in PageRow
  <2>1. /\ "idle" \in Loads /\ <<>> \in Seq(Statuses)
        /\ NoFindings \in Shown /\ None \in Filters
        /\ NoPosture \in PostureData /\ "overview" \in Routes
        /\ Nothing \in [id : Findings \cup {None}, status : Statuses \cup {None}]
    BY DEF Loads, NoFindings, Shown, NoPosture, PostureData, Filters, Nothing, Routes
  <2>2. QED
    BY <2>1 DEF SignedOut, PageRow
<1>1. \A kind : FlightOf(<<>>, kind) = {}
  BY DEF FlightOf
<1>2. CASE Mount
  <2>1. PICK token \in BOOLEAN, r \in Routes :
          LET p == [SignedOut EXCEPT !.session = token, !.route = r]
          IN IF token THEN /\ page = PageLoading(PostureLoading(p))
                           /\ calls = <<PostureCall>> \o PageCalls(p)
                      ELSE page = p /\ calls = <<>>
    BY <1>2 DEF Mount
  <2> DEFINE p == [SignedOut EXCEPT !.session = token, !.route = r]
  <2>2. p \in PageRow
    BY <1>0 DEF PageRow
  <2>3. /\ ~p.updating /\ ~p.connecting /\ ~p.signingIn
        /\ p.load = "idle" /\ p.findingsLoad = "idle" /\ p.detailLoad = "idle"
    BY DEF SignedOut
  <2>4. IF token THEN /\ page = PageLoading(PostureLoading(p))
                      /\ calls = <<PostureCall>> \o PageCalls(p)
                 ELSE page = p /\ calls = <<>>
    BY <2>1
  <2> HIDE DEF p
  <2>5. Busy(p, <<>>)
    BY <1>1, <2>3 DEF Busy
  <2>6. CASE ~token
    BY <2>4, <2>5, <2>6
  <2>7. CASE token
    <3>1. <<>> \o <<PostureCall>> = <<PostureCall>> /\ <<>> \in Seq(CallSet)
      BY CallsMade
    <3>2. Busy(PostureLoading(p), <<PostureCall>>)
      BY <2>2, <2>5, <3>1, BusyRefreshing
    <3>3. PostureLoading(p) \in PageRow /\ PageCalls(PostureLoading(p)) = PageCalls(p)
      BY <2>2, LoadsTyped DEF PageCalls, PostureLoading, PageRow
    <3>4. <<PostureCall>> \in Seq(CallSet)
      BY CallsMade DEF Fresh
    <3>5. Busy(PageLoading(PostureLoading(p)), <<PostureCall>> \o PageCalls(PostureLoading(p)))
      BY <3>2, <3>3, <3>4, BusyOpening
    <3>6. QED
      BY <2>4, <2>7, <3>3, <3>5
  <2>8. QED
    BY <2>6, <2>7
<1>3. CASE Settled
  <2>1. calls = <<>>
    BY <1>3 DEF Settled
  <2>2. /\ page.updating = FALSE /\ page.connecting = FALSE /\ page.signingIn = FALSE
        /\ page.load = "ready" /\ page.findingsLoad = "ready" /\ page.detailLoad # "loading"
    BY <1>3 DEF Settled, SignedOut
  <2>3. QED
    BY <1>1, <2>1, <2>2 DEF Busy
<1>4. QED
  BY <1>2, <1>3 DEF Init

LEMMA BusyUser ==
  ASSUME Typed, Busy(page, calls), User
  PROVE  Busy(page', calls')
<1>0. page \in PageRow /\ calls \in Seq(CallSet)
  BY DEF Typed
<1>1. \A new : Makes(new) => calls' = calls \o new
  BY DEF Makes
<1>2. ASSUME NEW r \in Routes, Navigate(r)
      PROVE  Busy(page', calls')
  <2> DEFINE p == [page EXCEPT !.route = r]
  <2>1. /\ page' = IF page.session THEN PageLoading(p) ELSE p
        /\ Makes(IF page.session THEN PageCalls(p) ELSE <<>>)
    BY <1>2 DEF Navigate
  <2>2. p \in PageRow
    BY <1>0 DEF PageRow
  <2>3. Busy(p, calls)
    BY <1>0, BusySame DEF PageRow
  <2> HIDE DEF p
  <2>4. CASE page.session
    BY <1>0, <1>1, <2>1, <2>2, <2>3, <2>4, BusyOpening
  <2>5. CASE ~page.session
    BY <1>0, <1>1, <2>1, <2>3, <2>5, NothingMore
  <2>6. QED
    BY <2>4, <2>5
<1>3. CASE Refresh
  BY <1>0, <1>1, <1>3, BusyRefreshing DEF Refresh
<1>4. ASSUME NEW filter \in Filters, ChooseFilter(filter)
      PROVE  Busy(page', calls')
  <2> DEFINE p == [page EXCEPT !.filter = filter]
  <2>1. page' = FilteredLoading(p) /\ Makes(PageCalls(p)) /\ page.route = "findings"
    BY <1>4 DEF ChooseFilter
  <2>2. p \in PageRow /\ p.route = "findings"
    BY <1>0, <2>1 DEF PageRow
  <2>3. Busy(p, calls)
    BY <1>0, BusySame DEF PageRow
  <2> HIDE DEF p
  <2>4. page' = PageLoading(p)
    BY <2>1, <2>2 DEF PageLoading
  <2>5. QED
    BY <1>0, <1>1, <2>1, <2>2, <2>3, <2>4, BusyOpening
<1>5. ASSUME NEW status \in Statuses, ClickStatus(status)
      PROVE  Busy(page', calls')
  <2> DEFINE c == Call("update", page.route, status, page.filter)
  <2>1. page' = [page EXCEPT !.updating = TRUE] /\ Makes(<<c>>) /\ ~page.updating
        /\ page.route \in Findings
    BY <1>5 DEF ClickStatus
  <2>2. c \in Fresh /\ c.kind = "update"
    BY <1>0, <2>1, CallsMade DEF Call, PageRow
  <2>3. /\ page'.updating /\ page'.connecting = page.connecting /\ page'.load = page.load
        /\ page'.findingsLoad = page.findingsLoad /\ page'.detailLoad = page.detailLoad
        /\ page'.signingIn = page.signingIn
    BY <1>0, <2>1 DEF PageRow
  <2> HIDE DEF c
  <2>4. QED
    BY <1>0, <1>1, <2>1, <2>2, <2>3, BusyStarting
<1>6. CASE OpenModal \/ CloseModal
  <2>1. /\ calls' = calls
        /\ page'.updating = page.updating /\ page'.connecting = page.connecting
        /\ page'.load = page.load /\ page'.findingsLoad = page.findingsLoad
        /\ page'.detailLoad = page.detailLoad /\ page'.signingIn = page.signingIn
    BY <1>0, <1>1, <1>6, NothingMore DEF OpenModal, CloseModal, PageRow
  <2>2. QED
    BY <2>1, BusySame
<1>7. ASSUME NEW a \in Accounts, Connect(a)
      PROVE  Busy(page', calls')
  <2> DEFINE c == Call("connect", a, None, None)
  <2>1. page' = [page EXCEPT !.connecting = TRUE] /\ Makes(<<c>>) /\ ~page.connecting
    BY <1>7 DEF Connect
  <2>2. c \in Fresh /\ c.kind = "connect"
    BY CallsMade DEF Call
  <2>3. /\ page'.connecting /\ page'.updating = page.updating /\ page'.load = page.load
        /\ page'.findingsLoad = page.findingsLoad /\ page'.detailLoad = page.detailLoad
        /\ page'.signingIn = page.signingIn
    BY <1>0, <2>1 DEF PageRow
  <2> HIDE DEF c
  <2>4. QED
    BY <1>0, <1>1, <2>1, <2>2, <2>3, BusyStarting
<1>8. CASE SignOut
  <2> DEFINE c == Call("logout", None, None, None)
  <2>1. page' = page /\ calls' = calls \o <<c>>
    BY <1>1, <1>8 DEF SignOut
  <2>2. c \in Fresh /\ c.kind = "logout"
    BY CallsMade DEF Call
  <2> HIDE DEF c
  <2>3. QED
    BY <1>0, <2>1, <2>2, BusyCalling
<1>9. CASE SignIn
  <2> DEFINE c == Call("login", None, None, None)
  <2>1. page' = [page EXCEPT !.signingIn = TRUE] /\ calls' = calls \o <<c>>
    BY <1>1, <1>9 DEF SignIn
  <2>2. c \in Fresh /\ c.kind = "login"
    BY CallsMade DEF Call
  <2>3. /\ page'.updating = page.updating /\ page'.connecting = page.connecting
        /\ page'.load = page.load /\ page'.findingsLoad = page.findingsLoad
        /\ page'.detailLoad = page.detailLoad
    BY <1>0, <2>1 DEF PageRow
  <2> HIDE DEF c
  <2>4. QED
    BY <1>0, <2>1, <2>2, <2>3, BusyCalling
<1>10. QED
  BY <1>2, <1>3, <1>4, <1>5, <1>6, <1>7, <1>8, <1>9, UserIs

(* The answer to a call ends what the page showed as in progress for it.     *)
LEMMA BusyTake ==
  ASSUME Typed, Busy(page, calls), NEW i \in 1..Len(calls), NEW ok \in BOOLEAN,
         \/ TakePosture(i, ok) \/ TakeFiltered(i, ok) \/ TakeDetail(i, ok)
         \/ TakeUpdate(i, ok) \/ TakeConnect(i, ok) \/ TakeLogin(i, ok)
         \/ TakeLogout(i)
  PROVE  Busy(page', calls')
<1>0. page \in PageRow /\ Done(i) \in Seq(CallSet)
  BY DoneTyped DEF Typed
<1>1. \A kind : FlightOf(Done(i), kind) = FlightOf(calls, kind) \ {i}
  BY FlightEnds
<1>2. \A kind, other : Ends(i, kind, ok) /\ other # kind => i \notin FlightOf(calls, other)
  BY DEF Ends, FlightOf
<1>3. \A kind \in Kinds, o \in BOOLEAN : Ends(i, kind, o) => i \in FlightOf(calls, kind)
  BY DEF Ends, FlightOf, Kinds
<1>4. ASSUME NEW kind \in Kinds, Ends(i, kind, ok), NEW q,
             q.updating = IF kind = "update" THEN FALSE ELSE page.updating,
             q.connecting = IF kind = "connect" THEN FALSE ELSE page.connecting,
             q.load = "loading" => kind # "posture" /\ page.load = "loading",
             q.findingsLoad = "loading" => kind # "filtered" /\ page.findingsLoad = "loading",
             q.detailLoad = "loading" => kind # "detail" /\ page.detailLoad = "loading",
             q.signingIn => kind # "login" /\ page.signingIn
      PROVE  Busy(q, Done(i))
  <2>1. i \in FlightOf(calls, kind)
    BY <1>3, <1>4
  <2>2. \A other : other # kind => FlightOf(Done(i), other) = FlightOf(calls, other)
    BY <1>1, <1>2, <1>4
  <2>3. kind \in {"update", "connect"} => FlightOf(Done(i), kind) = {}
    BY <1>1, <2>1 DEF Busy
  <2>4. /\ q.updating <=> FlightOf(Done(i), "update") # {}
        /\ \A x, y \in FlightOf(Done(i), "update") : x = y
    BY <1>4, <2>2, <2>3 DEF Busy
  <2>5. /\ q.connecting <=> FlightOf(Done(i), "connect") # {}
        /\ \A x, y \in FlightOf(Done(i), "connect") : x = y
    BY <1>4, <2>2, <2>3 DEF Busy
  <2>6. /\ q.load = "loading" => FlightOf(Done(i), "posture") # {}
        /\ q.findingsLoad = "loading" => FlightOf(Done(i), "filtered") # {}
        /\ q.detailLoad = "loading" => FlightOf(Done(i), "detail") # {}
        /\ q.signingIn => FlightOf(Done(i), "login") # {}
    BY <1>4, <2>2 DEF Busy
  <2>7. QED
    BY <2>4, <2>5, <2>6 DEF Busy
<1>k. {"posture", "filtered", "detail", "update", "connect", "login", "logout"} \subseteq Kinds
  BY DEF Kinds
<1>5. CASE TakePosture(i, ok)
  <2>1. /\ Ends(i, "posture", ok) /\ calls' = Done(i)
        /\ page'.updating = page.updating /\ page'.connecting = page.connecting
        /\ page'.load # "loading" /\ page'.findingsLoad = page.findingsLoad
        /\ page'.detailLoad = page.detailLoad /\ page'.signingIn = page.signingIn
    BY <1>0, <1>5 DEF TakePosture, PageRow
  <2>2. QED
    BY <1>4, <1>k, <2>1
<1>6. CASE TakeFiltered(i, ok)
  <2>1. /\ Ends(i, "filtered", ok) /\ calls' = Done(i)
        /\ page'.updating = page.updating /\ page'.connecting = page.connecting
        /\ page'.load = page.load /\ page'.findingsLoad # "loading"
        /\ page'.detailLoad = page.detailLoad /\ page'.signingIn = page.signingIn
    BY <1>0, <1>6 DEF TakeFiltered, PageRow
  <2>2. QED
    BY <1>4, <1>k, <2>1
<1>7. CASE TakeDetail(i, ok)
  <2>1. /\ Ends(i, "detail", ok) /\ calls' = Done(i)
        /\ page'.updating = page.updating /\ page'.connecting = page.connecting
        /\ page'.load = page.load /\ page'.findingsLoad = page.findingsLoad
        /\ page'.detailLoad # "loading" /\ page'.signingIn = page.signingIn
    BY <1>0, <1>7 DEF TakeDetail, PageRow
  <2>2. QED
    BY <1>4, <1>k, <2>1
<1>8. CASE TakeUpdate(i, ok)
  <2>1. /\ Ends(i, "update", ok) /\ calls' = Done(i)
        /\ page'.updating = FALSE /\ page'.connecting = page.connecting
        /\ page'.load = page.load /\ page'.findingsLoad = page.findingsLoad
        /\ page'.detailLoad = page.detailLoad /\ page'.signingIn = page.signingIn
    BY <1>0, <1>8 DEF TakeUpdate, PageRow
  <2>2. QED
    BY <1>4, <1>k, <2>1
<1>9. CASE TakeConnect(i, ok)
  <2>1. /\ Ends(i, "connect", ok) /\ calls' = Done(i)
        /\ page'.updating = page.updating /\ page'.connecting = FALSE
        /\ page'.load = page.load /\ page'.findingsLoad = page.findingsLoad
        /\ page'.detailLoad = page.detailLoad /\ page'.signingIn = page.signingIn
    BY <1>0, <1>9 DEF TakeConnect, PageRow
  <2>2. QED
    BY <1>4, <1>k, <2>1
<1>10. CASE TakeLogin(i, ok)
  <2> DEFINE p == [page EXCEPT !.session = TRUE, !.signingIn = FALSE]
  <2>1. /\ Ends(i, "login", ok)
        /\ IF ok THEN /\ page' = PageLoading(PostureLoading(p))
                      /\ calls' = Done(i) \o <<PostureCall>> \o PageCalls(p)
           ELSE page' = [page EXCEPT !.signingIn = FALSE] /\ calls' = Done(i)
    BY <1>10 DEF TakeLogin
  <2>2. p \in PageRow
    BY <1>0 DEF PageRow
  <2>3. /\ p.updating = page.updating /\ p.connecting = page.connecting
        /\ p.load = page.load /\ p.findingsLoad = page.findingsLoad
        /\ p.detailLoad = page.detailLoad /\ p.signingIn = FALSE
    BY <1>0 DEF PageRow
  <2> HIDE DEF p
  <2>4. Busy(p, Done(i))
    BY <1>4, <1>k, <2>1, <2>3
  <2>5. CASE ok
    <3> DEFINE base == Done(i) \o <<PostureCall>>
    <3>1. base \in Seq(CallSet)
      BY <1>0, CallsMade, FlightGrows
    <3>2. Busy(PostureLoading(p), base)
      BY <1>0, <2>2, <2>4, BusyRefreshing
    <3>3. PostureLoading(p) \in PageRow /\ PageCalls(PostureLoading(p)) = PageCalls(p)
      BY <2>2, LoadsTyped DEF PageCalls, PostureLoading, PageRow
    <3>4. page' = PageLoading(PostureLoading(p)) /\ calls' = base \o PageCalls(p)
      BY <2>1, <2>5
    <3> HIDE DEF base
    <3>5. QED
      BY <3>1, <3>2, <3>3, <3>4, BusyOpening
  <2>6. CASE ~ok
    <3>1. /\ page'.updating = page.updating /\ page'.connecting = page.connecting
          /\ page'.load = page.load /\ page'.findingsLoad = page.findingsLoad
          /\ page'.detailLoad = page.detailLoad /\ page'.signingIn = FALSE
          /\ calls' = Done(i)
      BY <1>0, <2>1, <2>6 DEF PageRow
    <3>2. QED
      BY <1>4, <1>k, <2>1, <3>1
  <2>7. QED
    BY <2>5, <2>6
<1>11. CASE TakeLogout(i)
  <2>1. /\ Ends(i, "logout", TRUE) /\ calls' = Done(i)
        /\ page'.updating = page.updating /\ page'.connecting = page.connecting
        /\ page'.load # "loading" /\ page'.findingsLoad = page.findingsLoad
        /\ page'.detailLoad = page.detailLoad /\ page'.signingIn = page.signingIn
    BY <1>0, <1>11 DEF TakeLogout, PageRow
  <2>2. i \in FlightOf(calls, "logout")
    BY <1>3, <1>k, <2>1
  <2>3. \A kind : kind # "logout" => FlightOf(calls', kind) = FlightOf(calls, kind)
    BY <1>1, <2>1, <2>2 DEF FlightOf
  <2>4. /\ FlightOf(calls', "update") = FlightOf(calls, "update")
        /\ FlightOf(calls', "connect") = FlightOf(calls, "connect")
        /\ FlightOf(calls', "filtered") = FlightOf(calls, "filtered")
        /\ FlightOf(calls', "detail") = FlightOf(calls, "detail")
        /\ FlightOf(calls', "login") = FlightOf(calls, "login")
    BY <2>3
  <2>5. QED
    BY <2>1, <2>4 DEF Busy
<1>12. QED
  BY <1>5, <1>6, <1>7, <1>8, <1>9, <1>10, <1>11

LEMMA BusyStep ==
  ASSUME Typed, Busy(page, calls), [Next]_vars
  PROVE  Busy(page, calls)'
<1>1. ASSUME NEW i \in 1..Len(calls), Serve(i)
      PROVE  Busy(page', calls')
  <2>1. page' = page /\ \A kind : FlightOf(calls', kind) = FlightOf(calls, kind)
    BY <1>1, ServeIs, FlightServed
  <2>2. QED
    BY <2>1 DEF Busy
<1>2. CASE UNCHANGED <<page, calls>>
  BY <1>2
<1>3. QED
  BY <1>1, <1>2, NextIs, BusyUser, BusyTake DEF ConnectElsewhere, vars

(* THEOREM 2.  The status buttons are blocked exactly while one update is in *)
(* flight, however the user moves between pages and sessions meanwhile.      *)
THEOREM UpdatesOneAtATime == Spec => []OneUpdateAtATime
<1>1. Busy(page, calls) => OneUpdateAtATime
  BY DEF Busy, OneUpdateAtATime, FlightOf, Pending
<1>2. QED
  BY <1>1, InitTyped, TypeStep, BusyInit, BusyStep, PTL DEF Spec

(* THEOREM 3.  Whatever is shown as in progress has a call in flight that    *)
(* will end it.                                                              *)
THEOREM NothingLoadsForGood == Spec => []LoadingHasCall
<1>1. Busy(page, calls) => LoadingHasCall
  BY DEF Busy, LoadingHasCall, FlightOf, Pending
<1>2. QED
  BY <1>1, InitTyped, TypeStep, BusyInit, BusyStep, PTL DEF Spec

-----------------------------------------------------------------------------
(* A page of a finding was opened after call i.                              *)
Overtaken(cs, i) == \E j \in i+1..Len(cs) : cs[j].kind = "detail"

(* The calls about findings that were made since the page of a finding was   *)
(* opened are about that finding.                                            *)
Current(p, cs) ==
  p.session /\ p.route \in Findings =>
    \A i \in FlightOf(cs, "detail") \cup FlightOf(cs, "update") :
      Overtaken(cs, i) \/ cs[i].id = p.route

(* The page that was opened last waits for its own answer.                   *)
Awaited(cs) == \E i \in FlightOf(cs, "detail") : ~Overtaken(cs, i)

(* The finding shown has its status on top of the log, and it is the page's, *)
(* but for the late answers that are noted.                                  *)
OfPage(p, cs, noted) ==
  p.detailLoad = "ready" =>
    /\ p.log # <<>> /\ Head(p.log) = p.selected.status
    /\ p.session /\ p.route \in Findings =>
         \/ p.selected.id = p.route
         \/ noted = "passing" /\ Awaited(cs)
         \/ noted = "lasting"

LEMMA CurrentOpening ==
  ASSUME NEW p \in PageRow, NEW cs \in Seq(CallSet)
  PROVE  Current(PageLoading(p), cs \o PageCalls(p))
<1>0. PageLoading(p).route = p.route
  BY DEF PageLoading, FilteredLoading, DetailLoading, PageRow
<1>1. CASE p.route \notin Findings
  BY <1>0, <1>1 DEF Current
<1>2. CASE p.route \in Findings
  <2> DEFINE c  == Call("detail", p.route, None, None)
             ds == cs \o <<c>>
  <2>1. PageCalls(p) = <<c>>
    BY <1>2, DashboardAssumption DEF PageCalls
  <2>2. c \in Fresh /\ c.kind = "detail" /\ c.id = p.route
    BY <1>2 DEF Call, Fresh, CallSet, CallRow, Sensible, Kinds, Filters
  <2> HIDE DEF c
  <2>3. Len(ds) = Len(cs) + 1 /\ ds[Len(cs) + 1] = c /\ Len(cs) \in Nat
    BY <2>2, FlightGrows
  <2> HIDE DEF ds
  <2>4. \A i \in 1..Len(ds) : i = Len(cs) + 1 \/ Len(cs) + 1 \in i+1..Len(ds)
    BY <2>3
  <2>5. Current(PageLoading(p), ds)
    BY <1>0, <2>2, <2>3, <2>4 DEF Current, Overtaken, FlightOf
  <2>6. QED
    BY <2>1, <2>5 DEF ds
<1>3. QED
  BY <1>1, <1>2

LEMMA CurrentCalling ==
  ASSUME NEW p, NEW q, NEW cs \in Seq(CallSet), NEW c \in Fresh, Current(p, cs),
         q.session = p.session, q.route = p.route,
         c.kind \in {"detail", "update"} => c.id = p.route
  PROVE  Current(q, cs \o <<c>>)
<1> DEFINE ds == cs \o <<c>>
<1>1. /\ Len(ds) = Len(cs) + 1 /\ ds[Len(cs) + 1] = c /\ Len(cs) \in Nat
      /\ \A i \in 1..Len(cs) : ds[i] = cs[i]
  BY FlightGrows
<1> HIDE DEF ds
<1>2. \A i \in 1..Len(cs) : Overtaken(cs, i) => Overtaken(ds, i)
  BY <1>1 DEF Overtaken
<1>3. SUFFICES ASSUME p.session, p.route \in Findings,
                      NEW i \in FlightOf(ds, "detail") \cup FlightOf(ds, "update")
               PROVE  Overtaken(ds, i) \/ ds[i].id = p.route
  BY DEF Current, ds
<1>4. CASE i = Len(cs) + 1
  BY <1>1, <1>3, <1>4 DEF FlightOf
<1>5. CASE i # Len(cs) + 1
  <2>1. i \in 1..Len(cs)
    BY <1>1, <1>3, <1>5 DEF FlightOf
  <2>2. i \in FlightOf(cs, "detail") \cup FlightOf(cs, "update")
    BY <1>1, <1>3, <2>1 DEF FlightOf
  <2>3. QED
    BY <1>1, <1>2, <1>3, <2>1, <2>2 DEF Current
<1>6. QED
  BY <1>4, <1>5

LEMMA CurrentEnds ==
  ASSUME Typed, NEW i \in 1..Len(calls), Current(page, calls), NEW q,
         q.session => page.session /\ q.route = page.route
  PROVE  Current(q, Done(i))
<1>1. /\ Len(Done(i)) = Len(calls) /\ Len(calls) \in Nat
      /\ \A j \in 1..Len(calls) : /\ j # i => Done(i)[j] = calls[j]
                                  /\ calls[j].kind = "detail" => Done(i)[j].kind = "detail"
  BY DoneTyped DEF Typed
<1>2. \A j \in 1..Len(calls) : Overtaken(calls, j) => Overtaken(Done(i), j)
  BY <1>1 DEF Overtaken
<1>3. \A kind : FlightOf(Done(i), kind) = FlightOf(calls, kind) \ {i}
  BY FlightEnds
<1>4. QED
  BY <1>1, <1>2, <1>3 DEF Current, FlightOf

(* A page goes on waiting for its own answer while others come and other     *)
(* calls are made.                                                           *)
LEMMA AwaitedCalling ==
  ASSUME NEW cs \in Seq(CallSet), NEW c \in Fresh, c.kind # "detail", Awaited(cs)
  PROVE  Awaited(cs \o <<c>>)
<1> DEFINE ds == cs \o <<c>>
<1>1. /\ Len(ds) = Len(cs) + 1 /\ ds[Len(cs) + 1] = c /\ Len(cs) \in Nat
      /\ \A i \in 1..Len(cs) : ds[i] = cs[i]
  BY FlightGrows
<1> HIDE DEF ds
<1>d. FlightOf(cs, "detail") \subseteq FlightOf(ds, "detail")
  BY <1>1 DEF FlightOf
<1>2. \A i \in FlightOf(cs, "detail") : Overtaken(ds, i) => Overtaken(cs, i)
  BY <1>1 DEF Overtaken, FlightOf
<1>3. QED
  BY <1>d, <1>2 DEF Awaited, ds

LEMMA AwaitedEnds ==
  ASSUME Typed, NEW i \in 1..Len(calls), Awaited(calls),
         i \notin FlightOf(calls, "detail") \/ Overtaken(calls, i)
  PROVE  Awaited(Done(i))
<1>1. /\ Len(Done(i)) = Len(calls) /\ Len(calls) \in Nat
      /\ \A j \in 1..Len(calls) : Done(i)[j].kind = "detail" <=> calls[j].kind = "detail"
  BY DoneTyped DEF Typed
<1>2. \A j \in FlightOf(calls, "detail") : Overtaken(Done(i), j) => Overtaken(calls, j)
  BY <1>1 DEF Overtaken, FlightOf
<1>3. FlightOf(Done(i), "detail") = FlightOf(calls, "detail") \ {i}
  BY FlightEnds
<1>4. QED
  BY <1>2, <1>3 DEF Awaited

LEMMA CurrentSame ==
  ASSUME NEW p, NEW q, NEW cs, Current(p, cs), q.session => p.session /\ q.route = p.route
  PROVE  Current(q, cs)
BY DEF Current

LEMMA CurrentInit == Init => Current(page, calls) /\ OfPage(page, calls, late)
<1> SUFFICES ASSUME Init PROVE Current(page, calls) /\ OfPage(page, calls, late)
  OBVIOUS
<1>t. Typed
  BY InitTyped
<1>1. CASE Mount
  <2>1. PICK token \in BOOLEAN, r \in Routes :
          LET p == [SignedOut EXCEPT !.session = token, !.route = r]
          IN IF token THEN /\ page = PageLoading(PostureLoading(p))
                           /\ calls = <<PostureCall>> \o PageCalls(p)
                      ELSE page = p /\ calls = <<>>
    BY <1>1 DEF Mount
  <2> DEFINE p == [SignedOut EXCEPT !.session = token, !.route = r]
  <2>2. p.detailLoad = "idle" /\ p.session = token
    BY DEF SignedOut
  <2>3. p \in PageRow
    <3>1. /\ "idle" \in Loads /\ <<>> \in Seq(Statuses)
          /\ NoFindings \in Shown /\ None \in Filters /\ NoPosture \in PostureData
          /\ Nothing \in [id : Findings \cup {None}, status : Statuses \cup {None}]
      BY DEF Loads, NoFindings, Shown, NoPosture, PostureData, Filters, Nothing
    <3>2. QED
      BY <3>1 DEF SignedOut, PageRow
  <2>4. IF token THEN /\ page = PageLoading(PostureLoading(p))
                      /\ calls = <<PostureCall>> \o PageCalls(p)
                 ELSE page = p /\ calls = <<>>
    BY <2>1
  <2> HIDE DEF p
  <2>5. CASE token
    <3>1. PostureLoading(p) \in PageRow /\ PageCalls(PostureLoading(p)) = PageCalls(p)
          /\ PostureLoading(p).detailLoad = "idle"
      BY <2>2, <2>3, LoadsTyped DEF PageCalls, PostureLoading, PageRow
    <3>2. <<PostureCall>> \in Seq(CallSet)
      BY CallsMade DEF Fresh
    <3>3. Current(page, calls)
      BY <2>4, <2>5, <3>1, <3>2, CurrentOpening
    <3>4. page.detailLoad # "ready"
      BY <2>4, <2>5, <3>1 DEF PageLoading, FilteredLoading, DetailLoading, PageRow
    <3>5. QED
      BY <3>3, <3>4 DEF OfPage
  <2>6. CASE ~token
    BY <2>2, <2>4, <2>6 DEF Current, OfPage
  <2>7. QED
    BY <2>5, <2>6
<1>2. CASE Settled
  <2>1. calls = <<>>
    BY <1>2 DEF Settled
  <2>2. Current(page, calls)
    BY <2>1 DEF Current, FlightOf
  <2>3. OfPage(page, calls, late)
    BY <1>2 DEF Settled, SignedOut, OfPage
  <2>4. QED
    BY <2>2, <2>3
<1>3. QED
  BY <1>1, <1>2 DEF Init

LEMMA CurrentUser ==
  ASSUME Typed, Current(page, calls), OfPage(page, calls, late), User
  PROVE  Current(page', calls') /\ OfPage(page', calls', late')
<1>0. page \in PageRow /\ calls \in Seq(CallSet)
  BY DEF Typed
<1>1. \A new : Makes(new) => calls' = calls \o new
  BY DEF Makes
<1>o. \A p \in PageRow : p.session = page.session => PageLoading(p).session = page.session
  BY DEF PageLoading, FilteredLoading, DetailLoading, PageRow
<1>2. ASSUME NEW r \in Routes, Navigate(r)
      PROVE  Current(page', calls') /\ OfPage(page', calls', late')
  <2> DEFINE p == [page EXCEPT !.route = r]
  <2>1. /\ page' = IF page.session THEN PageLoading(p) ELSE p
        /\ Makes(IF page.session THEN PageCalls(p) ELSE <<>>)
    BY <1>2 DEF Navigate
  <2>2. p \in PageRow /\ p.session = page.session /\ p.route = r
        /\ p.log = page.log /\ p.selected = page.selected /\ p.detailLoad = page.detailLoad
    BY <1>0 DEF PageRow
  <2> HIDE DEF p
  <2>3. CASE page.session
    <3>1. Current(page', calls')
      BY <1>0, <1>1, <2>1, <2>2, <2>3, CurrentOpening
    <3>2. OfPage(PageLoading(p), calls', late')
      <4>1. CASE r \in Findings
        BY <2>2, <4>1, DashboardAssumption DEF PageLoading, DetailLoading, OfPage, PageRow
      <4>2. CASE r = "overview"
        BY <2>2, <4>2, DashboardAssumption DEF PageLoading, OfPage
      <4>3. CASE r = "findings"
        BY <2>2, <4>3, DashboardAssumption DEF PageLoading, FilteredLoading, OfPage, PageRow
      <4>4. QED
        BY <4>1, <4>2, <4>3 DEF Routes
    <3>3. QED
      BY <2>1, <2>3, <3>1, <3>2
  <2>4. CASE ~page.session
    BY <2>1, <2>2, <2>4 DEF Current, OfPage
  <2>5. QED
    BY <2>3, <2>4
<1>3. CASE Refresh
  <2>1. page' = PostureLoading(page) /\ calls' = calls \o <<PostureCall>> /\ late' = late
    BY <1>1, <1>3 DEF Refresh
  <2>2. PostureCall \in Fresh /\ PostureCall.kind = "posture"
    BY CallsMade DEF PostureCall, Call
  <2>3. /\ page'.session = page.session /\ page'.route = page.route /\ page'.log = page.log
        /\ page'.selected = page.selected /\ page'.detailLoad = page.detailLoad
    BY <1>0, <2>1 DEF PostureLoading, PageRow
  <2>4. QED
    BY <1>0, <2>1, <2>2, <2>3, CurrentCalling, AwaitedCalling DEF OfPage
<1>4. ASSUME NEW filter \in Filters, ChooseFilter(filter)
      PROVE  Current(page', calls') /\ OfPage(page', calls', late')
  <2>1. /\ page'.route = "findings" /\ page'.log = page.log
        /\ page'.selected = page.selected /\ page'.detailLoad = page.detailLoad
    BY <1>0, <1>4 DEF ChooseFilter, FilteredLoading, PageRow
  <2>2. QED
    BY <2>1, DashboardAssumption DEF Current, OfPage
<1>5. ASSUME NEW status \in Statuses, ClickStatus(status)
      PROVE  Current(page', calls') /\ OfPage(page', calls', late')
  <2> DEFINE c == Call("update", page.route, status, page.filter)
  <2>1. page' = [page EXCEPT !.updating = TRUE] /\ calls' = calls \o <<c>> /\ late' = late
        /\ page.route \in Findings
    BY <1>1, <1>5 DEF ClickStatus
  <2>2. c \in Fresh /\ c.kind = "update" /\ c.id = page.route
    BY <1>0, <2>1, CallsMade DEF Call, PageRow
  <2>3. /\ page'.session = page.session /\ page'.route = page.route /\ page'.log = page.log
        /\ page'.selected = page.selected /\ page'.detailLoad = page.detailLoad
    BY <1>0, <2>1 DEF PageRow
  <2> HIDE DEF c
  <2>4. QED
    BY <1>0, <2>1, <2>2, <2>3, CurrentCalling, AwaitedCalling DEF OfPage
<1>6. CASE OpenModal \/ CloseModal
  <2>1. /\ page'.session = page.session /\ page'.route = page.route /\ page'.log = page.log
        /\ page'.selected = page.selected /\ page'.detailLoad = page.detailLoad
        /\ late' = late /\ calls' = calls
    BY <1>0, <1>1, <1>6, NothingMore DEF OpenModal, CloseModal, PageRow
  <2>2. QED
    BY <2>1, CurrentSame DEF OfPage
<1>7. CASE (\E a \in Accounts : Connect(a)) \/ SignOut \/ SignIn
  <2>1. PICK c \in Fresh : /\ calls' = calls \o <<c>>
                           /\ c.kind \in {"connect", "logout", "login"}
    <3>1. /\ \A a \in Accounts : Call("connect", a, None, None) \in Fresh
          /\ Call("login", None, None, None) \in Fresh
          /\ Call("logout", None, None, None) \in Fresh
          /\ \A kind, id : Call(kind, id, None, None).kind = kind
      BY CallsMade DEF Call
    <3>2. QED
      BY <1>1, <1>7, <3>1 DEF Connect, SignOut, SignIn
  <2>2. /\ page'.session = page.session /\ page'.route = page.route /\ page'.log = page.log
        /\ page'.selected = page.selected /\ page'.detailLoad = page.detailLoad
        /\ late' = late
    BY <1>0, <1>7 DEF Connect, SignOut, SignIn, PageRow
  <2>3. QED
    BY <1>0, <2>1, <2>2, CurrentCalling, AwaitedCalling DEF OfPage
<1>8. QED
  BY <1>2, <1>3, <1>4, <1>5, <1>6, <1>7, UserIs

LEMMA CurrentTake ==
  ASSUME Typed, Current(page, calls), OfPage(page, calls, late), NEW i \in 1..Len(calls),
         NEW ok \in BOOLEAN,
         \/ TakePosture(i, ok) \/ TakeFiltered(i, ok) \/ TakeDetail(i, ok)
         \/ TakeUpdate(i, ok) \/ TakeConnect(i, ok) \/ TakeLogin(i, ok)
         \/ TakeLogout(i)
  PROVE  Current(page', calls') /\ OfPage(page', calls', late')
<1>0. page \in PageRow /\ Done(i) \in Seq(CallSet) /\ calls[i] \in CallSet
  BY DoneTyped DEF Typed
<1>1. ASSUME page'.session = page.session, page'.route = page.route, calls' = Done(i)
      PROVE  Current(page', calls')
  BY <1>1, CurrentEnds
<1>2. Lateness(i) = IF ~Overtaken(calls, i) THEN "no"
                    ELSE IF Awaited(calls) THEN "passing" ELSE "lasting"
  <2>1. \A j : Outdated(j) = Overtaken(calls, j)
    BY DEF Outdated, Overtaken
  <2>2. OpeningAwaited = Awaited(calls)
    BY <2>1 DEF OpeningAwaited, Awaited, Pending, FlightOf
  <2>3. QED
    BY <2>1, <2>2 DEF Lateness
<1>a. i \notin FlightOf(calls, "detail") /\ Awaited(calls) => Awaited(Done(i))
  BY AwaitedEnds
<1>3. CASE TakePosture(i, ok) \/ TakeFiltered(i, ok) \/ TakeConnect(i, ok)
  <2>1. /\ page'.session = page.session /\ page'.route = page.route /\ page'.log = page.log
        /\ page'.selected = page.selected /\ page'.detailLoad = page.detailLoad
        /\ late' = late /\ calls' = Done(i)
    BY <1>0, <1>3 DEF TakePosture, TakeFiltered, TakeConnect, PageRow
  <2>2. i \notin FlightOf(calls, "detail")
    BY <1>3 DEF TakePosture, TakeFiltered, TakeConnect, Ends, FlightOf
  <2>3. QED
    BY <1>1, <1>a, <2>1, <2>2 DEF OfPage
<1>4. CASE TakeDetail(i, ok)
  <2>1. page'.session = page.session /\ page'.route = page.route /\ calls' = Done(i)
    BY <1>0, <1>4 DEF TakeDetail, PageRow
  <2>2. OfPage(page', calls', late')
    <3>1. CASE ok
      <4>1. /\ page'.selected = [id |-> calls[i].id, status |-> calls[i].answer]
            /\ page'.log = <<calls[i].answer>> /\ late' = Lateness(i)
        BY <1>0, <1>2, <1>4, <3>1 DEF TakeDetail, PageRow
      <4>2. i \in FlightOf(calls, "detail")
        BY <1>4 DEF TakeDetail, Ends, FlightOf
      <4>3. ~Overtaken(calls, i) /\ page.session /\ page.route \in Findings
              => calls[i].id = page.route
        BY <4>2 DEF Current
      <4>4. Overtaken(calls, i) /\ Awaited(calls) => Awaited(Done(i))
        BY AwaitedEnds
      <4>5. page'.log # <<>> /\ Head(page'.log) = page'.selected.status
        BY <4>1
      <4>6. QED
        BY <1>2, <2>1, <4>1, <4>3, <4>4, <4>5 DEF OfPage
    <3>2. CASE ~ok
      BY <1>0, <1>4, <3>2 DEF TakeDetail, PageRow, OfPage
    <3>3. QED
      BY <3>1, <3>2
  <2>3. QED
    BY <1>1, <2>1, <2>2
<1>5. CASE TakeUpdate(i, ok)
  <2>0. i \notin FlightOf(calls, "detail")
    BY <1>5 DEF TakeUpdate, Ends, FlightOf
  <2>1. page'.session = page.session /\ page'.route = page.route /\ calls' = Done(i)
        /\ page'.detailLoad = page.detailLoad
    BY <1>0, <1>5 DEF TakeUpdate, PageRow
  <2>2. OfPage(page', calls', late')
    <3>1. CASE ok
      <4>1. /\ page'.selected = [id |-> calls[i].id, status |-> calls[i].answer]
            /\ page'.log = <<calls[i].status>> \o page.log /\ late' = Lateness(i)
        BY <1>0, <1>2, <1>5, <3>1 DEF TakeUpdate, PageRow
      <4>2. i \in FlightOf(calls, "update") /\ calls[i].at = "ok"
        BY <1>5, <3>1 DEF TakeUpdate, Ends, FlightOf
      <4>3. calls[i].answer = calls[i].status /\ calls[i].status \in Statuses
        BY <1>0, <4>2 DEF CallSet, Sensible, FlightOf
      <4>4. <<calls[i].status>> \o page.log # <<>>
            /\ Head(<<calls[i].status>> \o page.log) = calls[i].status
        BY <1>0, <4>3 DEF PageRow
      <4>5. ~Overtaken(calls, i) /\ page.session /\ page.route \in Findings
              => calls[i].id = page.route
        BY <4>2 DEF Current
      <4>6. page'.log # <<>> /\ Head(page'.log) = page'.selected.status
        BY <4>1, <4>2, <4>3, <4>4
      <4>7. QED
        BY <1>2, <1>a, <2>0, <2>1, <4>1, <4>5, <4>6 DEF OfPage
    <3>2. CASE ~ok
      <4>1. page'.selected = page.selected /\ page'.log = page.log /\ late' = late
        BY <1>0, <1>5, <3>2 DEF TakeUpdate, PageRow
      <4>2. QED
        BY <1>a, <2>0, <2>1, <4>1 DEF OfPage
    <3>3. QED
      BY <3>1, <3>2
  <2>3. QED
    BY <1>1, <2>1, <2>2
<1>6. CASE TakeLogin(i, ok)
  <2> DEFINE p == [page EXCEPT !.session = TRUE, !.signingIn = FALSE]
  <2>1. /\ IF ok THEN /\ page' = PageLoading(PostureLoading(p))
                      /\ calls' = Done(i) \o <<PostureCall>> \o PageCalls(p)
                      /\ late' = "no"
           ELSE page' = [page EXCEPT !.signingIn = FALSE] /\ calls' = Done(i) /\ late' = late
    BY <1>6 DEF TakeLogin
  <2>2. p \in PageRow /\ p.log = page.log /\ p.selected = page.selected
        /\ p.detailLoad = page.detailLoad
    BY <1>0 DEF PageRow
  <2> HIDE DEF p
  <2>3. CASE ok
    <3> DEFINE base == Done(i) \o <<PostureCall>>
               q    == PostureLoading(p)
    <3>1. base \in Seq(CallSet)
      BY <1>0, CallsMade, FlightGrows
    <3>2. /\ q \in PageRow /\ PageCalls(q) = PageCalls(p) /\ q.log = page.log
          /\ q.selected = page.selected /\ q.detailLoad = page.detailLoad
      BY <2>2, LoadsTyped DEF PageCalls, PostureLoading, PageRow
    <3>3. page' = PageLoading(q) /\ calls' = base \o PageCalls(p)
      BY <2>1, <2>3
    <3> HIDE DEF base, q
    <3>4. Current(page', calls')
      BY <3>1, <3>2, <3>3, CurrentOpening
    <3>5. OfPage(PageLoading(q), calls', late')
      <4>1. CASE q.route \in Findings
        BY <3>2, <4>1, DashboardAssumption DEF PageLoading, DetailLoading, OfPage, PageRow
      <4>2. CASE q.route = "overview"
        BY <3>2, <4>2, DashboardAssumption DEF PageLoading, OfPage
      <4>3. CASE q.route = "findings"
        BY <3>2, <4>3, DashboardAssumption DEF PageLoading, FilteredLoading, OfPage, PageRow
      <4>4. QED
        BY <3>2, <4>1, <4>2, <4>3 DEF Routes, PageRow
    <3>6. QED
      BY <3>3, <3>4, <3>5
  <2>4. CASE ~ok
    <3>1. /\ page'.session = page.session /\ page'.route = page.route /\ page'.log = page.log
          /\ page'.selected = page.selected /\ page'.detailLoad = page.detailLoad
          /\ late' = late /\ calls' = Done(i)
      BY <1>0, <2>1, <2>4 DEF PageRow
    <3>2. i \notin FlightOf(calls, "detail")
      BY <1>6 DEF TakeLogin, Ends, FlightOf
    <3>3. QED
      BY <1>1, <1>a, <3>1, <3>2 DEF OfPage
  <2>5. QED
    BY <2>3, <2>4
<1>7. CASE TakeLogout(i)
  <2>1. /\ page'.session = FALSE /\ page'.log = page.log
        /\ page'.selected = page.selected /\ page'.detailLoad = page.detailLoad
    BY <1>0, <1>7 DEF TakeLogout, PageRow
  <2>2. QED
    BY <2>1 DEF Current, OfPage
<1>8. QED
  BY <1>3, <1>4, <1>5, <1>6, <1>7

LEMMA CurrentStep ==
  ASSUME Typed, Current(page, calls), OfPage(page, calls, late), [Next]_vars
  PROVE  (Current(page, calls) /\ OfPage(page, calls, late))'
<1>1. ASSUME NEW i \in 1..Len(calls), Serve(i)
      PROVE  Current(page', calls') /\ OfPage(page', calls', late')
  <2>1. /\ page' = page /\ late' = late /\ Len(calls') = Len(calls)
        /\ \A j \in 1..Len(calls) : calls'[j].kind = calls[j].kind /\ calls'[j].id = calls[j].id
        /\ \A kind : FlightOf(calls', kind) = FlightOf(calls, kind)
    BY <1>1, ServeIs, FlightServed
  <2>2. \A j \in 1..Len(calls) : Overtaken(calls', j) = Overtaken(calls, j)
    BY <2>1 DEF Overtaken, Typed
  <2>3. Awaited(calls') = Awaited(calls)
    BY <2>1, <2>2 DEF Awaited, FlightOf
  <2>4. QED
    BY <2>1, <2>2, <2>3 DEF Current, OfPage, FlightOf
<1>2. CASE UNCHANGED <<page, calls, late>>
  BY <1>2
<1>3. QED
  BY <1>1, <1>2, NextIs, CurrentUser, CurrentTake DEF ConnectElsewhere, vars

(* THEOREM 4.  A finding's page has the status of its finding on top of the  *)
(* log, and it shows that finding, but for an answer to a call made before   *)
(* the page was opened: while the page's own answer is still to come, or     *)
(* when the other one comes after it.                                        *)
THEOREM DetailsAreOfThePage == Spec => []DetailIsOfPage
<1>1. OfPage(page, calls, late) => DetailIsOfPage
  <2>1. OpeningAwaited = Awaited(calls)
    BY DEF OpeningAwaited, Awaited, Pending, FlightOf, Outdated, Overtaken
  <2>2. QED
    BY <2>1 DEF OfPage, DetailIsOfPage
<1>2. QED
  BY <1>1, InitTyped, TypeStep, CurrentInit, CurrentStep, PTL DEF Spec

=============================================================================
