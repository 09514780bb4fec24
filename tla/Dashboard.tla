----------------------------- MODULE Dashboard -----------------------------
(***************************************************************************)
(* The web dashboard: the state of its App component, the calls it has in  *)
(* flight to the API, and what the API holds meanwhile.  The API handles a *)
(* call at some moment and its answer arrives at a later one, in any order *)
(* with the answers to other calls; no answer is ever cancelled or         *)
(* recognised as outdated.  React runs the effects of a state change       *)
(* before the next event, so they are part of the action that causes them. *)
(*                                                                         *)
(* The API client's text for a refused token has no word that the posture  *)
(* load looks for, so handleSessionExpired is never called: a refused      *)
(* token is a failed call like any other.                                  *)
(***************************************************************************)
EXTENDS Naturals, Sequences, FiniteSets

CONSTANTS
  Findings,     (* the findings of the tenant                                *)
  Statuses,     (* FindingStatus                                             *)
  Accounts,     (* the AWS accounts somebody may connect                     *)
  None,
  MaxCalls,     (* how many calls a dashboard makes, a bound of the model    *)
  Shared,       (* the accounts that somebody else may connect, too          *)
  CanFail       (* whether calls are refused or get lost                     *)

ASSUME DashboardAssumption ==
  /\ None \notin Findings \cup Statuses \cup Accounts \cup {"detail"}
  /\ Findings \cap {"overview", "findings"} = {}
  /\ MaxCalls \in Nat /\ MaxCalls >= 2
  /\ Shared \subseteq Accounts
  /\ CanFail \in BOOLEAN

(* AppRoute: a finding stands for its page; the pages of assets and cloud    *)
(* accounts load nothing of their own, like the overview.                    *)
Routes  == {"overview", "findings"} \cup Findings
Filters == Statuses \cup {None}

VARIABLES
  page,   (* the React state of App                                          *)
  calls,  (* the calls made so far, in order                                 *)
  server, (* Finding.status and the onboarded accounts, as the API has them  *)
  hasty,  (* history: the user did something while a call was in flight      *)
  late,   (* history: whether what is selected came from a call made before  *)
          (* the page was opened, and whether the page's own answer had come *)
  foreign (* history: the accounts somebody else connected, and the findings *)
          (* and accounts whose change was not confirmed                     *)

vars == <<page, calls, server, hasty, late, foreign>>

Pending == {i \in 1..Len(calls) : calls[i].at # "done"}

(* What each list call answers; a finding that is not listed has no status.  *)
Listed(filter) ==
  [f \in Findings |-> IF filter \in {None, server.status[f]}
                      THEN server.status[f] ELSE None]

(* How often each account is on the list.                                    *)
ListedAccounts == [a \in Accounts |-> IF a \in server.accounts THEN 1 ELSE 0]

NoFindings == [f \in Findings |-> None]
NoPosture  == [status |-> NoFindings, accounts |-> [a \in Accounts |-> 0]]
Nothing    == [id |-> None, status |-> None]

(* A call; what it asks for is fixed when it is made, as in a closure.       *)
Call(kind, id, status, filter) ==
  [kind |-> kind, id |-> id, status |-> status, filter |-> filter,
   at |-> "sent", answer |-> None]

-----------------------------------------------------------------------------
(* The loads.  Each changes the state p of the page and makes a call.        *)
PostureLoading(p)  == [p EXCEPT !.load = "loading"]
FilteredLoading(p) == [p EXCEPT !.findingsLoad = "loading", !.findingsError = FALSE]

(* Mutant of DetailLoading: the page is reset with the update's progress.    *)
DetailLoadingResets(p) ==
  [p EXCEPT !.detailLoad = "loading", !.selected = Nothing, !.log = <<>>,
            !.updating = FALSE]

DetailLoading(p) ==
  [p EXCEPT !.detailLoad = "loading", !.selected = Nothing, !.log = <<>>]

PostureCall == Call("posture", None, None, None)

(* What the effect of a page does when its dependencies change.              *)
PageLoading(p) ==
  CASE p.route = "overview" -> p
    [] p.route = "findings" -> FilteredLoading(p)
    [] OTHER                -> DetailLoading(p)

PageCalls(p) ==
  CASE p.route = "overview" -> <<>>
    [] p.route = "findings" -> <<Call("filtered", None, None, p.filter)>>
    [] OTHER                -> <<Call("detail", p.route, None, None)>>

(* A user event that makes these calls.                                      *)
Makes(new) ==
  /\ Len(calls) + Len(new) <= MaxCalls
  /\ calls' = calls \o new
  /\ hasty' = (hasty \/ Pending # {})

SignedOut ==
  [session |-> FALSE, signingIn |-> FALSE, route |-> "overview", load |-> "idle",
   posture |-> NoPosture, filter |-> None, filtered |-> NoFindings,
   findingsLoad |-> "idle", findingsError |-> FALSE,
   selected |-> Nothing, detailLoad |-> "idle",
   log |-> <<>>, updating |-> FALSE, modal |-> FALSE, connecting |-> FALSE]

(* The app mounts, with or without a stored token, on the route of the hash. *)
Mount ==
  \E token \in BOOLEAN, r \in Routes :
    LET p == [SignedOut EXCEPT !.session = token, !.route = r]
    IN IF token THEN /\ page = PageLoading(PostureLoading(p))
                     /\ calls = <<PostureCall>> \o PageCalls(p)
                ELSE page = p /\ calls = <<>>

(* Or it has been open for a while: the list of findings was visited, a      *)
(* filter may have been chosen, and all that the page shows has been loaded. *)
Settled ==
  \E r \in Routes, filter \in Filters :
    LET listed == [SignedOut EXCEPT
                     !.session = TRUE, !.route = r, !.load = "ready",
                     !.posture = [status |-> Listed(None), accounts |-> ListedAccounts],
                     !.filter = filter, !.filtered = Listed(filter),
                     !.findingsLoad = "ready"]
    IN /\ calls = <<>>
       /\ page = IF r \in Findings
                 THEN [listed EXCEPT !.selected = [id |-> r, status |-> server.status[r]],
                                     !.log = <<server.status[r]>>, !.detailLoad = "ready"]
                 ELSE listed

Init ==
  /\ server \in [status : [Findings -> Statuses], accounts : {{}}]
  /\ Mount \/ Settled
  /\ hasty = FALSE
  /\ late = "no"
  /\ foreign = {}

-----------------------------------------------------------------------------
(* What the user does.                                                       *)

(* A link, a finding in a list, or the hash: the effect of the new page runs *)
(* unless nobody is signed in.                                               *)
Navigate(r) ==
  LET p == [page EXCEPT !.route = r]
  IN /\ r # page.route
     /\ page' = IF page.session THEN PageLoading(p) ELSE p
     /\ Makes(IF page.session THEN PageCalls(p) ELSE <<>>)
     /\ late' = "no"
     /\ UNCHANGED <<server, foreign>>

(* The buttons Refresh and, after an error, Retry.                           *)
Refresh ==
  /\ page.session
  /\ page' = PostureLoading(page)
  /\ Makes(<<PostureCall>>)
  /\ UNCHANGED <<server, late, foreign>>

(* A filter is chosen, or a failed load of the list is retried: its message  *)
(* stays beside a later answer to a call that was made before it.            *)
ChooseFilter(filter) ==
  LET p == [page EXCEPT !.filter = filter]
  IN /\ page.session /\ page.load = "ready" /\ page.route = "findings"
     /\ \/ filter # page.filter
        \/ page.findingsError /\ page.findingsLoad # "loading"
     /\ page' = FilteredLoading(p)
     /\ Makes(PageCalls(p))
     /\ UNCHANGED <<server, late, foreign>>

(* updateFindingStatus: a status button of the finding shown.  The call is   *)
(* for the finding of the route.                                             *)
ClickStatus(status) ==
  /\ page.session /\ page.load = "ready" /\ page.route \in Findings
  /\ page.detailLoad = "ready" /\ page.selected # Nothing
  /\ ~page.updating /\ status # page.selected.status
  /\ page' = [page EXCEPT !.updating = TRUE]
  /\ Makes(<<Call("update", page.route, status, page.filter)>>)
  /\ UNCHANGED <<server, late, foreign>>

OpenModal ==
  /\ page.session /\ page.load = "ready" /\ page.route = "overview" /\ ~page.modal
  /\ page' = [page EXCEPT !.modal = TRUE]
  /\ Makes(<<>>)
  /\ UNCHANGED <<server, late, foreign>>

CloseModal ==
  /\ page.session /\ page.modal
  /\ page' = [page EXCEPT !.modal = FALSE]
  /\ Makes(<<>>)
  /\ UNCHANGED <<server, late, foreign>>

(* handleConnectAccount.                                                     *)
Connect(a) ==
  /\ page.session /\ page.modal /\ ~page.connecting
  /\ page' = [page EXCEPT !.connecting = TRUE]
  /\ Makes(<<Call("connect", a, None, None)>>)
  /\ UNCHANGED <<server, late, foreign>>

(* handleLogout stays signed in until the API has answered.                  *)
SignOut ==
  /\ page.session
  /\ Makes(<<Call("logout", None, None, None)>>)
  /\ UNCHANGED <<page, server, late, foreign>>

SignIn ==
  /\ ~page.session /\ ~page.signingIn
  /\ page' = [page EXCEPT !.signingIn = TRUE]
  /\ Makes(<<Call("login", None, None, None)>>)
  /\ UNCHANGED <<server, late, foreign>>

-----------------------------------------------------------------------------
(* What the API does.                                                        *)
Answered(i, at, answer) ==
  calls' = [calls EXCEPT ![i] = [@ EXCEPT !.at = at, !.answer = answer]]

(* The three requests of a posture load are answered at one moment: nothing  *)
(* that is modelled relates the findings to the accounts.                    *)
ServeRead(i) ==
  LET c == calls[i]
  IN /\ c.at = "sent"
     /\ c.kind \in {"posture", "filtered", "detail"}
     /\ Answered(i, "ok",
          CASE c.kind = "posture"  -> [status |-> Listed(None), accounts |-> ListedAccounts]
            [] c.kind = "filtered" -> Listed(c.filter)
            [] c.kind = "detail"   -> server.status[c.id])
     /\ UNCHANGED <<page, server, hasty, late, foreign>>

ServeUpdate(i) ==
  LET c == calls[i]
  IN /\ c.at = "sent" /\ c.kind = "update"
     /\ server' = [server EXCEPT !.status[c.id] = c.status]
     /\ Answered(i, "ok", c.status)
     /\ UNCHANGED <<page, hasty, late, foreign>>

(* onboardAwsReadOnlyRole: looking the account up, then creating it.  The    *)
(* unique index turns down what somebody else has created between the two.   *)
LookUpAccount(i) ==
  LET c == calls[i]
  IN /\ c.at = "sent" /\ c.kind = "connect"
     /\ \/ /\ c.id \in server.accounts
           /\ Answered(i, "refused", None)
        \/ /\ c.id \notin server.accounts
           /\ Answered(i, "create", None)
     /\ UNCHANGED <<page, server, hasty, late, foreign>>

CreateAccount(i) ==
  LET c == calls[i]
  IN /\ c.at = "create"
     /\ server' = [server EXCEPT !.accounts = @ \cup {c.id}]
     /\ Answered(i, IF c.id \in server.accounts THEN "refused" ELSE "ok", None)
     /\ UNCHANGED <<page, hasty, late, foreign>>

(* Another owner of the tenant.                                              *)
ConnectElsewhere(a) ==
  /\ a \in Shared \ server.accounts
  /\ server' = [server EXCEPT !.accounts = @ \cup {a}]
  /\ foreign' = foreign \cup {a}
  /\ UNCHANGED <<page, calls, hasty, late>>

-----------------------------------------------------------------------------
(* What an answer does to the page.  Of a call that has ended only that it   *)
(* opened a page is remembered.                                              *)
Ended(call) ==
  [call EXCEPT !.at = "done", !.id = None, !.status = None, !.filter = None,
               !.answer = None, !.kind = IF @ = "detail" THEN @ ELSE None]

Done(i) == [calls EXCEPT ![i] = Ended(@)]

(* A call of this kind ends: with the answer, as refused, or as lost at any  *)
(* moment, when what the API did by then stands.  A call that is lost before *)
(* the API has it is not carried out later; the change it asked for is not   *)
(* confirmed either way.  Signing in or out changes nothing that is modelled *)
(* of the API.                                                               *)
Ends(i, kind, ok) ==
  /\ calls[i].kind = kind
  /\ \/ ok /\ calls[i].at = IF kind \in {"login", "logout"} THEN "sent" ELSE "ok"
     \/ ~ok /\ calls[i].at = "refused"
     \/ ~ok /\ calls[i].at \in {"sent", "create", "ok"} /\ CanFail

(* A change is not confirmed.                                                *)
Unconfirmed(i, ok) == foreign' = IF ok THEN foreign ELSE foreign \cup {calls[i].id}

(* A page of a finding was opened after call i was made.                     *)
Outdated(i) == \E j \in i+1..Len(calls) : calls[j].kind = "detail"

(* The call of the page that was opened last is in flight.                   *)
OpeningAwaited == \E j \in Pending : calls[j].kind = "detail" /\ ~Outdated(j)

(* What the answer to call i makes of late: an answer older than the page    *)
(* passes while the page's own is still to come, and lasts after it.         *)
Lateness(i) == IF ~Outdated(i) THEN "no"
               ELSE IF OpeningAwaited THEN "passing" ELSE "lasting"

(* The whole list replaces the filtered one, too.                            *)
TakePosture(i, ok) ==
  LET c == calls[i]
  IN /\ Ends(i, "posture", ok)
     /\ page' = IF ok THEN [page EXCEPT !.posture = c.answer, !.load = "ready",
                                          !.filtered = c.answer.status]
                ELSE [page EXCEPT !.load = "error"]
     /\ calls' = Done(i)
     /\ UNCHANGED <<server, hasty, late, foreign>>

(* Mutant of TakeFiltered: a failed load leaves the list loading.            *)
TakeFilteredSilently(i, ok) ==
  /\ Ends(i, "filtered", ok)
  /\ page' = IF ok THEN [page EXCEPT !.filtered = calls[i].answer,
                                              !.findingsLoad = "ready"]
             ELSE page
  /\ calls' = Done(i)
  /\ UNCHANGED <<server, hasty, late, foreign>>

TakeFiltered(i, ok) ==
  /\ Ends(i, "filtered", ok)
  /\ page' = IF ok THEN [page EXCEPT !.filtered = calls[i].answer,
                                              !.findingsLoad = "ready"]
             ELSE [page EXCEPT !.findingsLoad = "error", !.findingsError = TRUE]
  /\ calls' = Done(i)
  /\ UNCHANGED <<server, hasty, late, foreign>>

(* Mutant of TakeDetail: an answer is taken for the finding without a look   *)
(* at whether the call succeeded.                                            *)
TakeDetailUnchecked(i, ok) ==
  LET c == calls[i]
  IN /\ Ends(i, "detail", ok)
     /\ page' = [page EXCEPT !.selected = [id |-> c.id, status |-> c.answer],
                             !.log = <<c.answer>>, !.detailLoad = "ready"]
     /\ late' = Lateness(i)
     /\ calls' = Done(i)
     /\ UNCHANGED <<server, hasty, foreign>>

(* Mutant of TakeDetail: whatever came first for a page that loads is kept.  *)
TakeDetailFirst(i, ok) ==
  LET c     == calls[i]
      first == page.detailLoad = "loading"
  IN /\ Ends(i, "detail", ok)
     /\ page' = IF ~first THEN page
                ELSE IF ok THEN [page EXCEPT !.selected = [id |-> c.id, status |-> c.answer],
                                             !.log = <<c.answer>>, !.detailLoad = "ready"]
                ELSE [page EXCEPT !.detailLoad = "error"]
     /\ late' = IF ok /\ first THEN Lateness(i) ELSE late
     /\ calls' = Done(i)
     /\ UNCHANGED <<server, hasty, foreign>>

TakeDetail(i, ok) ==
  LET c == calls[i]
  IN /\ Ends(i, "detail", ok)
     /\ page' = IF ok THEN [page EXCEPT !.selected = [id |-> c.id, status |-> c.answer],
                                          !.log = <<c.answer>>, !.detailLoad = "ready"]
                ELSE [page EXCEPT !.detailLoad = "error"]
     /\ late' = IF ok THEN Lateness(i) ELSE late
     /\ calls' = Done(i)
     /\ UNCHANGED <<server, hasty, foreign>>

(* Mutant of Replaced: the lists keep the finding they have.                 *)
Unreplaced(list, f, status) == list

(* replaceFinding, of a list that may not have it.                           *)
Replaced(list, f, status) ==
  [list EXCEPT ![f] = IF @ = None THEN None ELSE status]

(* The list after an update: a finding that no longer matches the filter the *)
(* update was made under (matchesFindingFilters) leaves it.                  *)
Refiltered(list, f, status, filter) ==
  IF filter \in {None, status} THEN Replaced(list, f, status)
  ELSE [list EXCEPT ![f] = None]

TakeUpdate(i, ok) ==
  LET c == calls[i]
  IN /\ Ends(i, "update", ok)
     /\ page' = IF ok
                THEN [page EXCEPT
                        !.selected = [id |-> c.id, status |-> c.answer],
                        !.posture.status = Replaced(@, c.id, c.answer),
                        !.filtered = Refiltered(@, c.id, c.answer, c.filter),
                        !.log = <<c.status>> \o @, !.updating = FALSE]
                ELSE [page EXCEPT !.updating = FALSE]
     /\ late' = IF ok THEN Lateness(i) ELSE late
     /\ calls' = Done(i)
     /\ Unconfirmed(i, ok)
     /\ UNCHANGED <<server, hasty>>

TakeConnect(i, ok) ==
  LET c == calls[i]
  IN /\ Ends(i, "connect", ok)
     /\ page' = IF ok THEN [page EXCEPT !.posture.accounts[c.id] = @ + 1,
                                          !.modal = FALSE, !.connecting = FALSE]
                ELSE [page EXCEPT !.connecting = FALSE]
     /\ calls' = Done(i)
     /\ Unconfirmed(i, ok)
     /\ UNCHANGED <<server, hasty, late>>

(* The new token runs every effect again; filters and selection are those of *)
(* the session before.                                                       *)
TakeLogin(i, ok) ==
  LET p == [page EXCEPT !.session = TRUE, !.signingIn = FALSE]
  IN /\ Ends(i, "login", ok)
     /\ IF ok
        THEN /\ Len(calls) + 1 + Len(PageCalls(p)) <= MaxCalls
             /\ page' = PageLoading(PostureLoading(p))
             /\ calls' = Done(i) \o <<PostureCall>> \o PageCalls(p)
             /\ late' = "no"
        ELSE /\ page' = [page EXCEPT !.signingIn = FALSE]
             /\ calls' = Done(i)
             /\ UNCHANGED late
     /\ UNCHANGED <<server, hasty, foreign>>

(* Whatever the API says, and whoever is signed in by now.                   *)
TakeLogout(i) ==
  /\ Ends(i, "logout", TRUE)
  /\ page' = [page EXCEPT !.session = FALSE, !.posture = NoPosture, !.load = "idle",
                          !.route = "overview"]
  /\ calls' = Done(i)
  /\ UNCHANGED <<server, hasty, late, foreign>>

-----------------------------------------------------------------------------
User ==
  \/ \E r \in Routes : Navigate(r)
  \/ Refresh
  \/ \E filter \in Filters : ChooseFilter(filter)
  \/ \E status \in Statuses : ClickStatus(status)
  \/ OpenModal
  \/ CloseModal
  \/ \E a \in Accounts : Connect(a)
  \/ SignOut
  \/ SignIn

Serve(i) == ServeRead(i) \/ ServeUpdate(i) \/ LookUpAccount(i) \/ CreateAccount(i)

Take(i) ==
  \/ \E ok \in BOOLEAN : \/ TakePosture(i, ok)
                         \/ TakeFiltered(i, ok)
                         \/ TakeDetail(i, ok)
                         \/ TakeUpdate(i, ok)
                         \/ TakeConnect(i, ok)
                         \/ TakeLogin(i, ok)
  \/ TakeLogout(i)

Next ==
  \/ User
  \/ \E i \in 1..Len(calls) : Serve(i) \/ Take(i)
  \/ \E a \in Accounts : ConnectElsewhere(a)

Spec == Init /\ [][Next]_vars

-----------------------------------------------------------------------------
Loads == {"idle", "loading", "ready", "error"}
Kinds == {"posture", "filtered", "detail", "update", "connect", "login", "logout"}
Shown == [Findings -> Statuses \cup {None}]

TypeOK ==
  /\ page \in [session : BOOLEAN, signingIn : BOOLEAN, route : Routes, load : Loads,
               posture : [status : Shown, accounts : [Accounts -> Nat]],
               filter : Filters, filtered : Shown, findingsLoad : Loads,
               findingsError : BOOLEAN,
               selected : [id : Findings \cup {None}, status : Statuses \cup {None}],
               detailLoad : Loads, log : Seq(Statuses), updating : BOOLEAN,
               modal : BOOLEAN, connecting : BOOLEAN]
  /\ Len(calls) <= MaxCalls
  /\ \A i \in 1..Len(calls) :
       calls[i].kind \in Kinds \cup {None} /\ calls[i].at \in {"sent", "create", "ok", "refused", "done"}
  /\ server.status \in [Findings -> Statuses] /\ server.accounts \subseteq Accounts
  /\ foreign \subseteq Findings \cup Accounts

(* However the user moves between pages and sessions meanwhile, the status   *)
(* buttons are blocked exactly while one update is in flight                 *)
(* (updateFindingStatus and its finally).                                    *)
OneUpdateAtATime ==
  LET updates == {i \in Pending : calls[i].kind = "update"}
  IN /\ page.updating <=> updates # {}
     /\ \A i, j \in updates : i = j

(* A finding's page has the status of its finding on top of the log, and it  *)
(* shows the finding of the page but for an answer to a call made before the *)
(* page was opened: one that comes before the page's own answer, for as long *)
(* as that is in flight (it puts the page right), or one that comes after it *)
(* (loadFindingDetails, updateFindingStatus).                                *)
DetailIsOfPage ==
  page.session /\ page.route \in Findings /\ page.detailLoad = "ready" =>
    /\ page.log # <<>> /\ Head(page.log) = page.selected.status
    /\ \/ page.selected.id = page.route
       \/ late = "passing" /\ OpeningAwaited
       \/ late = "lasting"

(* A user who always waits for the answers sees what the API has, once they  *)
(* are there: the lists, the accounts and the finding opened.  The list of   *)
(* findings may be the whole one: Refresh forgets the filter.                *)
PatientSeesTruth ==
  ~hasty /\ Pending = {} /\ page.session /\ page.load = "ready" =>
    /\ \A f \in Findings \ foreign :
         /\ page.posture.status[f] = server.status[f]
         /\ page.route = "findings" /\ page.findingsLoad = "ready"
              => page.filtered[f] \in {Listed(page.filter)[f], server.status[f]}
         /\ page.route = f /\ page.detailLoad = "ready"
              => page.selected = [id |-> f, status |-> server.status[f]]
    /\ \A a \in Accounts \ foreign : page.posture.accounts[a] = ListedAccounts[a]

(* "Filter findings by severity or status" (the README's walkthrough): the   *)
(* list under a filter has only findings that match it.                      *)
FilterHolds ==
  /\ page.session /\ page.load = "ready" /\ page.route = "findings"
  /\ page.findingsLoad = "ready" /\ Pending = {}
  => \A f \in Findings : page.filtered[f] \in {None, page.filter} \/ page.filter = None

(* Whatever is shown as in progress has a call in flight that will end it:   *)
(* no page is left loading and no button blocked.                            *)
LoadingHasCall ==
  LET InFlight(kind) == \E i \in Pending : calls[i].kind = kind
  IN /\ page.load = "loading" => InFlight("posture")
     /\ page.findingsLoad = "loading" => InFlight("filtered")
     /\ page.detailLoad = "loading" => InFlight("detail")
     /\ page.connecting <=> InFlight("connect")
     /\ page.signingIn => InFlight("login")

=============================================================================
