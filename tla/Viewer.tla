-------------------------------- MODULE Viewer --------------------------------
(***************************************************************************)
(* The dashboard in the browser (crates/dashboard/frontend/src/App.tsx and *)
(* hooks/): the session list and the page of messages, each fetched by a   *)
(* useApi hook and again every AUTO_REFRESH_MS, the selection kept in the  *)
(* URL's hash, and the effect that moves it when its session is gone.      *)
(*                                                                         *)
(* An event, the render it causes and that render's effects are one step.  *)
(* Writing the hash is not a render: the route follows when the browser    *)
(* delivers hashchange.  Of a page only its session is kept.               *)
(***************************************************************************)
EXTENDS Naturals, FiniteSets, FiniteSetsExt

CONSTANTS
  MaxSess,     \* bound: sessions begun
  InFlight,    \* bound: requests the server or the network has, of a hook
  Browsers,    \* how the browser and its user may behave
  Deletable,   \* TRUE: sessions are deleted, here or elsewhere
  Failing      \* TRUE: requests may fail

\* prompt: a changed hash is rendered before anything else happens; links: the user
\* may follow a link to any session.
ASSUME ViewerAssumption ==
  /\ MaxSess \in Nat /\ InFlight \in Nat \ {0}
  /\ Browsers \subseteq [prompt : BOOLEAN, links : BOOLEAN] /\ Browsers # {}
  /\ {Deletable, Failing} \subseteq BOOLEAN

VARIABLES
  browser, \* one of Browsers
  db,      \* the sessions there are
  begun,   \* ids given out
  hash,    \* the session in the URL's hash, 0 for none
  route,   \* the copy of it that is rendered
  asked,   \* what the user asked for last
  list,    \* useApi(fetchSessions)
  page,    \* useApi(fetchMessages)
  flight   \* requests not yet answered, or answered and not yet back

viewerVars == <<browser, db, begun, hash, route, asked, list, page, flight>>

Ids == 1..MaxSess
Hooks == {"list", "page"}
NoData == {}

\* A request names its hook and, for a page, its session.
Fetch(hook, of) == [hook |-> hook, of |-> of, aborted |-> FALSE, at |-> "sent", answer |-> NoData]

Cleared == [data |-> NoData, loading |-> FALSE, error |-> FALSE]
Loading(api) == [api EXCEPT !.loading = TRUE, !.error = FALSE]

\* Aborted requests have no effect: a few are kept, as what might be mistaken for
\* the current one.
Aborted(requests, hook) ==
  LET old  == {r \in requests : r.hook = hook}
      kept == IF Cardinality(old) < InFlight THEN old ELSE {r \in old : ~r.aborted}
  IN  (requests \ old) \cup {[r EXCEPT !.aborted = TRUE] : r \in kept}

\* Mutant: the request before is left running.
Restarted_NoAbort(requests, hook, of) == requests \cup {Fetch(hook, of)}
\* The effect of a hook whose deps have changed: it aborts the request before.
Restarted(requests, hook, of) ==
  Aborted(requests, hook) \cup {Fetch(hook, of)}

\* Mutant: an empty hash alone is healed.
Healed_NoneOnly(sessions, shown, live) ==
  IF sessions # NoData /\ shown = 0 THEN Max(sessions) ELSE live
\* The hash after the effect that looks whether the rendered session is listed.
Healed(sessions, shown, live) ==
  IF sessions # NoData /\ shown \notin sessions THEN Max(sessions) ELSE live

ViewerInit ==
  /\ browser \in Browsers
  /\ begun \in 0..MaxSess /\ db = 1..begun
  /\ hash \in {0} \cup Ids /\ route = hash /\ asked = IF hash \in db THEN hash ELSE 0
  /\ list = Loading(Cleared)
  /\ page = IF route = 0 THEN Cleared ELSE Loading(Cleared)
  /\ flight = {Fetch("list", 0)} \cup (IF route = 0 THEN {} ELSE {Fetch("page", route)})

\* hashchange is the next event, where it comes promptly.
Turn == browser.prompt => hash = route

-----------------------------------------------------------------------------
(* The browser.                                                            *)

\* pollTick is among the deps of both hooks.  It advances while auto-refresh is on and the
\* tab is visible; a user who does otherwise only makes ticks rarer.
Tick ==
  /\ Turn
  /\ list' = Loading(list)
  /\ IF route = 0
     THEN page' = page /\ flight' = Restarted(flight, "list", 0)
     ELSE /\ page' = Loading(page)
          /\ flight' = Restarted(Restarted(flight, "list", 0), "page", route)
  /\ UNCHANGED <<browser, db, begun, hash, route, asked>>

HashChange ==
  /\ hash # route
  /\ route' = hash
  /\ IF route' = 0
     THEN page' = Cleared /\ flight' = Aborted(flight, "page")
     ELSE page' = Loading(page) /\ flight' = Restarted(flight, "page", route')
  /\ hash' = Healed(list.data, route', hash)
  /\ UNCHANGED <<browser, db, begun, asked, list>>

\* The answer arrives; that of an aborted request changes nothing.
Arrive(r) ==
  /\ Turn /\ r \in flight /\ r.at = "served" /\ ~r.aborted
  /\ flight' = flight \ {r}
  /\ LET got == [data |-> r.answer, loading |-> FALSE, error |-> FALSE]
     IN  IF r.hook = "list"
         THEN list' = got /\ hash' = Healed(r.answer, route, hash) /\ UNCHANGED page
         ELSE page' = got /\ UNCHANGED <<browser, list, hash>>
  /\ UNCHANGED <<browser, db, begun, route, asked>>

\* A failed refetch keeps the data there was.
Fail(r) ==
  /\ Turn /\ Failing /\ r \in flight /\ ~r.aborted
  /\ flight' = flight \ {r}
  /\ LET failed(api) == [api EXCEPT !.loading = FALSE, !.error = TRUE]
     IN  IF r.hook = "list" THEN list' = failed(list) /\ UNCHANGED page
                            ELSE page' = failed(page) /\ UNCHANGED list
  /\ UNCHANGED <<browser, db, begun, hash, route, asked>>

Forget(r) ==
  /\ r \in flight /\ r.aborted
  /\ flight' = flight \ {r}
  /\ UNCHANGED <<browser, db, begun, hash, route, asked, list, page>>

-----------------------------------------------------------------------------
(* The user.                                                               *)

Select(id) ==
  /\ Turn /\ id \in list.data
  /\ hash' = id /\ asked' = id
  /\ UNCHANGED <<browser, db, begun, route, list, page, flight>>

\* Also by the back button, or by typing.
Follow(id) ==
  /\ Turn /\ browser.links /\ id \in db
  /\ hash' = id /\ asked' = id
  /\ UNCHANGED <<browser, db, begun, route, list, page, flight>>

\* The delete dialog, once it is confirmed: the list is fetched again when the
\* server has answered.
DeleteSession(id) ==
  /\ Turn /\ Deletable /\ id \in list.data \cap db
  /\ db' = db \ {id}
  /\ list' = Loading(list) /\ flight' = Restarted(flight, "list", 0)
  /\ UNCHANGED <<browser, begun, hash, route, asked, page>>

-----------------------------------------------------------------------------
(* The server, and who else changes its sessions.                          *)

Serve(r) ==
  /\ r \in flight /\ r.at = "sent"
  /\ flight' = (flight \ {r}) \cup
       {[r EXCEPT !.at = "served", !.answer = IF r.hook = "list" THEN db ELSE {r.of}]}
  /\ UNCHANGED <<browser, db, begun, hash, route, asked, list, page>>

BeginSession ==
  /\ begun < MaxSess /\ begun' = begun + 1 /\ db' = db \cup {begun'}
  /\ UNCHANGED <<browser, hash, route, asked, list, page, flight>>

Vanish(id) ==
  /\ Deletable /\ id \in db /\ db' = db \ {id}
  /\ UNCHANGED <<browser, begun, hash, route, asked, list, page, flight>>

ViewerNext ==
  \/ Tick \/ HashChange \/ BeginSession
  \/ \E r \in flight : Arrive(r) \/ Fail(r) \/ Forget(r) \/ Serve(r)
  \/ \E id \in Ids : Select(id) \/ Follow(id) \/ DeleteSession(id) \/ Vanish(id)

\* The requests the hooks are waiting for.
Current(hook, at) == {r \in flight : r.hook = hook /\ r.at = at /\ ~r.aborted}
ServeCurrent(hook)  == \E r \in Current(hook, "sent") : Serve(r)
ArriveCurrent(hook) == \E r \in Current(hook, "served") : Arrive(r)

\* The interval fires, for a page left on auto-refresh and visible, and the browser
\* delivers hashchange.  A tick aborts what is still in flight: that an answer now
\* and then takes less than an interval is the strong fairness of Serve and Arrive,
\* for the list, which is all that the selection depends on.
Fairness ==
  /\ WF_viewerVars(Tick) /\ WF_viewerVars(HashChange)
  /\ SF_viewerVars(ServeCurrent("list")) /\ SF_viewerVars(ArriveCurrent("list"))

ViewerSpec == ViewerInit /\ [][ViewerNext]_viewerVars /\ Fairness

-----------------------------------------------------------------------------
(* Properties.                                                             *)

\* Rows of another session than the selected one are on the page only while the answer
\* for the selected one is awaited, or its failure is told: no late answer to an earlier
\* request brings them back.  Until then they stay, and nothing on the page says so: the
\* hook keeps its data when its deps change, and the table shows its skeleton only when
\* it has no rows (useApi, MessageTable).
StaleRowsPass ==
  route # 0 /\ page.data # {route} =>
    page.error \/ \E r \in flight : r.hook = "page" /\ r.of = route /\ ~r.aborted

KeptChoice == asked # 0 /\ asked \in db => hash = asked

\* The user who picks from the list stays there while that session exists: neither an
\* old list that does not have it yet nor a late one moves the selection.
ChoiceKept == browser.prompt /\ ~browser.links => KeptChoice

\* The page comes to show the session its user chose, although polls, clicks and
\* answers overtake one another and sessions are deleted meanwhile.
ShownIsChosen == StaleRowsPass /\ ChoiceKept

\* A selection whose session has been deleted moves to one that exists, whoever
\* deleted it.
SelectionHeals == []<>(route \in db \/ db = {})
=============================================================================
