------------------------------ MODULE PlanPage ------------------------------
(***************************************************************************)
(* The live page of a plan: the plans server watches the plan files        *)
(* (lib/watch.js), announces a change on the event streams of the plan     *)
(* (extensions/plans_server.js), and the page of a browser fetches the     *)
(* plan again (assets/site.js).  A plan is its version; what a version     *)
(* says is left out, but for the versions that do not parse.               *)
(***************************************************************************)
EXTENDS Naturals, FiniteSetsExt

CONSTANTS
    None,
    Plans,       \* the slugs of the plans
    Unparsable,  \* the versions the server answers with 422
    MaxEdits,    \* a bound: edits of the plans
    MaxVisits,   \* a bound: navigations of the page
    Loads,       \* a bound: the requests the page has under way
    Streams,     \* a bound: the EventSources of the page
    MaxStreams   \* limits.maxSseConnections

VARIABLES
    file,    \* a plan's file, the watcher's view of it, and what the page missed of it
    page,    \* the route, what is on the screen, the subscription `live`
    load,    \* requests for a plan, by a visit of its route or by a message
    stream,  \* EventSources, closed ones are "free"
    others   \* streams of other tabs, the same throughout a behaviour

vars == <<file, page, load, stream, others>>

NoLoad == [state |-> "free", for |-> "visit", plan |-> None, version |-> 0]
NoStream == [state |-> "free", plan |-> None, inbox |-> 0]

Connected == {s \in Streams : stream[s].state = "open"}
Pooled == Cardinality(Connected) + others

Init ==
    /\ file = [p \in Plans |-> [version |-> 0, notice |-> FALSE, timer |-> FALSE, missed |-> 0]]
    /\ page = [route |-> None, view |-> "home", plan |-> None, version |-> 0, live |-> None,
               newest |-> [p \in Plans |-> 0], late |-> FALSE, visits |-> 0]
    /\ load = [l \in Loads |-> NoLoad]
    /\ stream = [s \in Streams |-> NoStream]
    /\ others \in 0..MaxStreams

(* The server: the watcher, its debounce and the announcement. *)

Edit(p) ==
    /\ MapThenSumSet(LAMBDA q : file[q].version, Plans) < MaxEdits
    /\ file' = [file EXCEPT ![p].version = @ + 1, ![p].notice = TRUE]
    /\ UNCHANGED <<page, load, stream, others>>

\* The timer of an earlier notice is cleared, so there is one.
Notice(p) ==
    /\ file[p].notice
    /\ file' = [file EXCEPT ![p].notice = FALSE, ![p].timer = TRUE]
    /\ UNCHANGED <<page, load, stream, others>>

Subscribers(p) == {s \in Connected : stream[s].plan = p}

\* A change that is announced to no stream of the page is missed.
Announce(p) ==
    /\ file[p].timer
    /\ stream' = [s \in Streams |->
           IF s \in Subscribers(p) THEN [stream[s] EXCEPT !.inbox = @ + 1] ELSE stream[s]]
    /\ file' = [file EXCEPT ![p].timer = FALSE,
                            ![p].missed = IF Subscribers(p) = {} THEN file[p].version ELSE @]
    /\ UNCHANGED <<page, load, others>>

(* A stream: the pool is bounded, a refused EventSource is dead, a broken one reconnects. *)

Connect(s) ==
    /\ stream[s].state = "connecting"
    /\ stream' = [stream EXCEPT ![s].state = IF Pooled < MaxStreams THEN "open" ELSE "dead"]
    /\ UNCHANGED <<file, page, load, others>>

Drop(s) ==
    /\ s \in Connected
    /\ stream' = [stream EXCEPT ![s].state = "connecting", ![s].inbox = 0]
    /\ file' = IF stream[s].inbox = 0 THEN file
               ELSE [file EXCEPT ![stream[s].plan].missed = file[stream[s].plan].version]
    /\ UNCHANGED <<page, load, others>>

(* The page. *)

Ask(l, for, p) ==
    /\ load[l].state = "free"
    /\ load' = [load EXCEPT ![l] = [state |-> "asked", for |-> for, plan |-> p, version |-> 0]]

TornDown == [s \in Streams |-> IF s = page.live THEN NoStream ELSE stream[s]]

Visit(p) ==
    /\ page.visits < MaxVisits
    /\ stream' = TornDown
    /\ page' = [page EXCEPT !.route = p, !.live = None, !.visits = @ + 1,
                            !.view = IF p = None THEN "home" ELSE "loading"]
    /\ IF p = None THEN UNCHANGED load ELSE \E l \in Loads : Ask(l, "visit", p)
    /\ UNCHANGED <<file, others>>

\* Fault: a change is not fetched while an earlier one is being fetched.
ReceiveUnlessAsked(s) ==
    /\ s \in Connected /\ stream[s].inbox > 0
    /\ stream' = [stream EXCEPT ![s].inbox = @ - 1]
    /\ IF \E l \in Loads : load[l].state # "free" /\ load[l].plan = stream[s].plan
       THEN UNCHANGED load
       ELSE \E l \in Loads : Ask(l, "change", stream[s].plan)
    /\ UNCHANGED <<file, page, others>>

\* The message says only that the file changed: the page asks for the plan again.
Receive(s) ==
    /\ s \in Connected /\ stream[s].inbox > 0
    /\ stream' = [stream EXCEPT ![s].inbox = @ - 1]
    /\ \E l \in Loads : Ask(l, "change", stream[s].plan)
    /\ UNCHANGED <<file, page, others>>

\* The server reads the file when it answers.
Answer(l) ==
    /\ load[l].state = "asked"
    /\ load' = [load EXCEPT ![l].version = file[load[l].plan].version,
                            ![l].state = IF file[load[l].plan].version \in Unparsable
                                         THEN "refused" ELSE "answered"]
    /\ UNCHANGED <<file, page, stream, others>>

Lose(l) ==
    /\ load[l].state \in {"asked", "answered"}
    /\ load' = [load EXCEPT ![l].state = "refused"]
    /\ file' = [file EXCEPT ![load[l].plan].missed = file[load[l].plan].version]
    /\ UNCHANGED <<page, stream, others>>

\* What is drawn is late when it is of another route, or older than what the page has drawn.
Drawn(p, version) ==
    [page EXCEPT !.view = "plan", !.plan = p, !.version = version,
                 !.newest[p] = IF version > @ THEN version ELSE @,
                 !.late = p # page.route \/ version < page.newest[p]]

\* The visit draws and subscribes, whatever the route is by now; the stream `live` named stays open.
VisitDraws(l) ==
    /\ load[l].for = "visit" /\ load[l].state = "answered"
    /\ \E s \in Streams :
         /\ stream[s] = NoStream
         /\ stream' = [stream EXCEPT ![s] = [state |-> "connecting", plan |-> load[l].plan, inbox |-> 0]]
         /\ page' = [Drawn(load[l].plan, load[l].version) EXCEPT !.live = s]
    /\ load' = [load EXCEPT ![l] = NoLoad]
    /\ UNCHANGED <<file, others>>

VisitFails(l) ==
    /\ load[l].for = "visit" /\ load[l].state = "refused"
    /\ page' = [page EXCEPT !.view = "error", !.plan = None]
    /\ load' = [load EXCEPT ![l] = NoLoad]
    /\ UNCHANGED <<file, stream, others>>

ChangeDraws(l) ==
    /\ load[l].for = "change" /\ load[l].state \in {"answered", "refused"}
    /\ page' = IF load[l].state = "answered" /\ page.route = load[l].plan
               THEN Drawn(load[l].plan, load[l].version) ELSE page
    /\ load' = [load EXCEPT ![l] = NoLoad]
    /\ UNCHANGED <<file, stream, others>>

Next ==
    \/ \E p \in Plans : Edit(p) \/ Notice(p) \/ Announce(p)
    \/ \E s \in Streams : Connect(s) \/ Drop(s) \/ Receive(s)
    \/ \E p \in Plans \cup {None} : Visit(p)
    \/ \E l \in Loads : Answer(l) \/ Lose(l) \/ VisitDraws(l) \/ VisitFails(l) \/ ChangeDraws(l)

Spec == Init /\ [][Next]_vars

UnderWay(p) ==
    \/ file[p].notice \/ file[p].timer
    \/ \E s \in Streams : stream[s].plan = p /\ stream[s].inbox > 0
    \/ \E l \in Loads : load[l].state # "free"

\* With no change, message or request under way, the page shows its route's plan as it is on
\* disk, unless it says that the plan could not be loaded, the latest change was announced while
\* it was not subscribed (or was lost on the way), the latest version does not parse, or the
\* answers came out of order (watch.js:73-82, plans_server.js:418-440, site.js:268-310).
PageCatchesUp ==
    LET p == page.route IN
    p # None /\ ~UnderWay(p) /\ page.view # "error" /\ ~page.late =>
        /\ page.view = "plan" /\ page.plan = p
        /\ \/ page.version = file[p].version
           \/ file[p].missed = file[p].version
           \/ file[p].version \in Unparsable
=============================================================================
