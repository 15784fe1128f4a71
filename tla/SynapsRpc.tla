----------------------------- MODULE SynapsRpc -----------------------------
(***************************************************************************)
(* bridge/core/synaps-rpc.js: one `synaps rpc` child, the requests sent to *)
(* it and their answers.                                                   *)
(*                                                                         *)
(* A frame is the number of its request, or Bye for the shutdown frame.    *)
(* The child is any program: it may answer a request once, late or never,  *)
(* with a response or an error, in any order; it may report an error of no *)
(* request; it may die at any time or outlive every signal but SIGKILL.    *)
(* Nobody listens to the 'error' event of a SynapsRpc, nor to that of the  *)
(* child's stdin, so emitting it throws out of the handler and ends the    *)
(* daemon (bin/synaps-bridge.js:141-149).                                  *)
(***************************************************************************)
EXTENDS Naturals, Sequences, SequencesExt

CONSTANTS
    MaxRequests,  \* a bound on the requests sent
    Stoppers,     \* the calls of shutdown()
    MaxStrays     \* a bound on the errors the child reports of no request

Requests == 1 .. MaxRequests
Bye == 0

ASSUME SynapsRpcAssumption == MaxRequests \in Nat /\ MaxStrays \in Nat

VARIABLES
    daemon,   \* "up", or "down" after an uncaught exception
    child,    \* "none", "booting", "ready", "dead" or "exited" ('exit' handled)
    start,    \* the promise of start()
    sent,     \* the number of calls of _send so far
    pending,  \* _pending: the requests with a timer
    result,   \* request -> how its promise was settled
    pipe,     \* stdin: frames written, _writeQueue, _draining, 'drain' listeners
    replied,  \* the requests the child has answered
    stdout,   \* the frames of the child not read yet, in order
    strays,   \* the number of errors of no request so far
    stop,     \* call of shutdown() -> where it is
    killed    \* the last signal sent to the child, or "none"

vars == <<daemon, child, start, sent, pending, result, pipe, replied, stdout,
          strays, stop, killed>>
parent == <<daemon, start, sent, pending, result, stop, killed>>

Gone == {"none", "exited"}   \* no stdin, or a destroyed one
Frames == Requests \cup {Bye}

Init ==
    /\ daemon = "up"
    /\ child = "none"
    /\ start = "idle"
    /\ sent = 0
    /\ pending = {}
    /\ result = [r \in Requests |-> "none"]
    /\ pipe = [wire |-> <<>>, queue |-> <<>>, draining |-> FALSE, drains |-> 0,
               broken |-> FALSE]
    /\ replied = {}
    /\ stdout = <<>>
    /\ strays = 0
    /\ stop = [s \in Stoppers |-> "idle"]
    /\ killed = "none"

-----------------------------------------------------------------------------
\* Writing to stdin

\* The pipe after some frames were written, the last of which found it full or
\* not.  write() of a child that is dead breaks the pipe.
Written(p, frames, full) ==
    [p EXCEPT !.wire = @ \o frames,
              !.draining = @ \/ full,
              !.drains = @ + (IF full THEN 1 ELSE 0),
              !.broken = @ \/ child = "dead"]

\* A frame written to a destroyed stdin is dropped.
RawWrite(p, f) ==
    IF child \in Gone THEN {p} ELSE {Written(p, <<f>>, full) : full \in BOOLEAN}

WriteFrame(p, f) ==
    IF p.draining THEN {[p EXCEPT !.queue = Append(@, f)]} ELSE RawWrite(p, f)

\* Frames of the queue are written until one finds the pipe full again.
FlushWriteQueue(p) ==
    LET len == Len(p.queue)
        Cut(n, full) == Written([p EXCEPT !.queue = SubSeq(@, n + 1, len)],
                                SubSeq(p.queue, 1, n), full)
    IN  IF len = 0 THEN {p} ELSE {Cut(len, FALSE)} \cup {Cut(n, TRUE) : n \in 1 .. len}

\* Fault: the listener clears _draining and leaves the queue.
DrainedOnly(p) ==
    {[p EXCEPT !.draining = FALSE, !.drains = 0]}

\* Every 'drain' listener clears _draining and flushes; there are several when
\* the shutdown frame was written past the queue to a full pipe.
Drained(p) ==
    LET after[n \in 0 .. p.drains] ==
          IF n = 0 THEN {[p EXCEPT !.drains = 0]}
          ELSE UNION {FlushWriteQueue([q EXCEPT !.draining = FALSE]) : q \in after[n - 1]}
    IN  after[p.drains]

Drain ==
    /\ daemon = "up" /\ child \notin Gone \cup {"dead"} /\ pipe.drains > 0
    /\ pipe' \in Drained(pipe)
    /\ UNCHANGED <<daemon, child, start, sent, pending, result, replied, stdout, strays,
                   stop, killed>>

\* The write to a dead child fails: stdin emits 'error', which nobody handles.
BrokenPipe ==
    /\ daemon = "up" /\ child = "dead" /\ pipe.broken
    /\ daemon' = "down"
    /\ UNCHANGED <<child, start, sent, pending, result, pipe, replied, stdout, strays,
                   stop, killed>>

-----------------------------------------------------------------------------
\* start() and requests

Start ==
    /\ daemon = "up" /\ start = "idle"
    /\ start' = "waiting"
    /\ child' = "booting"
    /\ UNCHANGED <<daemon, sent, pending, result, pipe, replied, stdout, strays, stop, killed>>

\* spawn() fails: the child emits 'error', not 'exit', and nobody handles it.
SpawnError ==
    /\ daemon = "up" /\ child = "booting"
    /\ daemon' = "down"
    /\ UNCHANGED <<child, start, sent, pending, result, pipe, replied, stdout, strays,
                   stop, killed>>

SpawnTimeout ==
    /\ daemon = "up" /\ start = "waiting"
    /\ start' = "rejected"
    /\ UNCHANGED <<daemon, child, sent, pending, result, pipe, replied, stdout, strays,
                   stop, killed>>

\* Callers have the rpc once start() resolved.
Send ==
    /\ daemon = "up" /\ start = "resolved" /\ sent < MaxRequests
    /\ sent' = sent + 1
    /\ pending' = pending \cup {sent + 1}
    /\ pipe' \in WriteFrame(pipe, sent + 1)
    /\ UNCHANGED <<daemon, child, start, result, replied, stdout, strays, stop, killed>>

\* Settles the promises of some requests and forgets them.
Settle(rs, how) ==
    /\ pending' = pending \ rs
    /\ result' = [r \in Requests |-> IF r \in rs THEN how ELSE result[r]]

CommandTimeout(r) ==
    /\ daemon = "up" /\ r \in pending
    /\ Settle({r}, "timeout")
    /\ UNCHANGED <<daemon, child, start, sent, pipe, replied, stdout, strays, stop, killed>>

-----------------------------------------------------------------------------
\* Frames from the child; what it wrote is read also after it died.

Read(f) ==
    /\ daemon = "up" /\ stdout # <<>>
    /\ f = Head(stdout) /\ stdout' = Tail(stdout)

\* start() is settled once: a "ready" after the timeout changes nothing.
HandleReady(f) ==
    /\ Read(f) /\ f.kind = "ready"
    /\ start' = IF start = "waiting" THEN "resolved" ELSE start
    /\ UNCHANGED <<daemon, child, sent, pending, result, pipe, replied, strays, stop, killed>>

\* protocol_version is not 1: emitting 'error' throws before kill() is reached.
HandleMismatch(f) ==
    /\ Read(f) /\ f.kind = "mismatch"
    /\ daemon' = "down"
    /\ UNCHANGED <<child, start, sent, pending, result, pipe, replied, strays, stop, killed>>

\* Fault: a response that comes too late settles its request again.
HandleResponseLate(f) ==
    /\ Read(f) /\ f.kind = "response"
    /\ Settle({f.id}, "answered")
    /\ UNCHANGED <<daemon, child, start, sent, pipe, replied, strays, stop, killed>>

\* A response to a request that is not pending is ignored.
HandleResponse(f) ==
    /\ Read(f) /\ f.kind = "response"
    /\ Settle({f.id} \cap pending, "answered")
    /\ UNCHANGED <<daemon, child, start, sent, pipe, replied, strays, stop, killed>>

HandleError(f) ==
    /\ Read(f) /\ f.kind = "error"
    /\ IF f.id \in pending
       THEN Settle({f.id}, "refused") /\ UNCHANGED daemon
       ELSE daemon' = "down" /\ UNCHANGED <<pending, result>>
    /\ UNCHANGED <<child, start, sent, pipe, replied, strays, stop, killed>>

-----------------------------------------------------------------------------
\* The child

\* (What the child does once the daemon is down is not followed.)
Says(f) ==
    /\ daemon = "up"
    /\ stdout' = Append(stdout, f)
    /\ UNCHANGED <<parent, pipe>>

ChildReady ==
    /\ child = "booting"
    /\ child' = "ready"
    /\ \E kind \in {"ready", "mismatch"} : Says([kind |-> kind, id |-> Bye])
    /\ UNCHANGED <<replied, strays>>

ChildAnswers(r) ==
    /\ child = "ready" /\ Contains(pipe.wire, r) /\ r \notin replied
    /\ replied' = replied \cup {r}
    /\ \E kind \in {"response", "error"} : Says([kind |-> kind, id |-> r])
    /\ UNCHANGED <<child, strays>>

\* For one, a frame over 1 MiB (SUBAGENT_BRIEF.md:168).
ChildReportsError ==
    /\ child = "ready" /\ strays < MaxStrays
    /\ strays' = strays + 1
    /\ Says([kind |-> "error", id |-> Bye])
    /\ UNCHANGED <<child, replied>>

ChildDies ==
    /\ daemon = "up" /\ child \in {"booting", "ready"}
    /\ child' = "dead"
    /\ UNCHANGED <<parent, pipe, replied, stdout, strays>>

\* 'exit': pending requests are rejected, then start() and every shutdown()
\* that waits.
OnChildExit ==
    /\ daemon = "up" /\ child = "dead"
    /\ child' = "exited"
    /\ Settle(pending, "exit")
    /\ start' = IF start = "waiting" THEN "rejected" ELSE start
    /\ stop' = [s \in Stoppers |-> IF stop[s] = "idle" THEN "idle" ELSE "done"]
    /\ UNCHANGED <<daemon, sent, pipe, replied, stdout, strays, killed>>

-----------------------------------------------------------------------------
\* shutdown()

Shutdown(s) ==
    /\ daemon = "up" /\ start = "resolved" /\ stop[s] = "idle"
    /\ pipe' \in IF killed = "none" THEN RawWrite(pipe, Bye) ELSE {pipe}
    /\ stop' = [stop EXCEPT ![s] = IF child \in Gone THEN "done" ELSE "grace"]
    /\ UNCHANGED <<daemon, child, start, sent, pending, result, replied, stdout, strays,
                   killed>>

GraceTimeout(s) ==
    /\ daemon = "up" /\ stop[s] = "grace"
    /\ stop' = [stop EXCEPT ![s] = "term"]
    /\ killed' = IF killed = "none" THEN "SIGTERM" ELSE killed
    /\ UNCHANGED <<daemon, child, start, sent, pending, result, pipe, replied, stdout, strays>>

KillTimeout(s) ==
    /\ daemon = "up" /\ stop[s] = "term"
    /\ stop' = [stop EXCEPT ![s] = "kill"]
    /\ killed' = "SIGKILL"
    /\ UNCHANGED <<daemon, child, start, sent, pending, result, pipe, replied, stdout, strays>>

-----------------------------------------------------------------------------
Messages == [kind : {"ready", "mismatch", "response", "error"}, id : Frames]

Parent ==
    \/ Drain \/ BrokenPipe \/ Start \/ SpawnError \/ SpawnTimeout \/ Send
    \/ \E r \in Requests : CommandTimeout(r)
    \/ \E f \in Messages : HandleReady(f) \/ HandleMismatch(f) \/ HandleResponse(f) \/ HandleError(f)
    \/ OnChildExit
    \/ \E s \in Stoppers : Shutdown(s) \/ GraceTimeout(s) \/ KillTimeout(s)

Child ==
    \/ ChildReady \/ ChildReportsError \/ ChildDies
    \/ \E r \in Requests : ChildAnswers(r)

Next == Parent \/ Child

Spec == Init /\ [][Next]_vars

\* Timers fire, 'exit' is delivered and a child that got SIGKILL dies.  Nothing
\* makes the child read its stdin or answer.
Fairness ==
    /\ WF_vars(SpawnTimeout)
    /\ \A r \in Requests : WF_vars(CommandTimeout(r))
    /\ \A s \in Stoppers : WF_vars(GraceTimeout(s)) /\ WF_vars(KillTimeout(s))
    /\ WF_vars(killed = "SIGKILL" /\ ChildDies)
    /\ WF_vars(OnChildExit)

FairSpec == Spec /\ Fairness

-----------------------------------------------------------------------------
\* A request waits exactly as long as its promise is open (:285-302, :449-494).
PendingIsOpen == pending = {r \in Requests : r =< sent /\ result[r] = "none"}

\* Requests reach the child in the order of the calls, also when some of them
\* wait for the pipe to drain; while the child can read none is lost, and one
\* in the queue has a 'drain' event to wait for (:310-342).
InLine(p) == p.wire \o p.queue

InOrder(frames) ==
    \A i, j \in 1 .. Len(frames) :
       i < j /\ Bye \notin {frames[i], frames[j]} => frames[i] < frames[j]

FramesAreKept ==
    /\ InOrder(InLine(pipe))
    /\ child \in {"booting", "ready"} => \A r \in 1 .. sent : Contains(InLine(pipe), r)
    /\ pipe.queue # <<>> => pipe.draining /\ pipe.drains > 0

(***************************************************************************)
(* The inductive invariant of the pipe: frames in line are of requests     *)
(* sent, a full pipe has a listener, and nothing is sent before start().   *)
(***************************************************************************)
Pipes == [wire : Seq(Frames), queue : Seq(Requests), draining : BOOLEAN, drains : Nat,
          broken : BOOLEAN]

Listening(p) ==
    /\ p.queue # <<>> => p.draining
    /\ p.draining => p.drains > 0

PipeInv ==
    /\ pipe \in Pipes
    /\ sent \in 0 .. MaxRequests
    /\ InOrder(InLine(pipe)) /\ Listening(pipe)
    /\ \A i \in 1 .. Len(InLine(pipe)) : InLine(pipe)[i] =< sent
    /\ child \in {"booting", "ready"} => \A r \in 1 .. sent : Contains(InLine(pipe), r)
    /\ child = "none" => start = "idle"
    /\ start = "idle" => child = "none" /\ sent = 0

\* While the daemon runs, every request is settled ("Pending command without
\* matching `response` after 60 s -> reject", SUBAGENT_BRIEF.md:171).
RequestsSettle ==
    \A r \in Requests : sent >= r ~> result[r] # "none" \/ daemon = "down"

\* shutdown() returns, whatever the child does.
ShutdownReturns ==
    \A s \in Stoppers : stop[s] # "idle" ~> stop[s] = "done" \/ daemon = "down"

\* An error the child reports of no request ends neither it nor the daemon:
\* the child "stays alive.  Client surfaces as 'error' event"
\* (SUBAGENT_BRIEF.md:168).
ErrorFrameIsSurvived ==
    [][\A f \in Messages : start = "resolved" /\ HandleError(f) /\ f.id = Bye => daemon' = "up"]_vars
=============================================================================
