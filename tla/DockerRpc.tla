---- MODULE DockerRpc ----
(***************************************************************************)
(* bridge/core/synaps-rpc-docker.js: `synaps rpc` as an exec in the        *)
(* container of a workspace.  In place of a child process there is one     *)
(* stream, which ends, then closes; there is no exit code and nothing to   *)
(* kill.  Frames on the stream are the answers the agent has given to      *)
(* requests; other output changes nothing here.                            *)
(*                                                                         *)
(* After start has settled nobody listens to 'error': emitting it ends the *)
(* daemon, as for SynapsRpc.                                               *)
(***************************************************************************)
EXTENDS Naturals, FiniteSets

CONSTANTS
    Prompts,     \* requests that may be sent
    Stoppers     \* calls of shutdown

VARIABLES
    bridge,      \* "up", or "down" after an uncaught error
    phase,       \* the promise of start: its step, "ready" or "failed"
    stream,      \* "none", "open", "ended" or "closed"
    stdinEnded,  \* whether shutdown has ended the stream's writing side
    exited,      \* _exitEmitted
    entries,     \* the requests in _pending, each with its timer
    promise,     \* [Prompts -> "unsent", "unsettled", "resolved" or "rejected"]
    answers,     \* frames of the agent on the stream: the requests they answer
    taken,       \* requests the agent has got
    halt         \* [Stoppers -> "idle", "waiting" or "returned"]

dockerVars == <<bridge, phase, stream, stdinEnded, exited, entries, promise, answers, taken, halt>>
requests == <<entries, promise>>

Init ==
    /\ bridge = "up"
    /\ phase = "idle"
    /\ stream = "none"
    /\ stdinEnded = FALSE
    /\ exited = FALSE
    /\ entries = {}
    /\ promise = [q \in Prompts |-> "unsent"]
    /\ answers = {}
    /\ taken = {}
    /\ halt = [c \in Stoppers |-> "idle"]

Settled(qs, how) == promise' = [q \in Prompts |-> IF q \in qs THEN how ELSE promise[q]]

-----------------------------------------------------------------------------
(* start *)

\* ensure, container.exec, exec.start: each is awaited, and one that throws
\* rejects start.
StartSteps == [idle |-> "ensure", ensure |-> "exec", exec |-> "attach"]

StartGoesOn ==
    /\ bridge = "up"
    /\ phase \in DOMAIN StartSteps
    /\ phase' = StartSteps[phase]
    /\ UNCHANGED <<bridge, stream, stdinEnded, exited, requests, answers, taken, halt>>

StartFails ==
    /\ bridge = "up"
    /\ phase \in {"ensure", "exec", "attach"}
    /\ phase' = "failed"
    /\ UNCHANGED <<bridge, stream, stdinEnded, exited, requests, answers, taken, halt>>

\* The stream is there and its listeners are: start waits for ready, and has
\* no timer.
Attached ==
    /\ bridge = "up"
    /\ phase = "attach"
    /\ phase' = "waiting"
    /\ stream' = "open"
    /\ UNCHANGED <<bridge, stdinEnded, exited, requests, answers, taken, halt>>

Readable == bridge = "up" /\ stream = "open" /\ phase \in {"waiting", "ready", "failed"}

Ready ==
    /\ Readable
    /\ phase' = IF phase = "waiting" THEN "ready" ELSE phase
    /\ UNCHANGED <<bridge, stream, stdinEnded, exited, requests, answers, taken, halt>>

\* An 'error' event rejects a start that waits; later nobody hears it.
Emitted == /\ phase' = IF phase = "waiting" THEN "failed" ELSE phase
           /\ bridge' = IF phase = "waiting" THEN bridge ELSE "down"

\* ready of another protocol: the error is emitted and the stream destroyed.
WrongProtocol ==
    /\ Readable
    /\ Emitted
    /\ stream' = IF phase = "waiting" THEN "destroyed" ELSE stream
    /\ UNCHANGED <<stdinEnded, exited, requests, answers, taken, halt>>

\* A line that is not JSON, or an error frame of no request.
StrayError ==
    /\ Readable
    /\ Emitted
    /\ UNCHANGED <<stream, stdinEnded, exited, requests, answers, taken, halt>>

-----------------------------------------------------------------------------
(* Requests *)

\* _send: the entry is made before the frame is written.  Without a stream, or
\* with a destroyed one, the frame is dropped and the timer will tell.
Send(q) ==
    /\ bridge = "up"
    /\ promise[q] = "unsent"
    /\ entries' = entries \cup {q}
    /\ Settled({q}, "unsettled")
    /\ UNCHANGED <<phase, stdinEnded, exited, answers, stream, halt>>
    /\ \/ /\ stream \in {"none", "destroyed", "closed"}
          /\ UNCHANGED <<bridge, taken>>
       \/ /\ stream \in {"open", "ended"} /\ ~stdinEnded
          /\ taken' = taken \cup (IF stream = "open" THEN {q} ELSE {})
          /\ UNCHANGED bridge
       \/ \* writing after the end is an error of the stream, passed on as 'error'
          /\ stream \in {"open", "ended"} /\ stdinEnded
          /\ bridge' = IF phase = "waiting" THEN "up" ELSE "down"
          /\ UNCHANGED taken

AgentAnswers(q) ==
    /\ stream = "open"
    /\ q \in taken
    /\ taken' = taken \ {q}
    /\ answers' = answers \cup {q}
    /\ UNCHANGED <<bridge, phase, stream, stdinEnded, exited, requests, halt>>

\* _handleResponse and the first branch of _handleError; an answer to a request
\* that has timed out is dropped, an error of one is a stray error.
Answered(q, how) ==
    /\ Readable
    /\ q \in answers
    /\ answers' = answers \ {q}
    /\ entries' = entries \ {q}
    /\ IF q \in entries THEN Settled({q}, how) /\ UNCHANGED <<bridge, phase>>
       ELSE /\ IF how = "rejected" THEN Emitted ELSE UNCHANGED <<bridge, phase>>
            /\ UNCHANGED promise
    /\ UNCHANGED <<stream, stdinEnded, exited, taken, halt>>

\* The timer of 60 seconds.
TimesOut(q) ==
    /\ bridge = "up"
    /\ q \in entries
    /\ entries' = entries \ {q}
    /\ Settled({q}, "rejected")
    /\ UNCHANGED <<bridge, phase, stream, stdinEnded, exited, answers, taken, halt>>

-----------------------------------------------------------------------------
(* The end *)

\* Fault: the entries and their timers go, their promises stay.
DropEntries == entries' = {} /\ UNCHANGED promise

RejectEntries == entries' = {} /\ Settled(entries, "rejected")

\* _onStreamEnd, on 'end' and on 'close': the first time only.
OnStreamEnd ==
    IF exited THEN UNCHANGED <<exited, phase, requests, halt>>
    ELSE /\ exited' = TRUE
         /\ RejectEntries
         /\ phase' = IF phase = "waiting" THEN "failed" ELSE phase
         /\ halt' = [c \in Stoppers |-> IF halt[c] = "waiting" THEN "returned" ELSE halt[c]]

StreamEnds ==
    /\ bridge = "up"
    /\ stream = "open"
    /\ stream' = "ended"
    /\ OnStreamEnd
    /\ UNCHANGED <<bridge, stdinEnded, answers, taken>>

StreamCloses ==
    /\ bridge = "up"
    /\ stream \in {"ended", "destroyed"}
    /\ stream' = "closed"
    /\ OnStreamEnd
    /\ UNCHANGED <<bridge, stdinEnded, answers, taken>>

\* shutdown: the frame, the end of stdin, the pending requests; it waits for
\* the exit unless there is no stream or a destroyed one.
Shutdown(c) ==
    /\ bridge = "up"
    /\ halt[c] = "idle"
    /\ \A d \in Stoppers : halt[d] = "idle"
    /\ stdinEnded' = (stream \in {"open", "ended"})
    /\ RejectEntries
    /\ halt' = [halt EXCEPT ![c] = IF stream \in {"none", "destroyed", "closed"}
                                   THEN "returned" ELSE "waiting"]
    /\ UNCHANGED <<bridge, phase, stream, exited, answers, taken>>

\* Another call only waits for the exit, which may have been.
ShutdownAgain(c) ==
    /\ bridge = "up"
    /\ halt[c] = "idle"
    /\ \E d \in Stoppers : halt[d] # "idle"
    /\ halt' = [halt EXCEPT ![c] = "waiting"]
    /\ UNCHANGED <<bridge, phase, stream, stdinEnded, exited, requests, answers, taken>>

Next ==
    \/ StartGoesOn \/ StartFails \/ Attached \/ Ready \/ WrongProtocol \/ StrayError
    \/ \E q \in Prompts :
          \/ Send(q) \/ AgentAnswers(q) \/ TimesOut(q)
          \/ \E how \in {"resolved", "rejected"} : Answered(q, how)
    \/ StreamEnds \/ StreamCloses
    \/ \E c \in Stoppers : Shutdown(c) \/ ShutdownAgain(c)

-----------------------------------------------------------------------------

\* Timers fire.
Fairness == \A q \in Prompts : WF_dockerVars(TimesOut(q))

\* As long as the daemon lives every request is settled, whatever becomes of
\* the agent, its answers and the stream, sent before, between or after the
\* calls of shutdown: no promise is left without an entry and a timer.
RequestsSettle ==
    \A q \in Prompts : promise[q] = "unsettled" ~> (promise[q] # "unsettled" \/ bridge = "down")
====
