--------------------------- MODULE StreamingProxy ---------------------------
(***************************************************************************)
(* bridge/core/streaming-proxy.js: from the events of an rpc child to the  *)
(* chunks of one streamed reply.                                           *)
(*                                                                         *)
(* Events are numbered as they arrive, and text is the events it came      *)
(* from.  Handlers run one at a time on _dispatchChain and wait for the    *)
(* appends they make; a flush by length or by timer is waited for by       *)
(* nobody.                                                                 *)
(***************************************************************************)
EXTENDS Naturals, Sequences, SequencesExt

CONSTANT MaxEvents  \* a bound on the events of the child

VARIABLES
    mode,      \* how tools and subagents are shown: "rich", "aux" or "inline"
    phase,     \* where start() and stop() are
    events,    \* the kinds of the events that arrived
    chain,     \* _dispatchChain: the events whose handlers have not finished
    stage,     \* where the handler of Head(chain) is
    buffer,    \* _textBuffer
    timer,     \* a flush is scheduled
    issued,    \* the chunks handed to the stream, in order
    flight,    \* the appends that have not returned, as indices of issued
    awaits,    \* the append the handler or stop() waits for, or 0
    tool,      \* the entry of ToolProgress: "none", "running" or "done"
    final      \* final_text of the agent_end emitted, or <<>>

vars == <<mode, phase, events, chain, stage, buffer, timer, issued, flight, awaits, tool, final>>

\* One tool and one subagent stand for all.
Kinds == {"text", "toolcall_start", "toolcall_input", "toolcall_result",
          "subagent_start", "subagent_update", "agent_end"}

Ids == 1 .. Len(events)
Subscribed == {"starting", "running", "abandoned"}

\* _accumulatedText: all that ever went into the buffer.
Accumulated ==
    FlattenSeq([i \in 1 .. Len(issued) |-> IF issued[i].type = "text" THEN issued[i].ids ELSE <<>>])
        \o buffer

Init ==
    /\ mode \in {"rich", "aux", "inline"}
    /\ phase = "new"
    /\ events = <<>> /\ chain = <<>> /\ stage = "begin"
    /\ buffer = <<>> /\ timer = FALSE
    /\ issued = <<>> /\ flight = {} /\ awaits = 0
    /\ tool = "none"
    /\ final = <<>>

-----------------------------------------------------------------------------
\* start(): the proxy listens before the stream is open, and still does when
\* opening it fails.

Start ==
    /\ phase = "new"
    /\ phase' = "starting"
    /\ UNCHANGED <<mode, events, chain, stage, buffer, timer, issued, flight, awaits, tool, final>>

StreamOpened ==
    /\ phase = "starting"
    /\ phase' \in {"running", "abandoned"}
    /\ UNCHANGED <<mode, events, chain, stage, buffer, timer, issued, flight, awaits, tool, final>>

Arrive(kind) ==
    /\ phase \in Subscribed /\ Len(events) < MaxEvents
    /\ events' = Append(events, kind)
    /\ chain' = Append(chain, Len(events) + 1)
    /\ UNCHANGED <<mode, phase, stage, buffer, timer, issued, flight, awaits, tool, final>>

-----------------------------------------------------------------------------
\* Appends

\* streamHandle.append() of a chunk is called; await says who waits for it.
Hand(type, ids, await) ==
    /\ issued' = Append(issued, [type |-> type, ids |-> ids])
    /\ flight' = flight \cup {Len(issued) + 1}
    /\ awaits' = IF await THEN Len(issued) + 1 ELSE awaits

Return(n) ==
    /\ n \in flight
    /\ flight' = flight \ {n}
    /\ UNCHANGED <<mode, phase, events, chain, stage, buffer, timer, issued, awaits, tool, final>>

Idle == awaits \notin flight

\* Fault: the text is taken from the buffer when the append has returned.
ForceFlushTextKeep(await) ==
    /\ timer' = FALSE
    /\ Hand("text", buffer, await)
    /\ UNCHANGED buffer

\* _forceFlushText() of a buffer that is not empty.
ForceFlushText(await) ==
    /\ timer' = FALSE
    /\ buffer' = <<>>
    /\ Hand("text", buffer, await)

NoFlush ==
    /\ buffer = <<>>
    /\ timer' = FALSE
    /\ UNCHANGED <<buffer, issued, flight, awaits>>

FlushTimer ==
    /\ timer
    /\ IF buffer = <<>> THEN NoFlush ELSE ForceFlushText(FALSE)
    /\ UNCHANGED <<mode, phase, events, chain, stage, tool, final>>

-----------------------------------------------------------------------------
\* Handlers

Handles(kinds) ==
    /\ chain # <<>> /\ events[Head(chain)] \in kinds
    /\ UNCHANGED <<mode, phase, events>>

Finish == chain' = Tail(chain) /\ stage' = "begin"

\* A delta makes the buffer long enough for a flush, or schedules one.
BufferText ==
    /\ Handles({"text"}) /\ stage = "begin"
    /\ Finish
    /\ \/ /\ buffer' = Append(buffer, Head(chain))
          /\ timer' = TRUE
          /\ UNCHANGED <<issued, flight, awaits>>
       \/ /\ Hand("text", Append(buffer, Head(chain)), FALSE)
          /\ buffer' = <<>>
          /\ timer' = FALSE
    /\ UNCHANGED <<tool, final>>

FlushFirst == {"toolcall_start", "toolcall_result", "subagent_start", "agent_end"}

BeginWithFlush ==
    /\ Handles(FlushFirst) /\ stage = "begin" /\ buffer # <<>>
    /\ ForceFlushText(TRUE)
    /\ stage' = "dispatch"
    /\ UNCHANGED <<chain, tool, final>>

\* The handler is past its flush, or makes none.
Ready == \/ stage = "dispatch" /\ Idle
         \/ stage = "begin" /\ (buffer # <<>> => events[Head(chain)] \notin FlushFirst)

\* _dispatchToolState and _dispatchSubagentState.
DispatchState ==
    CASE mode = "rich" ->
           /\ Hand("task", <<Head(chain)>>, TRUE)
           /\ stage' = "finish"
           /\ UNCHANGED <<chain, buffer, timer>>
      [] mode = "aux" ->
           /\ issued' = Append(issued, [type |-> "aux", ids |-> <<Head(chain)>>])
           /\ stage' = "finish"
           /\ UNCHANGED <<chain, buffer, timer, flight, awaits>>
      [] mode = "inline" ->
           /\ buffer' = Append(buffer, Head(chain))
           /\ timer' = TRUE
           /\ stage' = "finish"
           /\ UNCHANGED <<chain, issued, flight, awaits>>

\* The entry of the tool after an event; only a start makes one.
Progress(kind) ==
    CASE kind = "toolcall_start" -> "running"
      [] kind = "toolcall_result" /\ tool # "none" -> "done"
      [] OTHER -> tool

\* Fault: an event of an unknown tool throws, and the chain stays rejected.
HandleStateThrows ==
    /\ Handles(Kinds \ {"text", "agent_end"}) /\ stage # "finish" /\ Ready
    /\ events[Head(chain)] \in {"toolcall_input", "toolcall_result"} => tool # "none"
    /\ tool' = Progress(events[Head(chain)])
    /\ DispatchState
    /\ UNCHANGED final

HandleState ==
    /\ Handles(Kinds \ {"text", "agent_end"}) /\ stage # "finish" /\ Ready
    /\ LET kind == events[Head(chain)]
       IN  /\ tool' = Progress(kind)
           /\ IF kind \in {"toolcall_input", "toolcall_result"} /\ tool = "none"
              THEN Finish /\ UNCHANGED <<buffer, timer, issued, flight, awaits>>
              ELSE DispatchState
    /\ UNCHANGED final

\* A result that was shown ends the entry of its tool.
StateHandled ==
    /\ Handles(Kinds) /\ stage = "finish" /\ Idle
    /\ Finish
    /\ tool' = IF events[Head(chain)] = "toolcall_result" THEN "none" ELSE tool
    /\ UNCHANGED <<buffer, timer, issued, flight, awaits, final>>

HandleAgentEnd ==
    /\ Handles({"agent_end"}) /\ stage # "finish" /\ Ready
    /\ final' = Append(final, Accumulated)
    /\ Finish
    /\ UNCHANGED <<buffer, timer, issued, flight, awaits, tool>>

-----------------------------------------------------------------------------
\* stop(): the chain drains, what text is left is flushed, the stream closes.

Stop ==
    /\ phase = "running"
    /\ phase' = "draining"
    /\ UNCHANGED <<mode, events, chain, stage, buffer, timer, issued, flight, awaits, tool, final>>

Drained ==
    /\ phase = "draining" /\ chain = <<>>
    /\ IF buffer = <<>> THEN NoFlush /\ phase' = "closing"
                        ELSE ForceFlushText(TRUE) /\ phase' = "flushing"
    /\ UNCHANGED <<mode, events, chain, stage, tool, final>>

Flushed ==
    /\ phase = "flushing" /\ Idle
    /\ phase' = "closing"
    /\ UNCHANGED <<mode, events, chain, stage, buffer, timer, issued, flight, awaits, tool, final>>

StreamClosed ==
    /\ phase = "closing"
    /\ phase' = "closed"
    /\ UNCHANGED <<mode, events, chain, stage, buffer, timer, issued, flight, awaits, tool, final>>

-----------------------------------------------------------------------------
Handle == BufferText \/ BeginWithFlush \/ HandleState \/ StateHandled \/ HandleAgentEnd
Close == Drained \/ Flushed \/ StreamClosed

Next ==
    \/ Start \/ StreamOpened \/ Stop \/ Close
    \/ Handle
    \/ FlushTimer
    \/ \E kind \in Kinds : Arrive(kind)
    \/ \E n \in 1 .. Len(issued) : Return(n)

\* Every call of the platform returns and no promise is forgotten.
Fairness ==
    /\ WF_vars(Handle) /\ WF_vars(Close)
    /\ WF_vars(\E n \in 1 .. Len(issued) : Return(n))

-----------------------------------------------------------------------------
Ascending(s) == \A i, j \in 1 .. Len(s) : i < j => s[i] < s[j]
Before(s, t) == \A i \in 1 .. Len(s), j \in 1 .. Len(t) : s[i] < t[j]
TextChunks == {i \in 1 .. Len(issued) : issued[i].type = "text"}

\* The text of the reply, chunk by chunk and then the buffer, is the text of the
\* child: nothing is lost, repeated or reordered between the handlers, the timers
\* and stop() (:275-327).
InOrder ==
    /\ \A i \in TextChunks : Ascending(issued[i].ids) /\ Before(issued[i].ids, buffer)
    /\ \A i, j \in TextChunks : i < j => Before(issued[i].ids, issued[j].ids)
    /\ Ascending(buffer)

Held(e) == Contains(buffer, e) \/ \E i \in TextChunks : Contains(issued[i].ids, e)

NothingLost ==
    \A e \in Ids : events[e] = "text" /\ ~ Contains(chain, e) => Held(e)

NothingStrange ==
    LET inline == IF mode = "inline" THEN Kinds \ {"agent_end"} ELSE {"text"}
        IsText(s) == \A i \in 1 .. Len(s) : s[i] \in Ids /\ events[s[i]] \in inline
    IN  IsText(buffer) /\ \A i \in TextChunks : IsText(issued[i].ids)

TextIsWhole == InOrder /\ NothingLost /\ NothingStrange

\* All the text before an event that forces a flush is handed over before the
\* event is (:336-346, :381-394, :445-451).
FlushedBefore ==
    \A i \in 1 .. Len(issued) :
       issued[i].type # "text" /\ events[issued[i].ids[1]] \in FlushFirst =>
          \A j \in i .. Len(issued) :
             issued[j].type = "text" => \A k \in 1 .. Len(issued[j].ids) :
                                           issued[j].ids[k] > issued[i].ids[1]

\* The reply as a whole.
ReplyIsWhole == TextIsWhole /\ FlushedBefore

(***************************************************************************)
(* The inductive invariant: the chain is the events not handled yet, in    *)
(* order, and what was issued or is in the buffer is of the events seen,   *)
(* the text in the buffer behind every event that forced a flush.          *)
(***************************************************************************)
Done == Len(events) - Len(chain)
Seen == IF stage = "finish" THEN Done + 1 ELSE Done

ProxyType ==
    /\ mode \in {"rich", "aux", "inline"}
    /\ stage \in {"begin", "dispatch", "finish"}
    /\ events \in Seq(Kinds) /\ chain \in Seq(Nat) /\ buffer \in Seq(Nat)
    /\ issued \in Seq([type : {"text", "task", "aux"}, ids : Seq(Nat)])

ChainIsRest ==
    /\ Len(chain) =< Len(events)
    /\ \A i \in 1 .. Len(chain) : chain[i] = Done + i
    /\ stage # "begin" => chain # <<>>
    /\ stage = "dispatch" => buffer = <<>> /\ events[Head(chain)] \in FlushFirst
    /\ stage = "finish" => events[Head(chain)] # "text"

IdsAreSeen ==
    /\ \A k \in 1 .. Len(buffer) : buffer[k] \in 1 .. Seen
    /\ \A i \in 1 .. Len(issued) :
         /\ \A k \in 1 .. Len(issued[i].ids) : issued[i].ids[k] \in 1 .. Seen
         /\ issued[i].type # "text" => Len(issued[i].ids) = 1

BufferIsBehind ==
    \A i \in 1 .. Len(issued) :
       issued[i].type # "text" /\ events[issued[i].ids[1]] \in FlushFirst =>
          \A k \in 1 .. Len(buffer) : buffer[k] > issued[i].ids[1]

ProxyInv == ProxyType /\ ChainIsRest /\ IdsAreSeen /\ BufferIsBehind /\ ReplyIsWhole

\* stop() returns.
StopReturns == phase = "draining" ~> phase = "closed"

(***************************************************************************)
(* Three promises of the documentation the code does not keep.  No run of  *)
(* the project checks them; README.md gives the schedules.                 *)
(***************************************************************************)

\* "Force-flush before any non-text event (toolcall, subagent, agent_end)"
\* (SUBAGENT_BRIEF.md:147).
ChunksInOrder ==
    \A i, j \in 1 .. Len(issued) :
       i < j => \A k \in 1 .. Len(issued[i].ids), l \in 1 .. Len(issued[j].ids) :
                   issued[i].ids[k] < issued[j].ids[l]

\* A stream is opened, "receives zero-or-more typed chunks (`append`), then
\* closed" (abstractions/stream-handle.js:7-8).
ClosedAfterAppends == phase \in {"closing", "closed"} => flight = {}

\* start() "Must be called exactly once before `append`"
\* (abstractions/stream-handle.js:53).
OpenedBeforeAppends == phase \in {"starting", "abandoned"} => flight = {}
=============================================================================
