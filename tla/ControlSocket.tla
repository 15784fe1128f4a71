---- MODULE ControlSocket ----
(***************************************************************************)
(* bridge/control-socket.js: clients connect and write lines; a line is    *)
(* dispatched when it comes, whatever became of the one before it on the   *)
(* connection, and its handler ends the connection with one last line.  A  *)
(* chat stream writes others until the turn ends.  Streams of one thread   *)
(* listen to one rpc.                                                      *)
(*                                                                         *)
(* An op is what it awaits: nothing, one call of its component, or a look  *)
(* up of a row and then the call.  The components have modules of their    *)
(* own; here a call is answered, or throws.                                *)
(***************************************************************************)
EXTENDS Naturals, Sequences

CONSTANTS
    Clients,
    Lines,       \* the lines that may be written
    ClientOf,    \* [Lines -> Clients]
    Wired        \* components the daemon was given

VARIABLES
    conn,        \* [Clients -> the connection]
    line,        \* [Lines -> the run of _dispatchRequest for the line]
    server,      \* "up", "closing" or "closed"
    childDied    \* whether the rpc of the streams has exited

controlVars == <<conn, line, server, childDied>>

\* shut: the socket has been ended.
NewConn == [peer |-> "out", shut |-> FALSE]

\* at: what the handler waits for.  op: the op that looks a row up.  prompt: the
\* stream's call of the rpc.  ends: last lines it wrote, or tried to.
NewLine == [at |-> "new", op |-> "none", prompt |-> "none", ends |-> 0]

Init ==
    /\ conn = [c \in Clients |-> NewConn]
    /\ line = [l \in Lines |-> NewLine]
    /\ server = "up"
    /\ childDied = FALSE

-----------------------------------------------------------------------------
(* The ops: the component each needs, the fields it asks for, and what it  *)
(* awaits.  model and reap look the key up among the live sessions first.  *)

Op(needs, asks, awaits) == [needs |-> needs, asks |-> asks, awaits |-> awaits]

OpThreads == Op("router", {}, <<"listSessions">>)
OpModel == Op("router", {"key", "model"}, <<"setModel">>)
OpReap == Op("router", {"key"}, <<"closeSession">>)
OpStatus == Op("router", {}, <<>>)
OpLinkCodeIssue == Op("identity", {"pria_user_id"}, <<"issueLinkCode">>)
OpLinkCodeRedeem == Op("identity", {"code", "channel", "external_id"}, <<"redeemLinkCode">>)
OpIdentityResolveWeb == Op("identity", {"pria_user_id"}, <<"resolveWebUser">>)
OpHeartbeatEmit == Op("heartbeats", {"component", "id", "user"}, <<"byId", "record">>)
OpScheduledTaskCreate ==
    Op("scheduler", {"user", "institution", "name", "cron", "channel", "prompt"}, <<"create">>)
OpScheduledTaskList == Op("scheduler", {"user"}, <<"list">>)
OpScheduledTaskRemove == Op("scheduler", {"id", "user"}, <<"findById", "remove">>)
OpHookCreate == Op("hooks", {"scope", "event", "action"}, <<"create">>)
OpHookList == Op("hooks", {}, <<"listAll">>)
OpHookRemove == Op("hooks", {"id"}, <<"findById", "remove">>)
OpCredBrokerUse == Op("creds", {"user", "institution", "key", "request"}, <<"use">>)
OpMcpTokenIssue == Op("tokens", {"user", "institution", "name"}, <<"create">>)
OpMcpTokenList == Op("tokens", {}, <<"list">>)
OpMcpTokenRevoke == Op("tokens", {"token_id"}, <<"revoke">>)
OpMcpAclList == Op("acl", {}, <<"list">>)
OpMcpAclSet == Op("acl", {"user", "tool_name", "policy"}, <<"upsert">>)
OpMcpAclDelete == Op("acl", {"user", "tool_name"}, <<"delete">>)

\* _handleOp
Ops == [
    threads |-> OpThreads, model |-> OpModel, reap |-> OpReap, status |-> OpStatus,
    link_code_issue |-> OpLinkCodeIssue, link_code_redeem |-> OpLinkCodeRedeem,
    identity_resolve_web |-> OpIdentityResolveWeb, cred_broker_use |-> OpCredBrokerUse,
    heartbeat_emit |-> OpHeartbeatEmit, scheduled_task_create |-> OpScheduledTaskCreate,
    scheduled_task_list |-> OpScheduledTaskList,
    scheduled_task_remove |-> OpScheduledTaskRemove, hook_create |-> OpHookCreate,
    hook_list |-> OpHookList, hook_remove |-> OpHookRemove,
    mcp_token_issue |-> OpMcpTokenIssue, mcp_token_list |-> OpMcpTokenList,
    mcp_token_revoke |-> OpMcpTokenRevoke, mcp_acl_list |-> OpMcpAclList,
    mcp_acl_set |-> OpMcpAclSet, mcp_acl_delete |-> OpMcpAclDelete]

\* Nothing bounds these calls: the shutdown of a child in a container, and the
\* request the broker forwards.
Unbounded == {"reap", "cred_broker_use"}

-----------------------------------------------------------------------------
(* Connections *)

Of(c) == {l \in Lines : ClientOf[l] = c}
Listening(c) == {l \in Of(c) : line[l].at = "streaming"}

\* A write on a socket that was ended destroys it.
Breaks(c, S) ==
    /\ conn[c].peer = "in"
    /\ \E l \in S \cap Of(c) : conn[c].shut \/ S \cap Of(c) # {l}

\* The handlers of the lines S write their last line and end the socket; on one
\* the client has left that does nothing.  A socket that closes takes the
\* listeners of its streams off.
ConnsAfter(S) ==
    [c \in Clients |-> IF conn[c].peer # "in" \/ S \cap Of(c) = {} THEN conn[c]
                       ELSE [peer |-> IF Breaks(c, S) THEN "gone" ELSE "in", shut |-> TRUE]]
LinesAfter(S) ==
    [l \in Lines |->
        IF l \in S
        THEN [line[l] EXCEPT !.at = "over",
                             !.ends = IF conn[ClientOf[l]].peer = "in" THEN @ + 1 ELSE @]
        ELSE IF Breaks(ClientOf[l], S) /\ l \in Listening(ClientOf[l])
        THEN [line[l] EXCEPT !.at = "over"] ELSE line[l]]

Ended(l) == conn' = ConnsAfter({l}) /\ line' = LinesAfter({l})
Moves(l, k) == line' = [line EXCEPT ![l] = k] /\ UNCHANGED conn
Same == UNCHANGED <<server, childDied>>

Connect(c) ==
    /\ server = "up"
    /\ conn[c].peer = "out"
    /\ conn' = [conn EXCEPT ![c].peer = "in"]
    /\ UNCHANGED line /\ Same

\* The client of scripts/control-cli-lib.mjs goes when it has its line, on an
\* error, or after five seconds.
Leave(c) ==
    /\ conn[c].peer = "in"
    /\ conn' = [conn EXCEPT ![c].peer = "gone"]
    /\ line' = [l \in Lines |-> IF l \in Listening(c) THEN [line[l] EXCEPT !.at = "over"] ELSE line[l]]
    /\ Same

\* A line comes, although the client's line before it is being answered, or was.
MayLine(l) == conn[ClientOf[l]].peer = "in" /\ line[l].at = "new"

\* _handleConnection and _dispatchRequest, up to the first await: a line that
\* is not JSON, names no op, lacks a field or asks for what the daemon was not
\* given is answered at once, and so is an op that awaits nothing.
AnswerAtOnce(l) ==
    /\ MayLine(l)
    /\ Ended(l) /\ Same

CallOf(name) == IF name \in Unbounded THEN "remote" ELSE "call"

RunOp(l, name) ==
    LET op == Ops[name] IN
    /\ MayLine(l)
    /\ op.needs \in Wired
    /\ op.awaits # <<>>
    /\ Moves(l, IF Len(op.awaits) = 1 THEN [line[l] EXCEPT !.at = CallOf(name)]
                ELSE [line[l] EXCEPT !.at = "lookup", !.op = name])
    /\ Same

OpenStream(l) ==
    /\ MayLine(l)
    /\ Moves(l, [line[l] EXCEPT !.at = "session"]) /\ Same

\* The line "null" is JSON: reading its op throws where nothing catches it,
\* and the daemon stops.
NullLine(l) ==
    /\ MayLine(l)
    /\ Moves(l, [line[l] EXCEPT !.at = "lost"])
    /\ server' = IF server = "up" THEN "closing" ELSE server
    /\ UNCHANGED childDied

\* The row looked up is the caller's, someone else's or gone, or the read
\* throws.  hook_remove asks for no user; the heartbeat of a workspace there is
\* no row of is taken.
MayProceed(name, row) ==
    \/ row = "own"
    \/ row = "other" /\ "user" \notin Ops[name].asks
    \/ row = "gone" /\ name = "heartbeat_emit"

LookUp(l, row) ==
    /\ line[l].at = "lookup"
    /\ IF MayProceed(line[l].op, row) THEN Moves(l, [line[l] EXCEPT !.at = "call"]) ELSE Ended(l)
    /\ Same

\* Answered or thrown, the handler answers with one line.
CallEnds(l) ==
    /\ line[l].at \in {"call", "remote"}
    /\ Ended(l) /\ Same

-----------------------------------------------------------------------------
(* chat_stream_start *)

SessionFails(l) ==
    /\ line[l].at = "session"
    /\ Ended(l) /\ Same

\* The listeners are on before the prompt is sent, of a client that has gone
\* meanwhile too.
SessionReady(l) ==
    /\ line[l].at = "session"
    /\ Moves(l, [line[l] EXCEPT !.at = "streaming", !.prompt = "sent"]) /\ Same

PromptSent(l) ==
    /\ line[l].prompt = "sent"
    /\ Moves(l, [line[l] EXCEPT !.prompt = "taken"]) /\ Same

\* Fault: the rejection is reported although the stream is finished.
PromptFailsLate(l) ==
    /\ line[l].prompt = "sent"
    /\ conn' = ConnsAfter({l})
    /\ line' = [LinesAfter({l}) EXCEPT ![l].prompt = "refused"]
    /\ Same

\* The rpc rejects; SynapsRpc has no sendUserPrompt, and the call throws at once.
PromptFails(l) ==
    /\ line[l].prompt = "sent"
    /\ IF line[l].at = "streaming"
       THEN /\ conn' = ConnsAfter({l})
            /\ line' = [LinesAfter({l}) EXCEPT ![l].prompt = "refused"]
       ELSE Moves(l, [line[l] EXCEPT !.prompt = "refused"])
    /\ Same

Streams == UNION {Listening(c) : c \in Clients}

\* Fault: the listeners are taken off before the line is written, and it is not.
AgentEndSilently ==
    /\ ~childDied
    /\ Streams # {}
    /\ line' = [l \in Lines |-> IF l \in Streams THEN [line[l] EXCEPT !.at = "lost"] ELSE line[l]]
    /\ UNCHANGED conn /\ Same

\* A turn of the rpc ends, or the rpc reports an error: each stream on it is
\* finished, whoever's turn it was.
AgentEnd ==
    /\ ~childDied
    /\ Streams # {}
    /\ conn' = ConnsAfter(Streams) /\ line' = LinesAfter(Streams)
    /\ Same

\* An exit is no error event: nothing tells the streams.
ChildDies ==
    /\ ~childDied
    /\ Streams # {}
    /\ childDied' = TRUE
    /\ UNCHANGED <<conn, line, server>>

-----------------------------------------------------------------------------
(* stop *)

Stop ==
    /\ server = "up"
    /\ server' = "closing"
    /\ UNCHANGED <<conn, line, childDied>>

\* server.close ends when no connection is open, whoever holds it; the daemon
\* then exits.
StopEnds ==
    /\ server = "closing"
    /\ \A c \in Clients : conn[c].peer # "in"
    /\ server' = "closed"
    /\ UNCHANGED <<conn, line, childDied>>

Next ==
    \/ AgentEnd \/ ChildDies \/ Stop \/ StopEnds
    \/ \E c \in Clients : Connect(c) \/ Leave(c)
    \/ \E l \in Lines :
          \/ AnswerAtOnce(l) \/ OpenStream(l) \/ NullLine(l)
          \/ \E name \in DOMAIN Ops : RunOp(l, name)
          \/ CallEnds(l)
          \/ \E row \in {"own", "other", "gone", "throws"} : LookUp(l, row)
          \/ SessionFails(l) \/ SessionReady(l) \/ PromptSent(l) \/ PromptFails(l)

-----------------------------------------------------------------------------

\* Answers of the database and of a timed rpc request come, and a prompt is
\* taken or refused.  A session, and the calls of Unbounded, may never come
\* back (synaps-rpc-docker.js:270-287, :321-327, cred-broker.js:151), and the
\* agent may never end a turn it has taken.
Fairness ==
    \A l \in Lines :
       /\ WF_controlVars(line[l].at = "call" /\ CallEnds(l))
       /\ WF_controlVars(\E row \in {"own", "other", "gone", "throws"} : LookUp(l, row))
       /\ WF_controlVars(PromptSent(l) \/ PromptFails(l))

\* Of one line one last line is written, whatever the order of the turn's end,
\* the rpc's error, the refusal of the prompt, the client's leaving, and the
\* answers of other lines that end or break the socket meanwhile (:209-218).
EndedOnce == \A l \in Lines : line[l].ends <= 1

\* What nothing in the code bounds.
Held(l) ==
    \/ line[l].at \in {"remote", "session"}
    \/ line[l].at = "streaming" /\ line[l].prompt = "taken"

\* The handler of a line comes to its end, with its line written if the client
\* is still there, unless the daemon has stopped, or it waits for ever for a
\* session, for an unbounded call, or for the end of a turn that was taken.
LineIsAnswered ==
    \A l \in Lines :
        line[l].at \in {"call", "remote", "lookup", "session", "streaming"} ~>
            \/ line[l].at = "over" \/ server = "closed"
            \/ []Held(l)
====
