---- MODULE McpChat ----
(***************************************************************************)
(* synaps_chat behind the MCP gateway: McpToolRegistry chains the calls of *)
(* one user behind each other (_runSerialized), sends the prompt to the    *)
(* user's agent and collects the text_delta events until agent_end         *)
(* (_invokeChatOnce).  What a streamed call forwards is what it collects.  *)
(*                                                                         *)
(* The agent answers prompts in the order it took them and says what it    *)
(* has to say to every listener there is: an event does not name the call  *)
(* it belongs to.  A text is the set of calls it has words of.             *)
(***************************************************************************)
EXTENDS Naturals, Sequences

CONSTANTS Calls, Users, UserOf, None

VARIABLES
    chat,      \* [Calls -> progress of the call]
    lock,      \* _sessionLocks: [Users -> the last call of the chain, or None]
    frame,     \* [Calls -> what became of the prompt frame]
    turns,     \* [Users -> the prompts the agent works on, in order]
    hears,     \* calls whose listeners are on the rpc
    text,      \* [Calls -> whose words were collected]
    watched,   \* calls whose collectPromise has been raced: its rejection is handled
    crashed    \* an unhandled rejection has stopped the daemon

fate == <<watched, crashed>>
chatVars == <<chat, lock, frame, turns, hears, text, fate>>
child == <<frame, turns>>

Steps == {"idle", "queued", "session", "prompt", "reply", "done"}
Results == {"none", "text", "timeout", "failed"}
ChatRecord == [pc : Steps, prev : Calls \cup {None}, result : Results, ended : {"no", "end", "error"}]

Init ==
    /\ chat = [c \in Calls |-> [pc |-> "idle", prev |-> None, result |-> "none", ended |-> "no"]]
    /\ lock = [u \in Users |-> None]
    /\ frame = [c \in Calls |-> "none"]
    /\ turns = [u \in Users |-> <<>>]
    /\ hears = {}
    /\ text = [c \in Calls |-> {}]
    /\ watched = {}
    /\ crashed = FALSE

At(c, pc) == chat[c].pc = pc
Peers(u) == {c \in Calls : UserOf[c] = u}
Waiting(u) == {c \in hears \cap Peers(u) : chat[c].pc # "done"}
Settled(c) == c # None => chat[c].pc = "done"

\* Fault: the entry goes whoever it belongs to.
PruneAlways(c) == lock' = [lock EXCEPT ![UserOf[c]] = None]

\* The finally of _runSerialized: the entry goes when nobody chained on it.
Prune(c) == lock' = [lock EXCEPT ![UserOf[c]] = IF @ = c THEN None ELSE @]

\* The call settles with a result.  Only agent_end and error take its
\* listeners off; what they still hear is nobody's.
Settle(c, result) ==
    /\ chat' = [chat EXCEPT ![c] = [pc |-> "done", prev |-> None, result |-> result, ended |-> "no"]]
    /\ Prune(c)

\* callTool: arguments that do not fit the schema never reach the chain.
InvalidArgs(c) ==
    /\ At(c, "idle")
    /\ chat' = [chat EXCEPT ![c].pc = "done", ![c].result = "failed"]
    /\ UNCHANGED <<child, lock, hears, text, fate>>

\* _runSerialized chains the call behind the last one of its user.
Enqueue(c) ==
    /\ At(c, "idle")
    /\ chat' = [chat EXCEPT ![c].pc = "queued", ![c].prev = lock[UserOf[c]]]
    /\ lock' = [lock EXCEPT ![UserOf[c]] = c]
    /\ UNCHANGED <<child, hears, text, fate>>

\* Fault: the rejection of the predecessor is not absorbed.
MayStartAfterSuccess(c) ==
    LET p == chat[c].prev IN Settled(p) /\ (p # None => chat[p].result # "failed")

\* A rejected predecessor is as good as one that returned.
MayStart(c) == Settled(chat[c].prev)

Start(c) ==
    /\ At(c, "queued")
    /\ MayStart(c)
    /\ chat' = [chat EXCEPT ![c].pc = "session"]
    /\ UNCHANGED <<child, lock, hears, text, fate>>

\* getOrCreateSession returns: listeners on, timer armed, prompt sent.
Prompt(c) ==
    /\ At(c, "session")
    /\ chat' = [chat EXCEPT ![c].pc = "prompt"]
    /\ frame' = [frame EXCEPT ![c] = "sent"]
    /\ hears' = hears \cup {c}
    /\ UNCHANGED <<lock, turns, text, fate>>

\* No session router yet, or no session.
NoSession(c) ==
    /\ At(c, "session")
    /\ Settle(c, "failed")
    /\ UNCHANGED <<child, hears, text, fate>>

\* The acknowledgement: the agent has taken the prompt, and the collecting is
\* awaited from now on ...
Taken(c) ==
    /\ At(c, "prompt")
    /\ frame[c] = "taken"
    /\ chat' = [chat EXCEPT ![c].pc = "reply"]
    /\ watched' = watched \cup {c}
    /\ UNCHANGED <<child, lock, hears, text, crashed>>

\* ... or has not; nothing takes the listeners off.
Refused(c) ==
    /\ At(c, "prompt")
    /\ frame[c] = "refused"
    /\ Settle(c, "failed")
    /\ UNCHANGED <<child, hears, text, fate>>

\* agent_end or an error ends the collecting.
Reply(c) ==
    /\ At(c, "reply")
    /\ chat[c].ended # "no"
    /\ Settle(c, IF chat[c].ended = "end" THEN "text" ELSE "failed")
    /\ UNCHANGED <<child, hears, text, fate>>

\* One timer covers both waits; a timeout is a result, not an error.
TimeOut(c) ==
    /\ chat[c].pc \in {"prompt", "reply"}
    /\ At(c, "reply") => chat[c].ended = "no"
    /\ Settle(c, "timeout")
    /\ UNCHANGED <<child, hears, text, fate>>

-----------------------------------------------------------------------------
(* The agent of a user, seen through its rpc *)

AgentTakes(c) ==
    /\ frame[c] = "sent"
    /\ frame' = [frame EXCEPT ![c] = "taken"]
    /\ turns' = [turns EXCEPT ![UserOf[c]] = Append(@, c)]
    /\ UNCHANGED <<chat, lock, hears, text, fate>>

AgentRefuses(c) ==
    /\ frame[c] = "sent"
    /\ frame' = [frame EXCEPT ![c] = "refused"]
    /\ UNCHANGED <<chat, lock, turns, hears, text, fate>>

\* text_delta: every listener is told; those of a settled call tell nobody.
Delta(u) ==
    /\ turns[u] # <<>>
    /\ text' = [c \in Calls |-> IF c \in Waiting(u) THEN text[c] \cup {Head(turns[u])}
                                                     ELSE text[c]]
    /\ UNCHANGED <<chat, child, lock, hears, fate>>

\* Every listener that still waits takes the event as its own end.
Broadcast(u, how) ==
    /\ chat' = [c \in Calls |-> IF c \in Waiting(u) THEN [chat[c] EXCEPT !.ended = how]
                                                     ELSE chat[c]]
    /\ hears' = hears \ Peers(u)
    /\ UNCHANGED <<lock, text>>

AgentEnd(u) ==
    /\ turns[u] # <<>>
    /\ Broadcast(u, "end")
    /\ turns' = [turns EXCEPT ![u] = Tail(@)]
    /\ UNCHANGED <<frame, fate>>

\* The rpc emits 'error': each listener rejects its collectPromise.  The
\* rejection of a call that still awaits rpc.prompt(), or that gave up there, is
\* handled by nobody: bin/synaps-bridge.js stops the daemon on it.
AgentErrs(u) ==
    /\ hears \cap Peers(u) # {}
    /\ Broadcast(u, "error")
    /\ crashed' = (crashed \/ ~(hears \cap Peers(u) \subseteq watched))
    /\ UNCHANGED <<child, watched>>

\* The child exits: what it was sent fails, and the rpc with the listeners on
\* it is replaced.  No listener is told.
AgentDies(u) ==
    /\ turns[u] # <<>>
    /\ Broadcast(u, "no")
    /\ turns' = [turns EXCEPT ![u] = <<>>]
    /\ frame' = [c \in Calls |-> IF c \in Peers(u) /\ frame[c] = "sent" THEN "refused"
                                                                        ELSE frame[c]]
    /\ UNCHANGED fate

-----------------------------------------------------------------------------

CallStep(c) ==
    \/ Start(c) \/ Prompt(c) \/ NoSession(c) \/ Taken(c) \/ Refused(c)
    \/ Reply(c) \/ TimeOut(c)

Next ==
    \/ \E c \in Calls : \/ InvalidArgs(c) \/ Enqueue(c) \/ CallStep(c)
                        \/ AgentTakes(c) \/ AgentRefuses(c)
    \/ \E u \in Users : Delta(u) \/ AgentEnd(u) \/ AgentErrs(u) \/ AgentDies(u)

\* The timer of a call fires.  It is armed when getOrCreateSession has returned,
\* which in a container may never be (SessionRouter); the agent owes nothing.
Fairness == \A c \in Calls : WF_chatVars(~At(c, "session") /\ CallStep(c))

-----------------------------------------------------------------------------

\* A call of the user whose prompt was sent and that got no reply.
Abandoned(u) == \E c \in Peers(u) : chat[c].result \in {"timeout", "failed"} /\ frame[c] # "none"

\* While no call of the user was given up, a reply has the words of its own
\* turn and of no other: the chain keeps one prompt at the agent, although
\* events do not say whose they are.
ReplyIsOwn ==
    \A c \in Calls :
        chat[c].result = "text" => text[c] \subseteq {c} \/ Abandoned(UserOf[c])

\* Whatever the agent does, and however the calls before it ended, a call that
\* was chained is answered: only a session that is never created, for it or for
\* the call whose turn it is, and the end of the daemon keep it waiting.
CallsAnswered ==
    \A c \in Calls :
        At(c, "queued") ~>
            \/ At(c, "done") \/ crashed
            \/ []\E d \in Peers(UserOf[c]) : At(d, "session")
====
