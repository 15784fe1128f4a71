---- MODULE Turn ----
(***************************************************************************)
(* One message to one reply, in the Slack and the Discord adapter          *)
(* (sources/slack/index.js, sources/discord/index.js), with the bot gate   *)
(* and the memory gateway.                                                 *)
(*                                                                         *)
(* Handlers of different messages interleave at every await.  Messages of  *)
(* one thread share the session's rpc, whose events carry no turn: each    *)
(* proxy that is open hears the end of whichever turn ends.                *)
(***************************************************************************)
EXTENDS Naturals, FiniteSets

CONSTANTS
    Messages,
    Source,      \* [Messages -> {"slack", "discord"}]
    Thread,      \* [Messages -> the message's conversation and thread]
    MaxTurns     \* maxTurnsPerThread of the gate

VARIABLES
    handler,     \* [Messages -> where _handleUserMessage is]
    stream,      \* [Messages -> "none", "open" or "closed"]
    storing,     \* [Messages -> where the storing of its reply is]
    counted,     \* [Threads -> turns recorded in the gate]
    joined,      \* Discord threads the bot has taken part in
    working,     \* [Threads -> prompts the child has taken and not ended]
    brain        \* whether the user's brain is known to be initialised

turnVars == <<handler, stream, storing, counted, joined, working, brain>>

Threads == {Thread[m] : m \in Messages}

Init ==
    /\ handler = [m \in Messages |-> "new"]
    /\ stream = [m \in Messages |-> "none"]
    /\ storing = [m \in Messages |-> "none"]
    /\ counted = [t \in Threads |-> 0]
    /\ joined = {}
    /\ working = [t \in Threads |-> {}]
    /\ brain = FALSE

At(m, here) == handler[m] = here
Goes(m, there) == handler' = [handler EXCEPT ![m] = there]

-----------------------------------------------------------------------------
(* Which messages are handled *)

\* evaluate: in Slack's AI-app mode every message passes.
GateAllows(m) == Source[m] = "slack" \/ counted[Thread[m]] < MaxTurns

\* The gate has been asked and the session asked for in the same step.
Taken(m) == IF GateAllows(m) THEN Goes(m, "session") ELSE Goes(m, "dropped")

TakeSlack(m) ==
    /\ At(m, "new") /\ Source[m] = "slack"
    /\ Taken(m)
    /\ UNCHANGED <<stream, storing, counted, joined, working, brain>>

\* A direct message, a mention, or one in a thread the bot takes part in.
TakeDiscord(m) ==
    /\ At(m, "new") /\ Source[m] = "discord"
    /\ \E addressed \in BOOLEAN :
          IF addressed \/ Thread[m] \in joined THEN Taken(m) ELSE Goes(m, "dropped")
    /\ UNCHANGED <<stream, storing, counted, joined, working, brain>>

\* From a bot, an edit, without text or file.
Ignore(m) ==
    /\ At(m, "new")
    /\ Goes(m, "dropped")
    /\ UNCHANGED <<stream, storing, counted, joined, working, brain>>

\* "/synaps link": redeemLinkCode and the answer, or the usage.
LinkDirective(m) ==
    /\ At(m, "new")
    /\ Goes(m, "linking")
    /\ UNCHANGED <<stream, storing, counted, joined, working, brain>>

LinkAnswered(m) ==
    /\ At(m, "linking")
    /\ Goes(m, "dropped")
    /\ UNCHANGED <<stream, storing, counted, joined, working, brain>>

-----------------------------------------------------------------------------
(* Up to the prompt *)

SessionFails(m) ==
    /\ At(m, "session")
    /\ Goes(m, "dropped")
    /\ UNCHANGED <<stream, storing, counted, joined, working, brain>>

\* setModel, when the message asks for one, may fail and is passed over.
SessionReady(m) ==
    /\ At(m, "session")
    /\ Goes(m, "model") \/ Goes(m, "files")
    /\ UNCHANGED <<stream, storing, counted, joined, working, brain>>

ModelApplied(m) ==
    /\ At(m, "model")
    /\ Goes(m, "files")
    /\ UNCHANGED <<stream, storing, counted, joined, working, brain>>

\* Promise.allSettled of the downloads: a file that fails is left out.
FilesSettled(m) ==
    /\ At(m, "files")
    /\ Goes(m, "opening")
    /\ joined' = IF Source[m] = "discord" THEN joined \cup {Thread[m]} ELSE joined
    /\ UNCHANGED <<stream, storing, counted, working, brain>>

StartFails(m) ==
    /\ At(m, "opening")
    /\ Goes(m, "dropped")
    /\ UNCHANGED <<stream, storing, counted, joined, working, brain>>

\* With a memory gateway and a text, whose memory it is comes next.
Started(m) ==
    /\ At(m, "opening")
    /\ stream' = [stream EXCEPT ![m] = "open"]
    /\ Goes(m, "whose") \/ Goes(m, "asking")
    /\ UNCHANGED <<storing, counted, joined, working, brain>>

\* Resolved by the identity router or not, there is a namespace.
UserResolved(m) ==
    /\ At(m, "whose")
    /\ Goes(m, IF brain THEN "search" ELSE "init")
    /\ UNCHANGED <<stream, storing, counted, joined, working, brain>>

\* _ensureInit: a failure is logged, and the next call tries again.
BrainReady(m, ok) ==
    /\ At(m, "init")
    /\ Goes(m, "search")
    /\ brain' = (brain \/ ok)
    /\ UNCHANGED <<stream, storing, counted, joined, working>>

\* recall: a search that fails or is killed after its time finds nothing.
Recalled(m) ==
    /\ At(m, "search")
    /\ Goes(m, "asking")
    /\ UNCHANGED <<stream, storing, counted, joined, working, brain>>

Prompt(m) ==
    /\ At(m, "asking")
    /\ Goes(m, "prompted")
    /\ working' = [working EXCEPT ![Thread[m]] = @ \cup {m}]
    /\ UNCHANGED <<stream, storing, counted, joined, brain>>

-----------------------------------------------------------------------------
(* From the prompt to the end *)

\* rpc.prompt is answered, before the turn's end or after it.
PromptAnswered(m) ==
    /\ At(m, "prompted")
    /\ Goes(m, "closing")
    /\ UNCHANGED <<stream, storing, counted, joined, working, brain>>

\* Fault: a prompt that fails ends the handler, as a session that fails does.
PromptFailsEnds(m) ==
    /\ At(m, "prompted")
    /\ Goes(m, "dropped")
    /\ UNCHANGED <<stream, storing, counted, joined, working, brain>>

\* Refused, the child gone, or no answer in time.  The child may go on with it.
PromptFails(m) ==
    /\ At(m, "prompted")
    /\ Goes(m, "closing")
    /\ \/ UNCHANGED working
       \/ working' = [working EXCEPT ![Thread[m]] = @ \ {m}]
    /\ UNCHANGED <<stream, storing, counted, joined, brain>>

\* proxy.stop has its listeners taken off from the start; what it throws is
\* logged.
StreamStopped(m) ==
    /\ At(m, "closing")
    /\ stream' = [stream EXCEPT ![m] = "closed"]
    /\ counted' = [counted EXCEPT ![Thread[m]] = @ + 1]
    /\ Goes(m, "recording")
    /\ UNCHANGED <<storing, joined, working, brain>>

\* recordActivity writes the session's row.
ActivityRecorded(m) ==
    /\ At(m, "recording")
    /\ Goes(m, "over")
    /\ UNCHANGED <<stream, storing, counted, joined, working, brain>>

\* Proxies that listen to the thread's rpc.
Listening(t) == {m \in Messages : Thread[m] = t /\
                     handler[m] \in {"whose", "init", "search", "asking", "prompted"}}

\* proxy.once: only the first end that a proxy hears counts.
HandedToStore(heard) == {m \in heard : storing[m] = "none"}

\* agent_end of one of the prompts the child works on.  A proxy without text by
\* then, as one that began to listen late, has nothing to store.
AgentEnd(t, m) ==
    /\ m \in working[t]
    /\ working' = [working EXCEPT ![t] = @ \ {m}]
    /\ LET handed == HandedToStore(Listening(t))
       IN  \E silent \in SUBSET handed :
              /\ storing' = [n \in Messages |->
                               IF n \in silent THEN "done"
                               ELSE IF n \in handed THEN "whose" ELSE storing[n]]
    /\ UNCHANGED <<handler, stream, counted, joined, brain>>

-----------------------------------------------------------------------------
(* store, which nobody waits for *)

StoreUserResolved(m) ==
    /\ storing[m] = "whose"
    /\ storing' = [storing EXCEPT ![m] = IF brain THEN "remember" ELSE "init"]
    /\ UNCHANGED <<handler, stream, counted, joined, working, brain>>

StoreBrainReady(m, ok) ==
    /\ storing[m] = "init"
    /\ storing' = [storing EXCEPT ![m] = "remember"]
    /\ brain' = (brain \/ ok)
    /\ UNCHANGED <<handler, stream, counted, joined, working>>

Remembered(m) ==
    /\ storing[m] = "remember"
    /\ storing' = [storing EXCEPT ![m] = "done"]
    /\ UNCHANGED <<handler, stream, counted, joined, working, brain>>

-----------------------------------------------------------------------------

\* What a handler may do next once it has taken its message: Slack's steps, and
\* Discord's, which are the same.
Step(m) ==
    \/ SessionFails(m) \/ SessionReady(m) \/ ModelApplied(m) \/ FilesSettled(m)
    \/ StartFails(m) \/ Started(m) \/ UserResolved(m)
    \/ \E ok \in BOOLEAN : BrainReady(m, ok)
    \/ Recalled(m) \/ Prompt(m) \/ PromptAnswered(m) \/ PromptFails(m)
    \/ StreamStopped(m) \/ ActivityRecorded(m) \/ LinkAnswered(m)

SlackStep(m) == Source[m] = "slack" /\ (TakeSlack(m) \/ Step(m))
DiscordStep(m) == Source[m] = "discord" /\ (TakeDiscord(m) \/ Step(m))

Store(m) ==
    \/ StoreUserResolved(m) \/ Remembered(m)
    \/ \E ok \in BOOLEAN : StoreBrainReady(m, ok)

Next ==
    \/ \E m \in Messages :
          \/ Ignore(m) \/ LinkDirective(m) \/ SlackStep(m) \/ DiscordStep(m) \/ Store(m)
    \/ \E t \in Threads, m \in Messages : AgentEnd(t, m)

-----------------------------------------------------------------------------

\* A call a handler waits for comes back: the rpc and axel are timed, and the
\* platform's client retries and gives up.  A download is not timed.
Fairness == \A m \in Messages : WF_turnVars(~At(m, "files") /\ Step(m))

\* The handlers that have begun a reply and will end it, and those that have.
Replying == {"whose", "init", "search", "asking", "prompted", "closing"}
Ended == {"recording", "over"}

Closed(t) == {m \in Messages : Thread[m] = t /\ stream[m] = "closed"}

\* Whatever fails between, a reply is open on the platform only while the handler
\* that will close it is at work, the gate of a thread has counted the replies that
\* were closed, each once, and only of a reply that was begun is anything stored.
RepliesAreAccounted ==
    /\ \A m \in Messages :
          /\ stream[m] = "open" => handler[m] \in Replying
          /\ storing[m] # "none" => stream[m] # "none"
    /\ \A t \in Threads : counted[t] = Cardinality(Closed(t))

\* A reply that was begun on the platform is brought to its end, whatever fails
\* between: no message is left with its typing sign.
StreamIsClosed == \A m \in Messages : stream[m] = "open" ~> stream[m] = "closed"
====
