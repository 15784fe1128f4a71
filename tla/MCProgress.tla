----------------------------- MODULE MCProgress -----------------------------
(***************************************************************************)
(* What the bridge has begun comes to an end: chat calls, a hook emission, *)
(* the beats of what has died, requests on the control socket and over     *)
(* HTTP, turns of a chat.  A behaviour follows one of them (focus).        *)
(***************************************************************************)
EXTENDS Naturals, Sequences

CONSTANTS
    None,
    Users, Calls,
    WorkspaceIds, RpcIds, Handled, Reliable, Sweeps,
    Hooks, Unfit,
    Clients, Lines, Wired,
    Requests,
    SlackMessages, DiscordMessages, MaxTurns

UserOf == [c \in Calls |-> CHOOSE u \in Users : TRUE]
\* Every client writes a line, one of them more.
ClientOf == CHOOSE f \in [Lines -> Clients] : \A c \in Clients : \E l \in Lines : f[l] = c
Messages == SlackMessages \cup DiscordMessages
Source == [m \in Messages |-> IF m \in SlackMessages THEN "slack" ELSE "discord"]
Thread == Source  \* all messages of a source are in one thread

ASSUME ProgressAssumption ==
    /\ MaxTurns \in Nat
    /\ None \notin Calls \cup WorkspaceIds \cup RpcIds \cup Sweeps
    /\ Unfit \subseteq Hooks
    /\ Reliable \subseteq Handled /\ Handled \subseteq WorkspaceIds \cup RpcIds
    /\ SlackMessages \cap DiscordMessages = {}

VARIABLES
    focus,
    chat, lock, frame, turns, hears, text, watched, crashed,
    beat, up, sweep, reaper, emitter, own, inflight,
    enabled, emission, call,
    conn, line, server, childDied,
    request, http,
    handler, stream, storing, counted, joined, working, brain

Chat == INSTANCE McpChat
Supervised == INSTANCE Supervision
Hook == INSTANCE HookBus
Control == INSTANCE ControlSocket
Turns == INSTANCE Turn
Http == INSTANCE ScpHttp

chatVars == <<chat, lock, frame, turns, hears, text, watched, crashed>>
supervisionVars == <<beat, up, sweep, reaper, emitter, own, inflight>>
hookVars == <<enabled, emission, call>>
controlVars == <<conn, line, server, childDied>>
turnVars == <<handler, stream, storing, counted, joined, working, brain>>
httpVars == <<request, http>>
vars == <<focus, chatVars, supervisionVars, hookVars, controlVars, turnVars, httpVars>>

Init ==
    /\ focus \in {"chat", "supervision", "hooks", "control", "turn", "http"}
    /\ Chat!Init /\ Supervised!Init /\ Hook!Init /\ Control!Init /\ Turns!Init /\ Http!Init

\* A bound: the messages of a behaviour come from one source.
OneSource == \E source \in {"slack", "discord"} :
    \A m \in Messages : handler'[m] # "new" => Source[m] = source

Next ==
    \/ /\ focus = "chat" /\ Chat!Next
       /\ UNCHANGED <<focus, supervisionVars, hookVars, controlVars, turnVars, httpVars>>
    \/ /\ focus = "supervision" /\ Supervised!Next
       /\ UNCHANGED <<focus, chatVars, hookVars, controlVars, turnVars, httpVars>>
    \/ /\ focus = "hooks" /\ Hook!Next
       /\ UNCHANGED <<focus, chatVars, supervisionVars, controlVars, turnVars, httpVars>>
    \/ /\ focus = "control" /\ Control!Next
       /\ UNCHANGED <<focus, chatVars, supervisionVars, hookVars, turnVars, httpVars>>
    \/ /\ focus = "turn" /\ Turns!Next /\ OneSource
       /\ UNCHANGED <<focus, chatVars, supervisionVars, hookVars, controlVars, httpVars>>
    \/ /\ focus = "http" /\ Http!Next
       /\ UNCHANGED <<focus, chatVars, supervisionVars, hookVars, controlVars, turnVars>>

Spec ==
    /\ Init /\ [][Next]_vars
    /\ Chat!Fairness /\ Supervised!Fairness /\ Hook!Fairness /\ Control!Fairness /\ Turns!Fairness /\ Http!Fairness

RequestsAnswered == Chat!CallsAnswered /\ Http!RequestsEnd
StaleIsReaped == Supervised!StaleIsReaped
EmissionEnds == Hook!EmissionEnds
EndedOnce == Control!EndedOnce
LineIsAnswered == Control!LineIsAnswered
StreamIsClosed == Turns!StreamIsClosed
=============================================================================
