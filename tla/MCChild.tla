------------------------------ MODULE MCChild ------------------------------
(***************************************************************************)
(* From a synaps child to the chat: the rpc of a local child and of one in *)
(* a container, the proxy that turns its events into one streamed reply,   *)
(* and the handles that show the reply.  Each is checked against whatever  *)
(* its neighbours may do, so a behaviour follows one of them (focus).      *)
(***************************************************************************)
EXTENDS SynapsRpc

CONSTANTS
    Prompts, DockerStoppers,
    MaxEvents,
    MaxText

ASSUME ChildAssumption == {MaxEvents, MaxText} \subseteq Nat

VARIABLES
    focus,
    bridge, dockerPhase, stream, stdinEnded, exited, entries, promise, answers, taken, halt,
    mode, phase, events, chain, stage, buffer, timer, issued, flight, awaits, tool, final,
    handle, message, text, given, calls, shown, edit, typing, lastFailed

Docker == INSTANCE DockerRpc WITH phase <- dockerPhase, Stoppers <- DockerStoppers
Proxy == INSTANCE StreamingProxy
Handle == INSTANCE StreamHandles WITH mode <- handle, timer <- edit

dockerVars == <<bridge, dockerPhase, stream, stdinEnded, exited, entries, promise, answers, taken, halt>>
proxyVars == <<mode, phase, events, chain, stage, buffer, timer, issued, flight, awaits, tool, final>>
handleVars == <<handle, message, text, given, calls, shown, edit, typing, lastFailed>>

ChildInit ==
    /\ focus \in {"local", "container", "proxy", "handle"}
    /\ Init /\ Docker!Init /\ Proxy!Init /\ Handle!Init
    /\ focus # "proxy" => mode = "rich"
    /\ focus # "handle" => handle = "discord"

ChildNext ==
    \/ focus = "local" /\ Next /\ UNCHANGED <<focus, dockerVars, proxyVars, handleVars>>
    \/ focus = "container" /\ Docker!Next /\ UNCHANGED <<focus, vars, proxyVars, handleVars>>
    \/ focus = "proxy" /\ Proxy!Next /\ UNCHANGED <<focus, vars, dockerVars, handleVars>>
    \/ focus = "handle" /\ Handle!Next /\ UNCHANGED <<focus, vars, dockerVars, proxyVars>>

ChildSpec ==
    /\ ChildInit
    /\ [][ChildNext]_<<focus, vars, dockerVars, proxyVars, handleVars>>
    /\ Fairness /\ Docker!Fairness /\ Proxy!Fairness

\* The rpc of a local child and that of a container, as SessionRouter sees them.
LocalStart == [idle |-> "new", waiting |-> "starting", resolved |-> "ready", rejected |-> "failed"]
LocalPromise ==
    [r \in Requests |-> IF r > sent THEN "unsent"
                        ELSE IF result[r] = "none" THEN "open"
                        ELSE IF result[r] = "answered" THEN "resolved" ELSE "rejected"]
Local == INSTANCE RpcContract WITH
    start <- LocalStart[start], promise <- LocalPromise, exited <- child = "exited"

ContainerStart ==
    IF dockerPhase = "idle" THEN "new"
    ELSE IF dockerPhase \in {"ready", "failed"} THEN dockerPhase ELSE "starting"
ContainerPromise ==
    [q \in Prompts |-> IF promise[q] = "unsettled" THEN "open" ELSE promise[q]]
Container == INSTANCE RpcContract WITH
    Requests <- Prompts, start <- ContainerStart, promise <- ContainerPromise

\* Either rpc keeps the contract: whatever arrives, however late and in which
\* order, start() and each request settle once, and the exit leaves none open.
ImplementsRpc == Local!Spec /\ Container!Spec

\* Every request is settled, by a child of either kind, and the shutdown of a
\* local one returns.
EveryRequestSettles == RequestsSettle /\ ShutdownReturns /\ Docker!RequestsSettle
ReplyIsWhole == Proxy!ReplyIsWhole
StopReturns == Proxy!StopReturns
ShownIsWhole == Handle!ShownIsWhole
=============================================================================
