----------------------------- MODULE RpcContract -----------------------------
(***************************************************************************)
(* What an rpc promises SessionRouter, "so the SessionRouter doesn't need  *)
(* to know which transport is in play" (bridge/core/synaps-rpc-docker.js): *)
(* start() settles once, a request is settled at most once and only after  *)
(* it was made, and the exit, which comes once, leaves nothing open that   *)
(* was asked before it.                                                    *)
(***************************************************************************)
CONSTANT Requests

VARIABLES
    start,    \* the promise of start(): "new", "starting", "ready" or "failed"
    promise,  \* [Requests -> "unsent", "open", "resolved" or "rejected"]
    exited    \* 'exit' was emitted

contractVars == <<start, promise, exited>>

Init ==
    /\ start = "new"
    /\ promise = [r \in Requests |-> "unsent"]
    /\ exited = FALSE

Open == {r \in Requests : promise[r] = "open"}
Settled(rs, how) == promise' = [r \in Requests |-> IF r \in rs THEN how ELSE promise[r]]

StartGoes ==
    /\ \/ start = "new" /\ start' = "starting"
       \/ start = "starting" /\ start' \in {"ready", "failed"}
    /\ UNCHANGED <<promise, exited>>

Call(r) ==
    /\ promise[r] = "unsent"
    /\ Settled({r}, "open")
    /\ UNCHANGED <<start, exited>>

Answer(r) ==
    /\ r \in Open
    /\ Settled({r}, "resolved")
    /\ UNCHANGED <<start, exited>>

\* By an error, a timeout or a shutdown, which rejects all that is open.
Reject(rs) ==
    /\ rs \subseteq Open
    /\ Settled(rs, "rejected")
    /\ UNCHANGED <<start, exited>>

Exit ==
    /\ ~exited /\ exited' = TRUE
    /\ Settled(Open, "rejected")
    /\ start' = IF start = "starting" THEN "failed" ELSE start

Next ==
    \/ StartGoes \/ Exit
    \/ \E r \in Requests : Call(r) \/ Answer(r)
    \/ \E rs \in SUBSET Requests : Reject(rs)

Spec == Init /\ [][Next]_contractVars

-----------------------------------------------------------------------------
\* A promise that is settled keeps its outcome, whatever arrives afterwards.
SettledOnce ==
    [][\A r \in Requests : promise[r] \in {"resolved", "rejected"} => promise'[r] = promise[r]]_contractVars
=============================================================================
