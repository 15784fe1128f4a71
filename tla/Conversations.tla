---------------------------- MODULE Conversations ----------------------------
(***************************************************************************)
(* What the session router promises of a conversation, whatever children   *)
(* come and go: a conversation is bound to one Synaps session of its own,  *)
(* is never rebound, and is served only while it is bound.                 *)
(***************************************************************************)
CONSTANTS Keys, Sessions, None

VARIABLES
    session,  \* key -> the session the conversation continues, or None
    routed    \* key -> TRUE while a child serves it

Init ==
    /\ session = [k \in Keys |-> None]
    /\ routed = [k \in Keys |-> FALSE]

\* A child serves k, with k's session or, the first time, one nobody else has.
Serve(k, s) ==
    /\ session[k] \in {None, s}
    /\ \A j \in Keys \ {k} : session[j] # s
    /\ session' = [session EXCEPT ![k] = s]
    /\ routed' = [routed EXCEPT ![k] = TRUE]

\* The children of ks are shut down, crash or end with the daemon.
Release(ks) ==
    /\ routed' = [k \in Keys |-> routed[k] /\ k \notin ks]
    /\ UNCHANGED session

Next ==
    \/ \E k \in Keys, s \in Sessions : Serve(k, s)
    \/ \E ks \in SUBSET Keys : Release(ks)

Spec == Init /\ [][Next]_<<session, routed>>
=============================================================================
