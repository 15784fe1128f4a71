----------------------------- MODULE AtomicStore -----------------------------
(***************************************************************************)
(* What SessionStore promises its callers: each operation takes effect at  *)
(* one instant between its call and its return, on the records as they are *)
(* then, or not at all.                                                    *)
(***************************************************************************)
CONSTANTS Ops, Keys, Sids, None

VARIABLES
    records,  \* key -> record or None
    request,  \* operation -> what was asked, or None
    status    \* operation -> "idle", "called", "applied", "over"

Kinds == {"upsert", "touch", "remove"}
Requests == [kind : Kinds, key : Keys, sid : Sids]

\* The records after o, asked for q, has taken effect on recs.
Effect(recs, o, q) ==
    LET old == recs[q.key]
        new == CASE q.kind = "upsert" ->
                      [sid |-> q.sid, active |-> o,
                       created |-> IF old = None THEN o ELSE old.created]
                 [] q.kind = "touch" ->
                      IF old = None THEN None ELSE [old EXCEPT !.active = o]
                 [] q.kind = "remove" -> None
    IN  [recs EXCEPT ![q.key] = new]

Init ==
    /\ records = [k \in Keys |-> None]
    /\ request = [o \in Ops |-> None]
    /\ status = [o \in Ops |-> "idle"]

Call(o, q) ==
    /\ status[o] = "idle"
    /\ request' = [request EXCEPT ![o] = q]
    /\ status' = [status EXCEPT ![o] = "called"]
    /\ UNCHANGED records

Apply(o) ==
    /\ status[o] = "called"
    /\ records' = Effect(records, o, request[o])
    /\ status' = [status EXCEPT ![o] = "applied"]
    /\ UNCHANGED request

\* Operations return, fail without effect, or vanish with the process.
End(os) ==
    /\ \A o \in os : status[o] \in {"called", "applied"}
    /\ status' = [o \in Ops |-> IF o \in os THEN "over" ELSE status[o]]
    /\ UNCHANGED <<records, request>>

Next ==
    \/ \E o \in Ops, q \in Requests : Call(o, q)
    \/ \E o \in Ops : Apply(o)
    \/ \E os \in SUBSET Ops : End(os)

Spec == Init /\ [][Next]_<<records, request, status>>
=============================================================================
