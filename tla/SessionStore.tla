---------------------------- MODULE SessionStore ----------------------------
(***************************************************************************)
(* bridge/core/session-store.js: the records of sessions.json.             *)
(*                                                                         *)
(* upsert, touch and remove each read the file, change one record in       *)
(* memory, write a temporary file and rename it over sessions.json, with   *)
(* an await at every step.  _writeChain, a promise each operation takes    *)
(* from its predecessor, is all that keeps two of them apart.  Operations  *)
(* are numbered as they are called; in a record the number says which      *)
(* operation a time stamp came from.                                       *)
(***************************************************************************)
EXTENDS Naturals

CONSTANTS
    MaxOps,      \* a bound on the write operations
    Keys, Sids, None,
    ReadFaults   \* TRUE: readFile may fail, and load() then returns {}

Ops == 1 .. MaxOps

ASSUME SessionStoreAssumption == MaxOps \in Nat /\ ReadFaults \in BOOLEAN

VARIABLES
    file,     \* sessions.json
    tmp,      \* operation -> the temporary file it wrote
    request,  \* operation -> kind, key and sessionId asked for
    pc,       \* operation -> where it is
    prior,    \* operation -> the one whose promise it awaits, or 0
    tail,     \* _writeChain: the last operation that joined the chain, or 0
    calls     \* the number of operations called so far

vars == <<file, tmp, request, pc, prior, tail, calls>>

A == INSTANCE AtomicStore WITH records <- file, status <- pc

Steps == {"idle", "queued", "save", "rename", "renamed", "done", "failed", "lost"}
Settled == {"done", "failed"}

Init ==
    /\ file = [k \in Keys |-> None]
    /\ tmp = [o \in Ops |-> None]
    /\ request = [o \in Ops |-> None]
    /\ pc = [o \in Ops |-> "idle"]
    /\ prior = [o \in Ops |-> 0]
    /\ tail = 0
    /\ calls = 0

\* Fault: the operation does not wait for its predecessor.
CallUnchained(o, q) ==
    /\ o = calls + 1
    /\ calls' = o
    /\ request' = [request EXCEPT ![o] = q]
    /\ pc' = [pc EXCEPT ![o] = "queued"]
    /\ tail' = o
    /\ UNCHANGED <<file, tmp, prior>>

\* const prior = _writeChain; _writeChain = new Promise(...)
Call(o, q) ==
    /\ o = calls + 1
    /\ calls' = o
    /\ request' = [request EXCEPT ![o] = q]
    /\ pc' = [pc EXCEPT ![o] = "queued"]
    /\ prior' = [prior EXCEPT ![o] = tail]
    /\ tail' = o
    /\ UNCHANGED <<file, tmp>>

\* The records load() returns.
Loads == {file} \cup (IF ReadFaults THEN {[k \in Keys |-> None]} ELSE {})

\* What the operation makes of the records it read.
Merged(recs, o) == A!Effect(recs, o, request[o])

\* await prior; load(); change the record.  touch and remove return here when
\* there is no record of the key.
LoadAndMerge(o) ==
    /\ pc[o] = "queued"
    /\ prior[o] # 0 => pc[prior[o]] \in Settled
    /\ \E recs \in Loads :
         IF request[o].kind # "upsert" /\ recs[request[o].key] = None
         THEN /\ pc' = [pc EXCEPT ![o] = "done"]
              /\ UNCHANGED tmp
         ELSE /\ tmp' = [tmp EXCEPT ![o] = Merged(recs, o)]
              /\ pc' = [pc EXCEPT ![o] = "save"]
    /\ UNCHANGED <<file, request, prior, tail, calls>>

\* save(): the temporary file is written and synced ...
WriteTmp(o) ==
    /\ pc[o] = "save"
    /\ pc' = [pc EXCEPT ![o] = "rename"]
    /\ UNCHANGED <<file, tmp, request, prior, tail, calls>>

\* ... and renamed over sessions.json.
Rename(o) ==
    /\ pc[o] = "rename"
    /\ file' = tmp[o]
    /\ pc' = [pc EXCEPT ![o] = "renamed"]
    /\ UNCHANGED <<tmp, request, prior, tail, calls>>

\* Fault: a failed save leaves the chain unresolved.
SaveFailsStuck(o) ==
    /\ pc[o] \in {"save", "rename"}
    /\ pc' = [pc EXCEPT ![o] = "lost"]
    /\ UNCHANGED <<file, tmp, request, prior, tail, calls>>

\* mkdir, writeFile or rename rejects; the finally resolves the chain.
SaveFails(o) ==
    /\ pc[o] \in {"save", "rename"}
    /\ pc' = [pc EXCEPT ![o] = "failed"]
    /\ UNCHANGED <<file, tmp, request, prior, tail, calls>>

Return(o) ==
    /\ pc[o] = "renamed"
    /\ pc' = [pc EXCEPT ![o] = "done"]
    /\ UNCHANGED <<file, tmp, request, prior, tail, calls>>

\* The process dies; the next SessionStore starts a chain of its own.
Crash ==
    /\ pc' = [o \in Ops |-> IF pc[o] \in {"queued", "save", "rename", "renamed"}
                            THEN "lost" ELSE pc[o]]
    /\ tail' = 0
    /\ UNCHANGED <<file, tmp, request, prior, calls>>

Step(o) == LoadAndMerge(o) \/ WriteTmp(o) \/ Rename(o) \/ SaveFails(o) \/ Return(o)

Next ==
    \/ \E o \in Ops, q \in A!Requests : Call(o, q)
    \/ \E o \in Ops : Step(o)
    \/ Crash

Spec == Init /\ [][Next]_vars

\* Every file operation completes or fails.
FairSpec == Spec /\ \A o \in Ops : WF_vars(Step(o))

-----------------------------------------------------------------------------
Record == [sid : Sids, created : Ops, active : Ops]
Records == [Keys -> Record \cup {None}]

TypeOK ==
    /\ file \in Records
    /\ tmp \in [Ops -> Records \cup {None}]
    /\ request \in [Ops -> A!Requests \cup {None}]
    /\ pc \in [Ops -> Steps]
    /\ prior \in [Ops -> 0 .. MaxOps]
    /\ tail \in 0 .. calls
    /\ calls \in 0 .. MaxOps

\* The chain keeps read-modify-write cycles apart: of two operations at most
\* one is between its load() and its rename() (:161-173).
OneWriter ==
    \A o, p \in Ops :
       pc[o] \in {"save", "rename"} /\ pc[p] \in {"save", "rename"} => o = p

(***************************************************************************)
(* The inductive invariant.  Operations leave the queue in the order of    *)
(* their calls, so the chain needs no search: all operations before one    *)
(* that has left it are over.  What an operation is about to write is the  *)
(* file with its own effect, because the file has not changed since.       *)
(***************************************************************************)
Over == Settled \cup {"lost"}

Chain ==
    /\ \A o \in Ops : pc[o] = "idle" <=> o > calls
    /\ \A o \in Ops : pc[o] # "idle" =>
          IF prior[o] = 0 THEN \A p \in Ops : p < o => pc[p] \in Over
                          ELSE prior[o] = o - 1
    /\ IF tail = 0 THEN \A p \in Ops : p =< calls => pc[p] \in Over
                   ELSE tail = calls
    /\ \A o, p \in Ops : p < o /\ pc[o] \notin {"idle", "queued", "lost"} => pc[p] \in Over

Fresh ==
    ~ReadFaults => \A o \in Ops : pc[o] \in {"save", "rename"} => tmp[o] = Merged(file, o)

Held ==
    \A o \in Ops :
       /\ pc[o] # "idle" => request[o] \in A!Requests
       /\ pc[o] \in {"save", "rename"} => tmp[o] \in Records

IInv == TypeOK /\ Chain /\ Held /\ Fresh

\* The time stamp of the first upsert of a record survives every later write
\* (:188, "On update: preserves `createdAt`" :155).
CreatedAtIsKept ==
    [][\A k \in Keys : file[k] # None /\ file'[k] # None
          => file'[k].created = file[k].created]_vars

(***************************************************************************)
(* An operation is "called" until its rename, "applied" until it returns.  *)
(* A touch or remove that finds no record returns at once: it is taken to  *)
(* end without effect, as a failed one does.                               *)
(***************************************************************************)
Status(o) ==
    CASE pc[o] = "idle" -> "idle"
      [] pc[o] \in {"queued", "save", "rename"} -> "called"
      [] pc[o] = "renamed" -> "applied"
      [] OTHER -> "over"

Abs == [o \in Ops |-> Status(o)]

Atomic == INSTANCE AtomicStore WITH records <- file, status <- Abs

\* Every run of the store is a run of AtomicStore: no update is lost, none is
\* applied twice, a crash leaves sessions.json as some operation wrote it.
ImplementsAtomicStore == Atomic!Spec

\* Every operation settles, whatever became of those before it in the chain.
OpsSettle == \A o \in Ops : pc[o] = "queued" ~> pc[o] \in Settled \cup {"lost"}
=============================================================================
