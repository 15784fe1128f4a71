------------------------- MODULE SessionStoreProofs -------------------------
(***************************************************************************)
(* Proofs about SessionStore: the chain of writes keeps the operations     *)
(* apart, and with reliable reads the store implements AtomicStore.        *)
(***************************************************************************)
EXTENDS SessionStore, TLAPS



\* The effect of an operation on a file is a file.
LEMMA MergedType ==
    ASSUME NEW recs \in Records, NEW o \in Ops, request[o] \in A!Requests
    PROVE  Merged(recs, o) \in Records
<1> DEFINE q == request[o]
           new == CASE q.kind = "upsert" ->
                          [sid |-> q.sid, active |-> o,
                           created |-> IF recs[q.key] = None THEN o ELSE recs[q.key].created]
                    [] q.kind = "touch" ->
                          IF recs[q.key] = None THEN None
                                                ELSE [recs[q.key] EXCEPT !.active = o]
                    [] q.kind = "remove" -> None
<1>2. /\ q.key \in Keys /\ q.sid \in Sids
      /\ q.kind \in {"upsert", "touch", "remove"}
  BY DEF A!Requests, A!Kinds
<1>3. recs[q.key] \in Record \cup {None}
  BY <1>2 DEF Records
<1>4. new \in Record \cup {None}
  BY <1>2, <1>3 DEF Record
<1>5. Merged(recs, o) = [recs EXCEPT ![q.key] = new]
  BY DEF Merged, A!Effect
<1> HIDE DEF new
<1> QED
  BY <1>2, <1>4, <1>5 DEF Records

LEMMA LoadsAreRecords == TypeOK => Loads \subseteq Records
  BY DEF TypeOK, Loads, Records

LEMMA InitIInv == Init => IInv
<1> SUFFICES ASSUME Init PROVE IInv
  OBVIOUS
<1> USE DEF Init
<1>1. TypeOK
  BY SessionStoreAssumption DEF TypeOK, Ops, Steps, Records
<1>2. Chain
  BY DEF Chain, Ops, Over
<1>3. Held /\ Fresh
  BY DEF Held, Fresh
<1> QED
  BY <1>1, <1>2, <1>3 DEF IInv

LEMMA TypeStep == TypeOK /\ Held /\ [Next]_vars => TypeOK' /\ Held'
<1> SUFFICES ASSUME TypeOK, Held, [Next]_vars PROVE TypeOK' /\ Held'
  OBVIOUS
<1> USE DEF TypeOK, Held, Steps, Settled
<1>1. ASSUME NEW o \in Ops, NEW q \in A!Requests, Call(o, q) PROVE TypeOK' /\ Held'
  <2>1. /\ request' = [request EXCEPT ![o] = q] /\ pc' = [pc EXCEPT ![o] = "queued"]
        /\ prior' = [prior EXCEPT ![o] = tail] /\ tail' = o /\ calls' = o
        /\ UNCHANGED <<file, tmp>>
    BY <1>1 DEF Call
  <2>2. o \in 0 .. MaxOps /\ o \in 0 .. o /\ tail \in 0 .. MaxOps
    BY SessionStoreAssumption DEF Ops
  <2>3. TypeOK'
    BY <2>1, <2>2
  <2>4. Held'
    BY <2>1
  <2> QED
    BY <2>3, <2>4
<1>2. ASSUME NEW o \in Ops, LoadAndMerge(o) PROVE TypeOK' /\ Held'
  <2>1. request[o] \in A!Requests
    BY <1>2 DEF LoadAndMerge
  <2>2. PICK recs \in Loads :
          IF request[o].kind # "upsert" /\ recs[request[o].key] = None
          THEN pc' = [pc EXCEPT ![o] = "done"] /\ UNCHANGED tmp
          ELSE /\ tmp' = [tmp EXCEPT ![o] = Merged(recs, o)]
               /\ pc' = [pc EXCEPT ![o] = "save"]
    BY <1>2 DEF LoadAndMerge
  <2>3. Merged(recs, o) \in Records
    BY <2>1, LoadsAreRecords, MergedType
  <2> QED
    BY <1>2, <2>2, <2>3 DEF LoadAndMerge
<1>3. ASSUME NEW o \in Ops, WriteTmp(o) PROVE TypeOK' /\ Held'
  BY <1>3 DEF WriteTmp
<1>4. ASSUME NEW o \in Ops, Rename(o) PROVE TypeOK' /\ Held'
  BY <1>4 DEF Rename
<1>5. ASSUME NEW o \in Ops, SaveFails(o) PROVE TypeOK' /\ Held'
  BY <1>5 DEF SaveFails
<1>6. ASSUME NEW o \in Ops, Return(o) PROVE TypeOK' /\ Held'
  BY <1>6 DEF Return
<1>7. CASE Crash
  BY <1>7 DEF Crash, Ops
<1>8. CASE UNCHANGED vars
  BY <1>8 DEF vars
<1> QED
  BY <1>1, <1>2, <1>3, <1>4, <1>5, <1>6, <1>7, <1>8 DEF Next, Step

\* An operation that leaves the queue has only finished ones before it.
LEMMA PriorsAreOver ==
    ASSUME TypeOK, Chain, NEW o \in Ops, pc[o] = "queued",
           prior[o] # 0 => pc[prior[o]] \in Settled
    PROVE  \A p \in Ops : p < o => pc[p] \in Over
<1>1. CASE prior[o] = 0
  BY <1>1 DEF Chain
<1>2. CASE prior[o] # 0
  <2>1. prior[o] = o - 1 /\ o - 1 \in Ops /\ pc[o - 1] \in Settled
    BY <1>2 DEF Chain, TypeOK, Ops
  <2>2. \A p \in Ops : p < o - 1 => pc[p] \in Over
    BY <2>1 DEF Chain, Settled
  <2> QED
    BY <2>1, <2>2 DEF Ops, Over
<1> QED
  BY <1>1, <1>2

\* A step of one operation from "queued" on changes nothing the chain is made of.
LEMMA StepKeepsChain ==
    ASSUME TypeOK, Chain, NEW o \in Ops, NEW x \in Steps \ {"idle", "queued"},
           pc[o] \notin {"idle"} \cup Over, pc' = [pc EXCEPT ![o] = x],
           UNCHANGED <<prior, tail, calls>>,
           \A p \in Ops : p < o => pc[p] \in Over
    PROVE  Chain'
<1>1. \A p \in Ops : pc'[p] = IF p = o THEN x ELSE pc[p]
  BY DEF TypeOK
<1>2. \A p \in Ops : pc[p] \in Over => pc'[p] \in Over
  BY <1>1
<1> USE DEF Chain
<1>3. (\A p \in Ops : pc[p] = "idle" <=> p > calls)'
  BY <1>1
<1>4. (\A p \in Ops : pc[p] # "idle" =>
         IF prior[p] = 0 THEN \A p2 \in Ops : p2 < p => pc[p2] \in Over
                         ELSE prior[p] = p - 1)'
  BY <1>1, <1>2
<1>5. (IF tail = 0 THEN \A p \in Ops : p =< calls => pc[p] \in Over ELSE tail = calls)'
  BY <1>1, <1>2
<1>6. (\A p, p2 \in Ops : p2 < p /\ pc[p] \notin {"idle", "queued", "lost"} => pc[p2] \in Over)'
  BY <1>1, <1>2
<1> QED
  BY <1>3, <1>4, <1>5, <1>6

LEMMA ChainStep == TypeOK /\ Chain /\ [Next]_vars => Chain'
<1> SUFFICES ASSUME TypeOK, Chain, [Next]_vars PROVE Chain'
  OBVIOUS
<1>1. ASSUME NEW o \in Ops, NEW q \in A!Requests, Call(o, q) PROVE Chain'
  <2>1. pc' = [pc EXCEPT ![o] = "queued"] /\ tail' = o /\ calls' = o
        /\ o = calls + 1 /\ prior' = [prior EXCEPT ![o] = tail]
    BY <1>1 DEF Call
  <2>0. pc[o] = "idle"
    BY <2>1 DEF Chain, TypeOK, Ops
  <2>2. \A p \in Ops : /\ pc'[p] = IF p = o THEN "queued" ELSE pc[p]
                       /\ prior'[p] = IF p = o THEN tail ELSE prior[p]
    BY <2>1 DEF TypeOK
  <2> USE DEF Chain
  <2>3. (\A p \in Ops : pc[p] = "idle" <=> p > calls)'
    BY <2>1, <2>2 DEF Ops, TypeOK
  <2>4. ASSUME NEW p \in Ops, pc'[p] # "idle"
        PROVE  IF prior'[p] = 0 THEN \A p2 \in Ops : p2 < p => pc'[p2] \in Over
                                ELSE prior'[p] = p - 1
    <3>1. CASE p = o
      BY <3>1, <2>1, <2>2 DEF Ops, TypeOK
    <3>2. CASE p # o
      BY <3>2, <2>1, <2>2, <2>4 DEF Ops, TypeOK
    <3> QED
      BY <3>1, <3>2
  <2>5. (IF tail = 0 THEN \A p \in Ops : p =< calls => pc[p] \in Over ELSE tail = calls)'
    BY <2>1 DEF Ops
  <2>6. (\A p, p2 \in Ops : p2 < p /\ pc[p] \notin {"idle", "queued", "lost"} => pc[p2] \in Over)'
    BY <2>0, <2>1, <2>2 DEF Ops, Over, Settled
  <2> QED
    BY <2>3, <2>4, <2>5, <2>6
<1>2. ASSUME NEW o \in Ops, LoadAndMerge(o) PROVE Chain'
  <2>1. \A p \in Ops : p < o => pc[p] \in Over
    BY <1>2, PriorsAreOver DEF LoadAndMerge
  <2>2. PICK x \in {"done", "save"} : pc' = [pc EXCEPT ![o] = x]
    BY <1>2 DEF LoadAndMerge
  <2> QED
    BY <1>2, <2>1, <2>2, StepKeepsChain DEF LoadAndMerge, Steps, Over, Settled
<1>3. ASSUME NEW o \in Ops, WriteTmp(o) \/ Rename(o) \/ SaveFails(o) \/ Return(o) PROVE Chain'
  <2>1. pc[o] \in {"save", "rename", "renamed"}
    BY <1>3 DEF WriteTmp, Rename, SaveFails, Return
  <2>2. \A p \in Ops : p < o => pc[p] \in Over
    BY <2>1 DEF Chain
  <2>3. PICK x \in {"rename", "renamed", "failed", "done"} : pc' = [pc EXCEPT ![o] = x]
    BY <1>3 DEF WriteTmp, Rename, SaveFails, Return
  <2>4. UNCHANGED <<prior, tail, calls>>
    BY <1>3 DEF WriteTmp, Rename, SaveFails, Return
  <2> QED
    BY <2>1, <2>2, <2>3, <2>4, StepKeepsChain DEF Steps, Over, Settled
<1>4. CASE Crash
  <2>1. \A p \in Ops : pc'[p] = IF pc[p] \in {"queued", "save", "rename", "renamed"}
                                THEN "lost" ELSE pc[p]
    BY <1>4 DEF Crash
  <2>2. \A p \in Ops : pc'[p] \in Over \cup {"idle"} /\ (pc'[p] = "idle" <=> pc[p] = "idle")
    BY <2>1 DEF TypeOK, Steps, Over, Settled
  <2>3. tail' = 0 /\ UNCHANGED <<prior, calls>>
    BY <1>4 DEF Crash
  <2>4. \A p \in Ops : p =< calls => pc'[p] \in Over
    BY <2>2 DEF Chain, Ops, TypeOK
  <2>5. \A p, p2 \in Ops : p2 < p /\ pc'[p] # "idle" => pc'[p2] \in Over
    BY <2>2, <2>4 DEF Chain, Ops, TypeOK
  <2> QED
    BY <2>1, <2>2, <2>3, <2>4, <2>5 DEF Chain
<1>5. CASE UNCHANGED vars
  BY <1>5 DEF vars, Chain
<1> QED
  BY <1>1, <1>2, <1>3, <1>4, <1>5 DEF Next, Step

LEMMA ChainSeparates == TypeOK /\ Chain => OneWriter
  BY DEF Chain, OneWriter, TypeOK, Ops, Over, Settled

\* What an operation would write is a function of the file and its request.
LEMMA MergedSame ==
    ASSUME NEW o \in Ops, file' = file, request'[o] = request[o]
    PROVE  Merged(file, o)' = Merged(file, o)
  BY DEF Merged, A!Effect

LEMMA FreshStep == IInv /\ [Next]_vars => Fresh'
<1> SUFFICES ASSUME IInv, [Next]_vars, ReadFaults = FALSE,
                    NEW p \in Ops, pc'[p] \in {"save", "rename"}
             PROVE  tmp'[p] = Merged(file, p)'
  BY SessionStoreAssumption DEF Fresh
<1> USE DEF IInv, TypeOK
<1>1. ASSUME NEW o \in Ops, NEW q \in A!Requests, Call(o, q) PROVE tmp'[p] = Merged(file, p)'
  BY <1>1, MergedSame DEF Call, Fresh
<1>2. ASSUME NEW o \in Ops, LoadAndMerge(o) PROVE tmp'[p] = Merged(file, p)'
  BY <1>2, MergedSame DEF LoadAndMerge, Loads, Fresh
<1>3. ASSUME NEW o \in Ops, WriteTmp(o) \/ SaveFails(o) \/ Return(o) PROVE tmp'[p] = Merged(file, p)'
  BY <1>3, MergedSame DEF WriteTmp, SaveFails, Return, Fresh
<1>4. ASSUME NEW o \in Ops, Rename(o) PROVE tmp'[p] = Merged(file, p)'
  BY <1>4, ChainSeparates DEF Rename, OneWriter
<1>5. CASE Crash
  BY <1>5 DEF Crash
<1>6. CASE UNCHANGED vars
  BY <1>6, MergedSame DEF vars, Fresh
<1> QED
  BY <1>1, <1>2, <1>3, <1>4, <1>5, <1>6 DEF Next, Step

(***************************************************************************)
(* The inductive invariant holds in every reachable state.                 *)
(***************************************************************************)
THEOREM StoreInductive == Spec => []IInv
<1>1. IInv /\ [Next]_vars => IInv'
  BY TypeStep, ChainStep, FreshStep DEF IInv
<1> QED
  BY InitIInv, <1>1, PTL DEF Spec

\* Of the write operations at most one is between its load() and its rename():
\* _writeChain is a lock, for any number of operations, failures and crashes.
THEOREM OperationsAreApart == Spec => []OneWriter
<1>1. IInv => OneWriter
  BY ChainSeparates DEF IInv
<1> QED
  BY StoreInductive, <1>1, PTL

\* With reliable reads the time stamp of a record's creation survives every write.
THEOREM CreationIsRemembered == ReadFaults = FALSE /\ Spec => CreatedAtIsKept
<1>1. ASSUME ReadFaults = FALSE, IInv, [Next]_vars, NEW k \in Keys,
             file[k] # None, file'[k] # None
      PROVE  file'[k].created = file[k].created
  <2>1. CASE UNCHANGED file
    BY <2>1
  <2>2. ASSUME NEW o \in Ops, Rename(o) PROVE file'[k].created = file[k].created
    <3>1. file' = A!Effect(file, o, request[o])
      BY <1>1, <2>2 DEF Rename, IInv, Fresh, Merged
    <3>2. file[k] \in Record /\ request[o] \in A!Requests /\ file \in [Keys -> Record \cup {None}]
      BY <1>1, <2>2 DEF Rename, IInv, TypeOK, Held, Records
    <3>3. CASE request[o].key # k
      BY <3>1, <3>2, <3>3 DEF A!Effect, A!Requests
    <3>4. CASE request[o].key = k
      BY <1>1, <3>1, <3>2, <3>4 DEF A!Effect, A!Requests, A!Kinds, Record
    <3> QED
      BY <3>3, <3>4
  <2> QED
    BY <1>1, <2>1, <2>2 DEF Next, Step, Call, LoadAndMerge, WriteTmp, SaveFails, Return,
       Crash, vars
<1>2. ReadFaults = FALSE /\ IInv /\ [Next]_vars
        => [\A k \in Keys : file[k] # None /\ file'[k] # None
              => file'[k].created = file[k].created]_vars
  BY <1>1
<1>3. CASE ReadFaults = FALSE
  BY <1>2, <1>3, StoreInductive, PTL DEF Spec, CreatedAtIsKept
<1> QED
  BY <1>3

(***************************************************************************)
(* Refinement: with reliable reads the store implements AtomicStore.       *)
(***************************************************************************)
LEMMA StoreStep ==
    ASSUME ReadFaults = FALSE, IInv, IInv', [Next]_vars
    PROVE  [Atomic!Next]_<<file, request, Abs>>
<1> USE DEF Abs, Status
<1>a. pc \in [Ops -> Steps] /\ pc' \in [Ops -> Steps]
  BY DEF IInv, TypeOK
<1>1. ASSUME NEW o \in Ops, NEW q \in A!Requests, Call(o, q)
      PROVE  Atomic!Call(o, q)
  <2>1. pc[o] = "idle" /\ pc' = [pc EXCEPT ![o] = "queued"]
    BY <1>1 DEF Call, IInv, Chain, TypeOK, Ops
  <2>2. Abs[o] = "idle" /\ Abs' = [Abs EXCEPT ![o] = "called"]
    BY <2>1, <1>a
  <2> QED
    BY <1>1, <2>2 DEF Call, Atomic!Call
<1>2. ASSUME NEW o \in Ops, LoadAndMerge(o)
      PROVE  Atomic!End({o}) \/ UNCHANGED <<file, request, Abs>>
  <2>1. UNCHANGED <<file, request>> /\ pc[o] = "queued"
    BY <1>2 DEF LoadAndMerge
  <2>2. CASE pc' = [pc EXCEPT ![o] = "done"]
    <3>1. Abs[o] = "called" /\ Abs' = [p \in Ops |-> IF p \in {o} THEN "over" ELSE Abs[p]]
      BY <1>a, <2>1, <2>2
    <3> QED
      BY <2>1, <3>1 DEF Atomic!End
  <2>3. CASE pc' = [pc EXCEPT ![o] = "save"]
    BY <1>a, <2>1, <2>3
  <2> QED
    BY <1>2, <2>2, <2>3 DEF LoadAndMerge
<1>3. ASSUME NEW o \in Ops, WriteTmp(o) PROVE UNCHANGED <<file, request, Abs>>
  BY <1>a, <1>3 DEF WriteTmp
<1>4. ASSUME NEW o \in Ops, Rename(o) PROVE Atomic!Apply(o)
  <2>1. file' = Atomic!Effect(file, o, request[o])
    BY <1>4 DEF Rename, IInv, Fresh, Merged, A!Effect, Atomic!Effect
  <2>2. Abs[o] = "called" /\ Abs' = [Abs EXCEPT ![o] = "applied"]
    BY <1>a, <1>4 DEF Rename
  <2> QED
    BY <1>4, <2>1, <2>2 DEF Rename, Atomic!Apply
<1>5. ASSUME NEW o \in Ops, SaveFails(o) \/ Return(o) PROVE Atomic!End({o})
  <2>1. /\ Abs[o] \in {"called", "applied"}
        /\ Abs' = [p \in Ops |-> IF p \in {o} THEN "over" ELSE Abs[p]]
    BY <1>a, <1>5 DEF SaveFails, Return
  <2> QED
    BY <1>5, <2>1 DEF SaveFails, Return, Atomic!End
<1>6. CASE Crash
  <2> DEFINE Lost == {o \in Ops : pc[o] \in {"queued", "save", "rename", "renamed"}}
  <2>1. /\ \A o \in Lost : Abs[o] \in {"called", "applied"}
        /\ Abs' = [p \in Ops |-> IF p \in Lost THEN "over" ELSE Abs[p]]
    BY <1>a, <1>6 DEF Crash
  <2>2. Atomic!End(Lost)
    BY <1>6, <2>1 DEF Crash, Atomic!End
  <2>3. Lost \in SUBSET Ops
    OBVIOUS
  <2> HIDE DEF Lost, Abs, Status
  <2> QED
    BY <2>2, <2>3 DEF Atomic!Next
<1>7. CASE UNCHANGED vars
  BY <1>7 DEF vars
<1>8. \A o \in Ops : {o} \in SUBSET Ops
  OBVIOUS
<1>9. A!Requests = Atomic!Requests
  BY DEF A!Requests, Atomic!Requests, A!Kinds, Atomic!Kinds
<1> HIDE DEF Abs, Status
<1> QED
  BY <1>1, <1>2, <1>3, <1>4, <1>5, <1>6, <1>7, <1>8, <1>9 DEF Next, Step, Atomic!Next

\* No update is lost or applied twice, and a crash leaves the file as some
\* operation wrote it, provided no read of the file fails.
THEOREM StoreImplements == ReadFaults = FALSE /\ Spec => ImplementsAtomicStore
<1>1. Init => Atomic!Init
  BY DEF Init, Atomic!Init, Abs, Status
<1>2. ReadFaults = FALSE /\ IInv /\ IInv' /\ [Next]_vars => [Atomic!Next]_<<file, request, Abs>>
  BY StoreStep
<1>3. CASE ReadFaults = FALSE
  BY <1>1, <1>2, <1>3, StoreInductive, PTL DEF Spec, ImplementsAtomicStore, Atomic!Spec
<1> QED
  BY <1>3
=============================================================================
