------------------------- MODULE SessionRouterProofs -------------------------
(***************************************************************************)
(* Theorems about SessionRouter for any number of conversations, calls and *)
(* children.                                                               *)
(***************************************************************************)
EXTENDS SessionRouter, TLAPS

USE DEF CallSteps, Creating, RestartSteps, ChildStates

-----------------------------------------------------------------------------
(***************************************************************************)
(* Types                                                                   *)
(***************************************************************************)

\* Setting a field of a child keeps the table of children well typed, also
\* when the index is None and nothing is set.
LEMMA ChildUpdate ==
    ASSUME NEW ch \in [Rpcs -> ChildRecord], NEW r
    PROVE  /\ \A x \in ChildStates : [ch EXCEPT ![r].state = x] \in [Rpcs -> ChildRecord]
           /\ \A x \in {"none", "first", "second"} :
                 [ch EXCEPT ![r].onExit = x] \in [Rpcs -> ChildRecord]
<1>1. CASE r \in Rpcs
  BY <1>1 DEF ChildRecord
<1>2. CASE r \notin Rpcs
  BY <1>2 DEF ChildRecord
<1>q. QED
  BY <1>1, <1>2

\* A child just spawned is a well-typed record.
LEMMA SpawnedType ==
    ASSUME NEW r \in Rpcs, NEW k \in Keys \cup {None}, NEW sid \in Rpcs \cup {None},
           NEW model \in Models \cup {None}
    PROVE  Spawned(r, k, sid, model) \in ChildRecord
BY SessionRouterAssumption DEF Spawned, ChildRecord

\* load() returns records.
LEMMA LoadedType ==
    ASSUME TypeOK, NEW k \in Keys
    PROVE  Loaded(k) \subseteq StoreRecord
BY DEF TypeOK, Loaded, NoRecord, StoreRecord

\* upsert() of what a child's ready frame says leaves a well-typed store.
LEMMA UpsertedType ==
    ASSUME TypeOK, NEW k \in Keys, NEW r \in Rpcs
    PROVE  Upserted(k, ReadyInfo(r)) \subseteq [Keys -> StoreRecord]
<1>1. ReadyInfo(r) \in StoreRecord
  BY DEF TypeOK, ReadyInfo, ChildRecord, StoreRecord
<1>2. NoRecord \in StoreRecord
  BY DEF NoRecord, StoreRecord
<1>q. QED
  BY <1>1, <1>2 DEF TypeOK, Upserted

\* Shutting children down leaves them well typed.
LEMMA ShutdownType ==
    ASSUME TypeOK, NEW ks, Shutdown(ks)
    PROVE  child' \in [Rpcs -> ChildRecord]
<1>1. ASSUME NEW r \in Rpcs PROVE child'[r] \in ChildRecord
  <2>1. [child[r] EXCEPT !.onExit = "none",
                         !.state = IF @ = "ready" THEN "stopping" ELSE @] \in ChildRecord
    BY DEF TypeOK, ChildRecord
  <2>2. child[r] \in ChildRecord
    BY DEF TypeOK
  <2>q. QED
    BY <2>1, <2>2 DEF Shutdown
<1>q. QED
  BY <1>1 DEF Shutdown

\* A shutdown touches nothing but the state and the listener of a child.
LEMMA ShutdownKeeps ==
    ASSUME TypeOK, NEW ks, Shutdown(ks)
    PROVE  /\ \A r \in Rpcs :
                /\ child'[r].key = child[r].key /\ child'[r].sid = child[r].sid
                /\ child'[r].state = "unused" <=> child[r].state = "unused"
                /\ child'[r].onExit \in {"none", child[r].onExit}
           /\ \A k \in Keys : live'[k] \in {None, live[k]}
<1>1. ASSUME NEW r \in Rpcs
      PROVE  /\ child'[r].key = child[r].key /\ child'[r].sid = child[r].sid
             /\ child'[r].state = "unused" <=> child[r].state = "unused"
             /\ child'[r].onExit \in {"none", child[r].onExit}
  <2>1. CASE \E k \in ks : live[k] = r
    <3>1. child'[r] = [child[r] EXCEPT !.onExit = "none",
                         !.state = IF @ = "ready" THEN "stopping" ELSE @]
      BY <2>1 DEF Shutdown
    <3>2. child[r] \in ChildRecord
      BY DEF TypeOK
    <3>q. QED
      BY <3>1, <3>2 DEF ChildRecord
  <2>2. CASE ~ \E k \in ks : live[k] = r
    BY <2>2 DEF Shutdown
  <2>q. QED
    BY <2>1, <2>2
<1>2. \A k \in Keys : live'[k] \in {None, live[k]}
  BY DEF Shutdown
<1>q. QED
  BY <1>1, <1>2

\* A loaded creation is still a call record, whichever session and model it found.
LEMMA LoadedCallType ==
    ASSUME NEW x \in CallRecord, NEW s \in Rpcs \cup {None}, NEW m \in Models \cup {None}
    PROVE  [x EXCEPT !.pc = "spawn", !.sid = s, !.model = m] \in CallRecord
  BY DEF CallRecord, CallSteps

\* A call stays a call record as it moves on with some child, or with none.
LEMMA CallUpdate ==
    ASSUME NEW x \in CallRecord, NEW p \in CallSteps, NEW r \in Rpcs \cup {None}
    PROVE  [x EXCEPT !.pc = p, !.rpc = r] \in CallRecord
  BY DEF CallRecord

\* Every step keeps the types, given that the references are sound.
LEMMA TypeStep ==
    ASSUME TypeOK, References, [Next]_vars
    PROVE  TypeOK'
<1>1. ASSUME NEW c \in Callers, NEW k \in Keys, LiveHit(c, k)
      PROVE  TypeOK'
  <2>1. call' \in [Callers -> CallRecord]
    BY <1>1 DEF TypeOK, CallRecord, IdleCall, LiveHit
  <2>q. QED
    BY <1>1, <2>1 DEF TypeOK, LiveHit, References, CallRefs, RestartRefs,
              ChildRefs, Owned, routerVars
<1>2. ASSUME NEW c \in Callers, NEW k \in Keys, JoinPending(c, k)
      PROVE  TypeOK'
  <2>1. call' \in [Callers -> CallRecord]
    BY <1>2 DEF TypeOK, CallRecord, IdleCall, JoinPending
  <2>q. QED
    BY <1>2, <2>1 DEF TypeOK, JoinPending, References, CallRefs, RestartRefs,
              ChildRefs, Owned, routerVars
<1>3. ASSUME NEW c \in Callers, NEW k \in Keys, NEW m \in Models \cup {None},
BeginCreate(c, k, m)
      PROVE  TypeOK'
  <2>1. call' \in [Callers -> CallRecord]
    BY <1>3 DEF TypeOK, CallRecord, IdleCall, BeginCreate
  <2>q. QED
    BY <1>3, <2>1 DEF TypeOK, BeginCreate, References, CallRefs, RestartRefs,
              ChildRefs, Owned, routerVars
<1>4. ASSUME NEW c \in Callers, CreateLoad(c)
      PROVE  TypeOK'
  <2>1. call' \in [Callers -> CallRecord]
    <3>1. Loaded(call[c].key) \subseteq StoreRecord
      BY <1>4, LoadedType DEF References, CallRefs, RestartRefs, ChildRefs, CreateLoad
    <3>2. PICK rec \in StoreRecord :
            call' = [call EXCEPT ![c] = [call[c] EXCEPT !.pc = "spawn", !.sid = rec.sid,
            !.model = IF call[c].model # None THEN call[c].model ELSE rec.model]]
      BY <1>4, <3>1 DEF CreateLoad
    <3>3. rec.sid \in Rpcs \cup {None} /\ rec.model \in Models \cup {None}
      BY DEF StoreRecord
    <3>4. (IF call[c].model # None THEN call[c].model ELSE rec.model) \in Models \cup {None}
      BY <3>3 DEF TypeOK, CallRecord
    <3>5. [call[c] EXCEPT !.pc = "spawn", !.sid = rec.sid,
            !.model = IF call[c].model # None THEN call[c].model ELSE rec.model] \in CallRecord
      <4>1. call[c] \in CallRecord
        BY DEF TypeOK
      <4>q. QED
        BY <3>3, <3>4, <4>1, LoadedCallType
    <3>q. QED
      BY <3>2, <3>5 DEF TypeOK
  <2>q. QED
    BY <1>4, <2>1 DEF TypeOK, CreateLoad, References, CallRefs, RestartRefs,
              ChildRefs, Owned, routerVars
<1>5. ASSUME NEW c \in Callers, NEW r \in Rpcs, CreateSpawn(c, r)
      PROVE  TypeOK'
  <2>1. call' \in [Callers -> CallRecord]
    <3>1. [call[c] EXCEPT !.pc = "start", !.rpc = r] \in CallRecord
      BY CallUpdate DEF TypeOK, CallSteps
    <3>q. QED
      BY <1>5, <3>1 DEF TypeOK, CreateSpawn
  <2>2. child' \in [Rpcs -> ChildRecord]
    <3>1. Spawned(r, call[c].key, call[c].sid, call[c].model) \in ChildRecord
      BY SpawnedType DEF TypeOK, CallRecord
    <3>q. QED
      BY <1>5, <3>1 DEF TypeOK, CreateSpawn
  <2>q. QED
    BY <1>5, <2>1, <2>2 DEF TypeOK, CreateSpawn, References, CallRefs, RestartRefs,
              ChildRefs, Owned, routerVars
<1>6. ASSUME NEW c \in Callers, CreateReady(c)
      PROVE  TypeOK'
  <2>1. call' \in [Callers -> CallRecord]
    BY SMTT(120), <1>6 DEF TypeOK, CallRecord, IdleCall, CreateReady
  <2>2. child' \in [Rpcs -> ChildRecord]
    BY <1>6, ChildUpdate DEF TypeOK, CreateReady
  <2>q. QED
    BY <1>6, <2>1, <2>2 DEF TypeOK, CreateReady, References, CallRefs, RestartRefs,
              ChildRefs, Owned, routerVars
<1>7. ASSUME NEW c \in Callers, CreateSpawnFails(c)
      PROVE  TypeOK'
  <2>1. call' \in [Callers -> CallRecord]
    BY <1>7 DEF TypeOK, CallRecord, IdleCall, CreateSpawnFails
  <2>q. QED
    BY <1>7, <2>1 DEF TypeOK, CreateSpawnFails, References, CallRefs, RestartRefs,
              ChildRefs, Owned, routerVars
<1>8. ASSUME NEW c \in Callers, NEW fate \in {"gone", "lost"}, CreateStartFails(c, fate)
      PROVE  TypeOK'
  <2>1. call' \in [Callers -> CallRecord]
    <3>1. [call[c] EXCEPT !.pc = "settle", !.rpc = None] \in CallRecord
      BY CallUpdate DEF TypeOK, CallSteps
    <3>q. QED
      BY <1>8, <3>1 DEF TypeOK, CreateStartFails
  <2>2. child' \in [Rpcs -> ChildRecord]
    BY <1>8, ChildUpdate DEF TypeOK, CreateStartFails
  <2>q. QED
    BY <1>8, <2>1, <2>2 DEF TypeOK, CreateStartFails, References, CallRefs, RestartRefs,
              ChildRefs, Owned, routerVars
<1>9. ASSUME NEW c \in Callers, CreateUpsert(c)
      PROVE  TypeOK'
  <2>1. call' \in [Callers -> CallRecord]
    BY <1>9 DEF TypeOK, CallRecord, IdleCall, CreateUpsert
  <2>2. child' \in [Rpcs -> ChildRecord]
    BY <1>9, ChildUpdate DEF TypeOK, CreateUpsert
  <2>3. store' \in [Keys -> StoreRecord]
    BY <1>9, UpsertedType DEF TypeOK, References, CallRefs, RestartRefs, ChildRefs,
       Owned, CreateUpsert
  <2>q. QED
    BY <1>9, <2>1, <2>2, <2>3 DEF TypeOK, CreateUpsert, References, CallRefs,
       RestartRefs,
              ChildRefs, Owned, routerVars
<1>10. ASSUME NEW c \in Callers, CreateUpsertFails(c)
      PROVE  TypeOK'
  <2>1. call' \in [Callers -> CallRecord]
    <3>1. [call[c] EXCEPT !.pc = "settle", !.rpc = None] \in CallRecord
      BY CallUpdate DEF TypeOK, CallSteps
    <3>q. QED
      BY <1>10, <3>1 DEF TypeOK, CreateUpsertFails
  <2>q. QED
    BY <1>10, <2>1 DEF TypeOK, CreateUpsertFails, References, CallRefs, RestartRefs,
              ChildRefs, Owned, routerVars
<1>11. ASSUME NEW c \in Callers, CreateSettle(c)
      PROVE  TypeOK'
  <2>1. call' \in [Callers -> CallRecord]
    BY <1>11 DEF TypeOK, CallRecord, IdleCall, CreateSettle
  <2>q. QED
    BY <1>11, <2>1 DEF TypeOK, CreateSettle, References, CallRefs, RestartRefs,
              ChildRefs, Owned, routerVars
<1>12. ASSUME NEW c \in Callers, NEW record \in BOOLEAN, Finish(c, record)
      PROVE  TypeOK'
  <2>1. call' \in [Callers -> CallRecord]
    BY <1>12 DEF TypeOK, CallRecord, IdleCall, Finish
  <2>q. QED
    BY <1>12, <2>1 DEF TypeOK, Finish, References, CallRefs, RestartRefs,
              ChildRefs, Owned, routerVars
<1>13. ASSUME NEW r \in Rpcs, RestartLoad(r)
      PROVE  TypeOK'
  <2>1. restart' \in [Rpcs -> RestartRecord]
    <3>1. Loaded(child[r].key) \subseteq StoreRecord
      BY <1>13, LoadedType DEF References, CallRefs, RestartRefs, ChildRefs, RestartLoad
    <3>2. PICK rec \in StoreRecord :
            restart' = [restart EXCEPT ![r] = [restart[r] EXCEPT !.pc = "spawn",
            !.sid = rec.sid]]
      BY <1>13, <3>1 DEF RestartLoad
    <3>3. rec.sid \in Rpcs \cup {None} /\ rec.model \in Models \cup {None}
      BY DEF StoreRecord
    <3>5. [restart[r] EXCEPT !.pc = "spawn", !.sid = rec.sid] \in RestartRecord
      BY <3>3 DEF TypeOK, RestartRecord
    <3>q. QED
      BY <3>2, <3>5 DEF TypeOK
  <2>q. QED
    BY <1>13, <2>1 DEF TypeOK, RestartLoad, References, CallRefs, RestartRefs,
              ChildRefs, Owned, routerVars
<1>14. ASSUME NEW r \in Rpcs, NEW n \in Rpcs, RestartSpawn(r, n)
      PROVE  TypeOK'
  <2>1. restart' \in [Rpcs -> RestartRecord]
    BY <1>14 DEF TypeOK, RestartRecord, RestartSpawn
  <2>2. child' \in [Rpcs -> ChildRecord]
    <3>1. Spawned(n, child[r].key, restart[r].sid, None) \in ChildRecord
      BY SpawnedType DEF TypeOK, ChildRecord, RestartRecord
    <3>q. QED
      BY <1>14, <3>1 DEF TypeOK, RestartSpawn
  <2>q. QED
    BY <1>14, <2>1, <2>2 DEF TypeOK, RestartSpawn, References, CallRefs, RestartRefs,
              ChildRefs, Owned, routerVars
<1>15. ASSUME NEW r \in Rpcs, RestartReady(r)
      PROVE  TypeOK'
  <2>1. restart' \in [Rpcs -> RestartRecord]
    BY <1>15 DEF TypeOK, RestartRecord, RestartReady
  <2>2. child' \in [Rpcs -> ChildRecord]
    BY <1>15, ChildUpdate DEF TypeOK, RestartReady
  <2>q. QED
    BY <1>15, <2>1, <2>2 DEF TypeOK, RestartReady, References, CallRefs, RestartRefs,
              ChildRefs, Owned, routerVars
<1>16. ASSUME NEW r \in Rpcs, RestartSpawnFails(r)
      PROVE  TypeOK'
  <2>1. restart' \in [Rpcs -> RestartRecord]
    BY <1>16 DEF TypeOK, RestartRecord, RestartSpawnFails
  <2>q. QED
    BY <1>16, <2>1 DEF TypeOK, RestartSpawnFails, References, CallRefs, RestartRefs,
              ChildRefs, Owned, routerVars
<1>17. ASSUME NEW r \in Rpcs, NEW fate \in {"gone", "lost"}, RestartStartFails(r, fate)
      PROVE  TypeOK'
  <2>1. restart' \in [Rpcs -> RestartRecord]
    BY <1>17 DEF TypeOK, RestartRecord, RestartStartFails
  <2>2. child' \in [Rpcs -> ChildRecord]
    BY <1>17, ChildUpdate DEF TypeOK, RestartStartFails
  <2>q. QED
    BY <1>17, <2>1, <2>2 DEF TypeOK, RestartStartFails, References, CallRefs,
       RestartRefs,
              ChildRefs, Owned, routerVars
<1>18. ASSUME NEW r \in Rpcs, NEW saved \in BOOLEAN, RestartUpsert(r, saved)
      PROVE  TypeOK'
  <2>1. restart' \in [Rpcs -> RestartRecord]
    BY <1>18 DEF TypeOK, RestartRecord, RestartUpsert
  <2>2. child' \in [Rpcs -> ChildRecord]
    BY <1>18, ChildUpdate DEF TypeOK, RestartUpsert
  <2>3. store' \in [Keys -> StoreRecord]
    BY <1>18, UpsertedType DEF TypeOK, References, CallRefs, RestartRefs, ChildRefs,
       Owned, RestartUpsert
  <2>q. QED
    BY <1>18, <2>1, <2>2, <2>3 DEF TypeOK, RestartUpsert, References, CallRefs,
       RestartRefs,
              ChildRefs, Owned, routerVars
<1>19. ASSUME NEW r \in Rpcs, NEW clean \in BOOLEAN, Exit(r, clean)
      PROVE  TypeOK'
  <2>1. restart' \in [Rpcs -> RestartRecord]
    BY <1>19 DEF TypeOK, RestartRecord, Exit
  <2>2. child' \in [Rpcs -> ChildRecord]
    <3>1. child[r] \in ChildRecord
      BY DEF TypeOK
    <3>2. \A s \in ChildStates, e \in {"none", "first", "second"} :
            [child[r] EXCEPT !.state = s, !.onExit = e] \in ChildRecord
      BY <3>1 DEF ChildRecord
    <3>q. QED
      BY <1>19, <3>1, <3>2 DEF TypeOK, Exit, ChildStates
  <2>q. QED
    BY <1>19, <2>1, <2>2 DEF TypeOK, Exit, Unrouted, References, CallRefs, RestartRefs,
              ChildRefs, Owned, routerVars
<1>20. ASSUME NEW r \in Rpcs, UnheardExit(r)
      PROVE  TypeOK'
  <2>1. child' \in [Rpcs -> ChildRecord]
    BY <1>20 DEF TypeOK, ChildRecord, UnheardExit
  <2>q. QED
    BY <1>20, <2>1 DEF TypeOK, UnheardExit, References, CallRefs, RestartRefs,
              ChildRefs, Owned, routerVars
<1>21. ASSUME NEW k \in Keys, CloseSession(k)
      PROVE  TypeOK'
  <2>1. child' \in [Rpcs -> ChildRecord]
    BY <1>21, ShutdownType DEF CloseSession
  <2>q. QED
    BY <1>21, <2>1 DEF TypeOK, CloseSession, Shutdown, References, CallRefs,
       RestartRefs,
              ChildRefs, Owned, routerVars
<1>22. ASSUME ReapIdle
      PROVE  TypeOK'
  <2>1. child' \in [Rpcs -> ChildRecord]
    BY <1>22, ShutdownType DEF ReapIdle
  <2>q. QED
    BY <1>22, <2>1 DEF TypeOK, ReapIdle, Shutdown, References, CallRefs, RestartRefs,
              ChildRefs, Owned, routerVars
<1>23. ASSUME NEW k \in Keys, TtlPasses(k)
      PROVE  TypeOK'
  BY <1>23 DEF TypeOK, TtlPasses
<1>24. ASSUME Stop
      PROVE  TypeOK'
  <2>1. child' \in [Rpcs -> ChildRecord]
    BY <1>24, ShutdownType DEF Stop
  <2>q. QED
    BY <1>24, <2>1 DEF TypeOK, Stop, Shutdown, References, CallRefs, RestartRefs,
              ChildRefs, Owned, routerVars
<1>25. ASSUME DaemonRestart
      PROVE  TypeOK'
  <2>1. call' \in [Callers -> CallRecord]
    BY <1>25 DEF TypeOK, CallRecord, IdleCall, DaemonRestart
  <2>2. child' \in [Rpcs -> ChildRecord]
    <3>1. ASSUME NEW q \in Rpcs
          PROVE  child'[q] \in ChildRecord
      <4>1. child[q] \in ChildRecord
        BY DEF TypeOK
      <4>2. [child[q] EXCEPT !.state = "gone", !.onExit = "none"] \in ChildRecord
        BY <4>1 DEF ChildRecord, ChildStates
      <4>3. child'[q] \in {child[q],
                            [child[q] EXCEPT !.state = "gone", !.onExit = "none"]}
        BY <1>25 DEF DaemonRestart
      <4>q. QED
        BY <4>1, <4>2, <4>3
    <3>q. QED
      BY <1>25, <3>1 DEF DaemonRestart
  <2>3. restart' \in [Rpcs -> RestartRecord]
    <3>1. restart' = [r \in Rpcs |->
                       IF restart[r].pc \in {"load", "spawn", "start", "upsert"}
                       THEN [restart[r] EXCEPT !.pc = "failed"] ELSE restart[r]]
      BY <1>25, Zenon DEF DaemonRestart
    <3>2. \A r \in Rpcs : restart[r] \in RestartRecord
      BY DEF TypeOK
    <3>q. QED
      BY <3>1, <3>2 DEF RestartRecord
  <2>q. QED
    BY <1>25, <2>1, <2>2, <2>3 DEF TypeOK, DaemonRestart, References, CallRefs,
       RestartRefs,
              ChildRefs, Owned, routerVars
<1>26. ASSUME UNCHANGED vars
      PROVE  TypeOK'
  BY <1>26 DEF TypeOK, vars
<1>q. QED
  BY <1>1, <1>2, <1>3, <1>4, <1>5, <1>6, <1>7, <1>8, <1>9, <1>10, <1>11, <1>12, <1>13,
     <1>14, <1>15, <1>16, <1>17, <1>18, <1>19, <1>20, <1>21, <1>22, <1>23, <1>24,
     <1>25, <1>26
     DEF Next, Create, Restart

-----------------------------------------------------------------------------
(***************************************************************************)
(* References                                                              *)
(***************************************************************************)

\* A child built for a key stays built for it and keeps its session.
LEMMA OwnedStable ==
    ASSUME TypeOK, [Next]_vars
    PROVE  \A r, k : Owned(r, k) => Owned(r, k)' /\ child'[r].sid = child[r].sid
<1> DEFINE Kept(q) == /\ child'[q].state # "unused" /\ child'[q].key = child[q].key
                      /\ child'[q].sid = child[q].sid
<1>0. SUFFICES ASSUME NEW q \in Rpcs, child[q].state # "unused"
               PROVE  Kept(q)
  BY DEF Owned
<1>1. ASSUME NEW c \in Callers, NEW k \in Keys, LiveHit(c, k)
      PROVE  Kept(q)
  BY <1>0, <1>1 DEF LiveHit
<1>2. ASSUME NEW c \in Callers, NEW k \in Keys, JoinPending(c, k)
      PROVE  Kept(q)
  BY <1>0, <1>2 DEF JoinPending
<1>3. ASSUME NEW c \in Callers, NEW k \in Keys, NEW m \in Models \cup {None},
BeginCreate(c, k, m)
      PROVE  Kept(q)
  BY <1>0, <1>3 DEF BeginCreate
<1>4. ASSUME NEW c \in Callers, CreateLoad(c)
      PROVE  Kept(q)
  BY <1>0, <1>4 DEF CreateLoad
<1>5. ASSUME NEW c \in Callers, NEW r \in Rpcs, CreateSpawn(c, r)
      PROVE  Kept(q)
  BY <1>0, <1>5 DEF TypeOK, ChildRecord, CreateSpawn
<1>6. ASSUME NEW c \in Callers, CreateReady(c)
      PROVE  Kept(q)
  BY <1>0, <1>6 DEF TypeOK, ChildRecord, CreateReady
<1>7. ASSUME NEW c \in Callers, CreateSpawnFails(c)
      PROVE  Kept(q)
  BY <1>0, <1>7 DEF CreateSpawnFails
<1>8. ASSUME NEW c \in Callers, NEW fate \in {"gone", "lost"}, CreateStartFails(c, fate)
      PROVE  Kept(q)
  BY <1>0, <1>8 DEF TypeOK, ChildRecord, CreateStartFails
<1>9. ASSUME NEW c \in Callers, CreateUpsert(c)
      PROVE  Kept(q)
  BY <1>0, <1>9 DEF TypeOK, ChildRecord, CreateUpsert
<1>10. ASSUME NEW c \in Callers, CreateUpsertFails(c)
      PROVE  Kept(q)
  BY <1>0, <1>10 DEF CreateUpsertFails
<1>11. ASSUME NEW c \in Callers, CreateSettle(c)
      PROVE  Kept(q)
  BY <1>0, <1>11 DEF CreateSettle
<1>12. ASSUME NEW c \in Callers, NEW record \in BOOLEAN, Finish(c, record)
      PROVE  Kept(q)
  BY <1>0, <1>12 DEF Finish
<1>13. ASSUME NEW r \in Rpcs, RestartLoad(r)
      PROVE  Kept(q)
  BY <1>0, <1>13 DEF RestartLoad
<1>14. ASSUME NEW r \in Rpcs, NEW n \in Rpcs, RestartSpawn(r, n)
      PROVE  Kept(q)
  BY <1>0, <1>14 DEF TypeOK, ChildRecord, RestartSpawn
<1>15. ASSUME NEW r \in Rpcs, RestartReady(r)
      PROVE  Kept(q)
  BY <1>0, <1>15 DEF TypeOK, ChildRecord, RestartReady
<1>16. ASSUME NEW r \in Rpcs, RestartSpawnFails(r)
      PROVE  Kept(q)
  BY <1>0, <1>16 DEF RestartSpawnFails
<1>17. ASSUME NEW r \in Rpcs, NEW fate \in {"gone", "lost"}, RestartStartFails(r, fate)
      PROVE  Kept(q)
  BY <1>0, <1>17 DEF TypeOK, ChildRecord, RestartStartFails
<1>18. ASSUME NEW r \in Rpcs, NEW saved \in BOOLEAN, RestartUpsert(r, saved)
      PROVE  Kept(q)
  BY <1>0, <1>18 DEF TypeOK, ChildRecord, RestartUpsert
<1>19. ASSUME NEW r \in Rpcs, NEW clean \in BOOLEAN, Exit(r, clean)
      PROVE  Kept(q)
  BY <1>0, <1>19 DEF TypeOK, ChildRecord, Exit
<1>20. ASSUME NEW r \in Rpcs, UnheardExit(r)
      PROVE  Kept(q)
  BY <1>0, <1>20 DEF TypeOK, ChildRecord, UnheardExit
<1>21. ASSUME NEW k \in Keys, CloseSession(k)
      PROVE  Kept(q)
  BY <1>0, <1>21, ShutdownKeeps DEF CloseSession
<1>22. ASSUME ReapIdle
      PROVE  Kept(q)
  BY <1>0, <1>22, ShutdownKeeps DEF ReapIdle
<1>23. ASSUME NEW k \in Keys, TtlPasses(k)
      PROVE  Kept(q)
  BY <1>0, <1>23 DEF TtlPasses
<1>24. ASSUME Stop
      PROVE  Kept(q)
  BY <1>0, <1>24, ShutdownKeeps DEF Stop
<1>25. ASSUME DaemonRestart
      PROVE  Kept(q)
  BY <1>0, <1>25 DEF TypeOK, ChildRecord, DaemonRestart
<1>26. ASSUME UNCHANGED vars
      PROVE  Kept(q)
  BY <1>0, <1>26 DEF vars
<1>q. QED
  BY <1>1, <1>2, <1>3, <1>4, <1>5, <1>6, <1>7, <1>8, <1>9, <1>10, <1>11, <1>12, <1>13,
     <1>14, <1>15, <1>16, <1>17, <1>18, <1>19, <1>20, <1>21, <1>22, <1>23, <1>24,
     <1>25, <1>26
     DEF Next, Create, Restart

\* Every step keeps the references sound.
LEMMA ReferencesStep ==
    ASSUME TypeOK, References, [Next]_vars
    PROVE  References'
<1>0. \A r, k : Owned(r, k) => Owned(r, k)'
  BY OwnedStable
<1>1. ASSUME NEW c \in Callers, NEW k \in Keys, LiveHit(c, k)
      PROVE  References'
  BY <1>0, <1>1
     DEF TypeOK, CallRecord, RestartRecord, References, ChildRefs, LiveRefs, CallRefs,
         RestartRefs, Owned, LiveHit, IdleCall, routerVars
<1>2. ASSUME NEW c \in Callers, NEW k \in Keys, JoinPending(c, k)
      PROVE  References'
  BY <1>0, <1>2
     DEF TypeOK, CallRecord, RestartRecord, References, ChildRefs, LiveRefs, CallRefs,
         RestartRefs, Owned, JoinPending, IdleCall, routerVars
<1>3. ASSUME NEW c \in Callers, NEW k \in Keys, NEW m \in Models \cup {None},
BeginCreate(c, k, m)
      PROVE  References'
  BY <1>0, <1>3
     DEF TypeOK, CallRecord, RestartRecord, References, ChildRefs, LiveRefs, CallRefs,
         RestartRefs, Owned, BeginCreate, IdleCall, routerVars
<1>4. ASSUME NEW c \in Callers, CreateLoad(c)
      PROVE  References'
  BY <1>0, <1>4
     DEF TypeOK, CallRecord, RestartRecord, References, ChildRefs, LiveRefs, CallRefs,
         RestartRefs, Owned, CreateLoad, routerVars
<1>5. ASSUME NEW c \in Callers, NEW r \in Rpcs, CreateSpawn(c, r)
      PROVE  References'
  <2>1. ChildRefs'
    BY <1>5 DEF References, ChildRefs, CallRefs, RestartRefs, ChildRecord, TypeOK,
       Owned, CreateSpawn, Spawned, routerVars
  <2>2. LiveRefs'
    BY <1>0, <1>5 DEF References, LiveRefs, CallRefs, RestartRefs, TypeOK, Owned,
       CreateSpawn, Spawned, routerVars
  <2>3. CallRefs'
    BY <1>0, <1>5 DEF References, CallRefs, LiveRefs, CallRecord, TypeOK, Owned,
       CreateSpawn, Spawned, routerVars
  <2>4. RestartRefs'
    BY <1>0, <1>5 DEF References, RestartRefs, ChildRefs, ChildRecord, RestartRecord,
       TypeOK, Owned, CreateSpawn, Spawned, routerVars
  <2>q. QED
    BY <2>1, <2>2, <2>3, <2>4 DEF References
<1>6. ASSUME NEW c \in Callers, CreateReady(c)
      PROVE  References'
  <2>1. ChildRefs'
    BY <1>6 DEF References, ChildRefs, CallRefs, RestartRefs, ChildRecord, TypeOK,
       Owned, CreateReady, routerVars
  <2>2. LiveRefs'
    BY <1>0, <1>6 DEF References, LiveRefs, CallRefs, RestartRefs, TypeOK, Owned,
       CreateReady, routerVars
  <2>3. CallRefs'
    BY <1>0, <1>6 DEF References, CallRefs, LiveRefs, CallRecord, TypeOK, Owned,
       CreateReady, routerVars
  <2>4. RestartRefs'
    BY <1>0, <1>6 DEF References, RestartRefs, ChildRefs, ChildRecord, RestartRecord,
       TypeOK, Owned, CreateReady, routerVars
  <2>q. QED
    BY <2>1, <2>2, <2>3, <2>4 DEF References
<1>7. ASSUME NEW c \in Callers, CreateSpawnFails(c)
      PROVE  References'
  BY <1>0, <1>7
     DEF TypeOK, CallRecord, RestartRecord, References, ChildRefs, LiveRefs, CallRefs,
         RestartRefs, Owned, CreateSpawnFails, routerVars
<1>8. ASSUME NEW c \in Callers, NEW fate \in {"gone", "lost"}, CreateStartFails(c, fate)
      PROVE  References'
  <2>1. ChildRefs'
    BY <1>8 DEF References, ChildRefs, CallRefs, RestartRefs, ChildRecord, TypeOK,
       Owned, CreateStartFails, routerVars
  <2>2. LiveRefs'
    BY <1>0, <1>8 DEF References, LiveRefs, CallRefs, RestartRefs, TypeOK, Owned,
       CreateStartFails, routerVars
  <2>3. CallRefs'
    BY <1>0, <1>8 DEF References, CallRefs, LiveRefs, CallRecord, TypeOK, Owned,
       CreateStartFails, routerVars
  <2>4. RestartRefs'
    BY <1>0, <1>8 DEF References, RestartRefs, ChildRefs, ChildRecord, RestartRecord,
       TypeOK, Owned, CreateStartFails, routerVars
  <2>q. QED
    BY <2>1, <2>2, <2>3, <2>4 DEF References
<1>9. ASSUME NEW c \in Callers, CreateUpsert(c)
      PROVE  References'
  <2>1. ChildRefs'
    BY <1>9 DEF References, ChildRefs, CallRefs, RestartRefs, ChildRecord, TypeOK,
       Owned, CreateUpsert, routerVars
  <2>2. LiveRefs'
    BY <1>0, <1>9 DEF References, LiveRefs, CallRefs, RestartRefs, TypeOK, Owned,
       CreateUpsert, routerVars
  <2>3. CallRefs'
    BY <1>0, <1>9 DEF References, CallRefs, LiveRefs, CallRecord, TypeOK, Owned,
       CreateUpsert, routerVars
  <2>4. RestartRefs'
    BY <1>0, <1>9 DEF References, RestartRefs, ChildRefs, ChildRecord, RestartRecord,
       TypeOK, Owned, CreateUpsert, routerVars
  <2>q. QED
    BY <2>1, <2>2, <2>3, <2>4 DEF References
<1>10. ASSUME NEW c \in Callers, CreateUpsertFails(c)
      PROVE  References'
  BY <1>0, <1>10
     DEF TypeOK, CallRecord, RestartRecord, References, ChildRefs, LiveRefs, CallRefs,
         RestartRefs, Owned, CreateUpsertFails, routerVars
<1>11. ASSUME NEW c \in Callers, CreateSettle(c)
      PROVE  References'
  BY <1>0, <1>11
     DEF TypeOK, CallRecord, RestartRecord, References, ChildRefs, LiveRefs, CallRefs,
         RestartRefs, Owned, CreateSettle, IdleCall, routerVars
<1>12. ASSUME NEW c \in Callers, NEW record \in BOOLEAN, Finish(c, record)
      PROVE  References'
  BY <1>0, <1>12
     DEF TypeOK, CallRecord, RestartRecord, References, ChildRefs, LiveRefs, CallRefs,
         RestartRefs, Owned, Finish, IdleCall, routerVars
<1>13. ASSUME NEW r \in Rpcs, RestartLoad(r)
      PROVE  References'
  BY <1>0, <1>13
     DEF TypeOK, CallRecord, RestartRecord, References, ChildRefs, LiveRefs, CallRefs,
         RestartRefs, Owned, RestartLoad, routerVars
<1>14. ASSUME NEW r \in Rpcs, NEW n \in Rpcs, RestartSpawn(r, n)
      PROVE  References'
  <2>1. ChildRefs'
    BY <1>14 DEF References, ChildRefs, CallRefs, RestartRefs, ChildRecord, TypeOK,
       Owned, RestartSpawn, Spawned, routerVars
  <2>2. LiveRefs'
    BY <1>0, <1>14 DEF References, LiveRefs, CallRefs, RestartRefs, TypeOK, Owned,
       RestartSpawn, Spawned, routerVars
  <2>3. CallRefs'
    BY <1>0, <1>14 DEF References, CallRefs, LiveRefs, CallRecord, TypeOK, Owned,
       RestartSpawn, Spawned, routerVars
  <2>4. RestartRefs'
    BY <1>0, <1>14 DEF References, RestartRefs, ChildRefs, ChildRecord, RestartRecord,
       TypeOK, Owned, RestartSpawn, Spawned, routerVars
  <2>q. QED
    BY <2>1, <2>2, <2>3, <2>4 DEF References
<1>15. ASSUME NEW r \in Rpcs, RestartReady(r)
      PROVE  References'
  <2>1. ChildRefs'
    BY <1>15 DEF References, ChildRefs, CallRefs, RestartRefs, ChildRecord, TypeOK,
       Owned, RestartReady, routerVars
  <2>2. LiveRefs'
    BY <1>0, <1>15 DEF References, LiveRefs, CallRefs, RestartRefs, TypeOK, Owned,
       RestartReady, routerVars
  <2>3. CallRefs'
    BY <1>0, <1>15 DEF References, CallRefs, LiveRefs, CallRecord, TypeOK, Owned,
       RestartReady, routerVars
  <2>4. RestartRefs'
    BY <1>0, <1>15 DEF References, RestartRefs, ChildRefs, ChildRecord, RestartRecord,
       TypeOK, Owned, RestartReady, routerVars
  <2>q. QED
    BY <2>1, <2>2, <2>3, <2>4 DEF References
<1>16. ASSUME NEW r \in Rpcs, RestartSpawnFails(r)
      PROVE  References'
  BY <1>0, <1>16
     DEF TypeOK, CallRecord, RestartRecord, References, ChildRefs, LiveRefs, CallRefs,
         RestartRefs, Owned, RestartSpawnFails, routerVars
<1>17. ASSUME NEW r \in Rpcs, NEW fate \in {"gone", "lost"}, RestartStartFails(r, fate)
      PROVE  References'
  <2>1. ChildRefs'
    BY <1>17 DEF References, ChildRefs, CallRefs, RestartRefs, ChildRecord, TypeOK,
       Owned, RestartStartFails, routerVars
  <2>2. LiveRefs'
    BY <1>0, <1>17 DEF References, LiveRefs, CallRefs, RestartRefs, TypeOK, Owned,
       RestartStartFails, routerVars
  <2>3. CallRefs'
    BY <1>0, <1>17 DEF References, CallRefs, LiveRefs, CallRecord, TypeOK, Owned,
       RestartStartFails, routerVars
  <2>4. RestartRefs'
    BY <1>0, <1>17 DEF References, RestartRefs, ChildRefs, ChildRecord, RestartRecord,
       TypeOK, Owned, RestartStartFails, routerVars
  <2>q. QED
    BY <2>1, <2>2, <2>3, <2>4 DEF References
<1>18. ASSUME NEW r \in Rpcs, NEW saved \in BOOLEAN, RestartUpsert(r, saved)
      PROVE  References'
  <2>1. ChildRefs'
    BY <1>18 DEF References, ChildRefs, CallRefs, RestartRefs, ChildRecord, TypeOK,
       Owned, RestartUpsert, routerVars
  <2>2. LiveRefs'
    BY <1>0, <1>18 DEF References, LiveRefs, CallRefs, RestartRefs, TypeOK, Owned,
       RestartUpsert, routerVars
  <2>3. CallRefs'
    BY <1>0, <1>18 DEF References, CallRefs, LiveRefs, CallRecord, TypeOK, Owned,
       RestartUpsert, routerVars
  <2>4. RestartRefs'
    BY <1>0, <1>18 DEF References, RestartRefs, ChildRefs, ChildRecord, RestartRecord,
       TypeOK, Owned, RestartUpsert, routerVars
  <2>q. QED
    BY <2>1, <2>2, <2>3, <2>4 DEF References
<1>19. ASSUME NEW r \in Rpcs, NEW clean \in BOOLEAN, Exit(r, clean)
      PROVE  References'
  <2>1. ChildRefs'
    BY <1>19 DEF References, ChildRefs, CallRefs, RestartRefs, ChildRecord, TypeOK,
       Owned, Exit, Unrouted, routerVars
  <2>2. LiveRefs'
    BY <1>0, <1>19 DEF References, LiveRefs, CallRefs, RestartRefs, TypeOK, Owned,
       Exit, Unrouted, routerVars
  <2>3. CallRefs'
    BY <1>0, <1>19 DEF References, CallRefs, LiveRefs, CallRecord, TypeOK, Owned, Exit,
       Unrouted, routerVars
  <2>4. RestartRefs'
    BY <1>0, <1>19 DEF References, RestartRefs, ChildRefs, ChildRecord, RestartRecord,
       TypeOK, Owned, Exit, Unrouted, routerVars
  <2>q. QED
    BY <2>1, <2>2, <2>3, <2>4 DEF References
<1>20. ASSUME NEW r \in Rpcs, UnheardExit(r)
      PROVE  References'
  <2>1. ChildRefs'
    BY <1>20 DEF References, ChildRefs, CallRefs, RestartRefs, ChildRecord, TypeOK,
       Owned, UnheardExit, routerVars
  <2>2. LiveRefs'
    BY <1>0, <1>20 DEF References, LiveRefs, CallRefs, RestartRefs, TypeOK, Owned,
       UnheardExit, routerVars
  <2>3. CallRefs'
    BY <1>0, <1>20 DEF References, CallRefs, LiveRefs, CallRecord, TypeOK, Owned,
       UnheardExit, routerVars
  <2>4. RestartRefs'
    BY <1>0, <1>20 DEF References, RestartRefs, ChildRefs, ChildRecord, RestartRecord,
       TypeOK, Owned, UnheardExit, routerVars
  <2>q. QED
    BY <2>1, <2>2, <2>3, <2>4 DEF References
<1>21. ASSUME NEW k \in Keys, CloseSession(k)
      PROVE  References'
  <2>0. /\ \A r \in Rpcs : /\ child'[r].key = child[r].key
                           /\ child'[r].state = "unused" <=> child[r].state = "unused"
        /\ \A j \in Keys : live'[j] \in {None, live[j]}
    BY <1>21, ShutdownKeeps DEF CloseSession
  <2>1. ChildRefs'
    BY <2>0 DEF References, ChildRefs
  <2>2. LiveRefs'
    BY <1>0, <2>0 DEF References, LiveRefs
  <2>3. CallRefs'
    BY <1>0, <1>21 DEF References, CallRefs, CloseSession
  <2>4. RestartRefs'
    BY <1>0, <1>21, <2>0 DEF References, RestartRefs, CloseSession
  <2>q. QED
    BY <2>1, <2>2, <2>3, <2>4 DEF References
<1>22. ASSUME ReapIdle
      PROVE  References'
  <2>0. /\ \A r \in Rpcs : /\ child'[r].key = child[r].key
                           /\ child'[r].state = "unused" <=> child[r].state = "unused"
        /\ \A j \in Keys : live'[j] \in {None, live[j]}
    BY <1>22, ShutdownKeeps DEF ReapIdle
  <2>1. ChildRefs'
    BY <2>0 DEF References, ChildRefs
  <2>2. LiveRefs'
    BY <1>0, <2>0 DEF References, LiveRefs
  <2>3. CallRefs'
    BY <1>0, <1>22 DEF References, CallRefs, ReapIdle
  <2>4. RestartRefs'
    BY <1>0, <1>22, <2>0 DEF References, RestartRefs, ReapIdle
  <2>q. QED
    BY <2>1, <2>2, <2>3, <2>4 DEF References
<1>23. ASSUME NEW k \in Keys, TtlPasses(k)
      PROVE  References'
  BY <1>0, <1>23
     DEF TypeOK, CallRecord, RestartRecord, References, ChildRefs, LiveRefs, CallRefs,
         RestartRefs, Owned, TtlPasses, routerVars
<1>24. ASSUME Stop
      PROVE  References'
  <2>0. /\ \A r \in Rpcs : /\ child'[r].key = child[r].key
                           /\ child'[r].state = "unused" <=> child[r].state = "unused"
        /\ \A j \in Keys : live'[j] \in {None, live[j]}
    BY <1>24, ShutdownKeeps DEF Stop
  <2>1. ChildRefs'
    BY <2>0 DEF References, ChildRefs
  <2>2. LiveRefs'
    BY <1>0, <2>0 DEF References, LiveRefs
  <2>3. CallRefs'
    BY <1>0, <1>24 DEF References, CallRefs, Stop
  <2>4. RestartRefs'
    BY <1>0, <1>24, <2>0 DEF References, RestartRefs, Stop
  <2>q. QED
    BY <2>1, <2>2, <2>3, <2>4 DEF References
<1>25. ASSUME DaemonRestart
      PROVE  References'
  <2>0. /\ \A r \in Rpcs : /\ child'[r].key = child[r].key
                           /\ child'[r].state = "unused" <=> child[r].state = "unused"
        /\ \A k \in Keys : live'[k] = None
    <3>1. ASSUME NEW r \in Rpcs
          PROVE  /\ child'[r].key = child[r].key
                 /\ child'[r].state = "unused" <=> child[r].state = "unused"
      BY <1>25 DEF TypeOK, ChildRecord, DaemonRestart
    <3>q. QED
      BY <1>25, <3>1 DEF DaemonRestart
  <2>1. ChildRefs'
    BY <2>0 DEF References, ChildRefs
  <2>2. LiveRefs'
    BY <1>0, <2>0 DEF References, LiveRefs
  <2>3. CallRefs'
    BY <1>0, <1>25 DEF References, CallRefs, DaemonRestart, IdleCall
  <2>4. RestartRefs'
    <3>1. ASSUME NEW r \in Rpcs
          PROVE  /\ restart'[r].pc # "none" => restart[r].pc # "none"
                 /\ restart'[r].pc \notin {"start", "upsert"}
      BY <1>25 DEF TypeOK, RestartRecord, DaemonRestart
    <3>q. QED
      BY <2>0, <3>1 DEF References, RestartRefs
  <2>q. QED
    BY <2>1, <2>2, <2>3, <2>4 DEF References
<1>26. ASSUME UNCHANGED vars
      PROVE  References'
  BY <1>0, <1>26
     DEF TypeOK, CallRecord, RestartRecord, References, ChildRefs, LiveRefs, CallRefs,
         RestartRefs, Owned, vars, routerVars
<1>q. QED
  BY <1>1, <1>2, <1>3, <1>4, <1>5, <1>6, <1>7, <1>8, <1>9, <1>10, <1>11, <1>12, <1>13,
     <1>14, <1>15, <1>16, <1>17, <1>18, <1>19, <1>20, <1>21, <1>22, <1>23, <1>24,
     <1>25, <1>26
     DEF Next, Create, Restart

-----------------------------------------------------------------------------
(***************************************************************************)
(* Promises                                                                *)
(***************************************************************************)

\* Every step keeps _pending and the calls in agreement.
LEMMA PromisesStep ==
    ASSUME TypeOK, References, Promises, [Next]_vars
    PROVE  Promises'
<1>1. ASSUME NEW c \in Callers, NEW k \in Keys, LiveHit(c, k)
      PROVE  Promises'
  BY <1>1, SessionRouterAssumption
     DEF TypeOK, CallRecord, References, CallRefs, Promises, LiveHit, IdleCall,
         routerVars
<1>2. ASSUME NEW c \in Callers, NEW k \in Keys, JoinPending(c, k)
      PROVE  Promises'
  BY <1>2, SessionRouterAssumption
     DEF TypeOK, CallRecord, References, CallRefs, Promises, JoinPending, IdleCall,
         routerVars
<1>3. ASSUME NEW c \in Callers, NEW k \in Keys, NEW m \in Models \cup {None},
BeginCreate(c, k, m)
      PROVE  Promises'
  BY <1>3, SessionRouterAssumption
     DEF TypeOK, CallRecord, References, CallRefs, Promises, BeginCreate, IdleCall,
         routerVars
<1>4. ASSUME NEW c \in Callers, CreateLoad(c)
      PROVE  Promises'
  BY <1>4, SessionRouterAssumption
     DEF TypeOK, CallRecord, References, CallRefs, Promises, CreateLoad, routerVars
<1>5. ASSUME NEW c \in Callers, NEW r \in Rpcs, CreateSpawn(c, r)
      PROVE  Promises'
  BY <1>5, SessionRouterAssumption
     DEF TypeOK, CallRecord, References, CallRefs, Promises, CreateSpawn, routerVars
<1>6. ASSUME NEW c \in Callers, CreateReady(c)
      PROVE  Promises'
  BY <1>6, SessionRouterAssumption
     DEF TypeOK, CallRecord, References, CallRefs, Promises, CreateReady, routerVars
<1>7. ASSUME NEW c \in Callers, CreateSpawnFails(c)
      PROVE  Promises'
  BY <1>7, SessionRouterAssumption
     DEF TypeOK, CallRecord, References, CallRefs, Promises, CreateSpawnFails,
         routerVars
<1>8. ASSUME NEW c \in Callers, NEW fate \in {"gone", "lost"}, CreateStartFails(c, fate)
      PROVE  Promises'
  BY <1>8, SessionRouterAssumption
     DEF TypeOK, CallRecord, References, CallRefs, Promises, CreateStartFails,
         routerVars
<1>9. ASSUME NEW c \in Callers, CreateUpsert(c)
      PROVE  Promises'
  BY <1>9, SessionRouterAssumption
     DEF TypeOK, CallRecord, References, CallRefs, Promises, CreateUpsert, routerVars
<1>10. ASSUME NEW c \in Callers, CreateUpsertFails(c)
      PROVE  Promises'
  BY <1>10, SessionRouterAssumption
     DEF TypeOK, CallRecord, References, CallRefs, Promises, CreateUpsertFails,
         routerVars
<1>11. ASSUME NEW c \in Callers, CreateSettle(c)
      PROVE  Promises'
  BY SMTT(120), <1>11, SessionRouterAssumption
     DEF TypeOK, CallRecord, References, CallRefs, Promises, CreateSettle, IdleCall,
         routerVars
<1>12. ASSUME NEW c \in Callers, NEW record \in BOOLEAN, Finish(c, record)
      PROVE  Promises'
  BY <1>12, SessionRouterAssumption
     DEF TypeOK, CallRecord, References, CallRefs, Promises, Finish, IdleCall,
         routerVars
<1>13. ASSUME NEW r \in Rpcs, RestartLoad(r)
      PROVE  Promises'
  BY <1>13 DEF Promises, RestartLoad, routerVars
<1>14. ASSUME NEW r \in Rpcs, NEW n \in Rpcs, RestartSpawn(r, n)
      PROVE  Promises'
  BY <1>14 DEF Promises, RestartSpawn, routerVars
<1>15. ASSUME NEW r \in Rpcs, RestartReady(r)
      PROVE  Promises'
  BY <1>15 DEF Promises, RestartReady, routerVars
<1>16. ASSUME NEW r \in Rpcs, RestartSpawnFails(r)
      PROVE  Promises'
  BY <1>16 DEF Promises, RestartSpawnFails, routerVars
<1>17. ASSUME NEW r \in Rpcs, NEW fate \in {"gone", "lost"}, RestartStartFails(r, fate)
      PROVE  Promises'
  BY <1>17 DEF Promises, RestartStartFails, routerVars
<1>18. ASSUME NEW r \in Rpcs, NEW saved \in BOOLEAN, RestartUpsert(r, saved)
      PROVE  Promises'
  BY <1>18 DEF Promises, RestartUpsert, routerVars
<1>19. ASSUME NEW r \in Rpcs, NEW clean \in BOOLEAN, Exit(r, clean)
      PROVE  Promises'
  BY <1>19 DEF Promises, Exit, routerVars
<1>20. ASSUME NEW r \in Rpcs, UnheardExit(r)
      PROVE  Promises'
  BY <1>20 DEF Promises, UnheardExit, routerVars
<1>21. ASSUME NEW k \in Keys, CloseSession(k)
      PROVE  Promises'
  BY <1>21 DEF Promises, CloseSession, routerVars
<1>22. ASSUME ReapIdle
      PROVE  Promises'
  BY <1>22 DEF Promises, ReapIdle, routerVars
<1>23. ASSUME NEW k \in Keys, TtlPasses(k)
      PROVE  Promises'
  BY <1>23 DEF Promises, TtlPasses, routerVars
<1>24. ASSUME Stop
      PROVE  Promises'
  BY <1>24 DEF Promises, Stop, routerVars
<1>25. ASSUME DaemonRestart
      PROVE  Promises'
  BY <1>25, SessionRouterAssumption
     DEF TypeOK, CallRecord, References, CallRefs, Promises, DaemonRestart, IdleCall,
         routerVars
<1>26. ASSUME UNCHANGED vars
      PROVE  Promises'
  BY <1>26 DEF Promises, vars, routerVars
<1>q. QED
  BY <1>1, <1>2, <1>3, <1>4, <1>5, <1>6, <1>7, <1>8, <1>9, <1>10, <1>11, <1>12, <1>13,
     <1>14, <1>15, <1>16, <1>17, <1>18, <1>19, <1>20, <1>21, <1>22, <1>23, <1>24,
     <1>25, <1>26
     DEF Next, Create, Restart

-----------------------------------------------------------------------------
(***************************************************************************)
(* Sessions                                                                *)
(***************************************************************************)

\* Sessions stay in agreement when no record changes, no child changes hands or
\* gains an exit listener, no key is newly routed, and whoever goes on with a
\* creation or a restart has, or has just read, the session of its record.
LEMMA SessionsStay ==
    ASSUME References, Sessions, store' = store,
           \A r \in Rpcs :
              /\ child'[r].key = child[r].key /\ child'[r].sid = child[r].sid
              /\ child[r].state # "unused" => child'[r].state # "unused"
              /\ child'[r].onExit # "none" => child[r].onExit # "none",
           \A k \in Keys : live'[k] # None => live[k] # None,
           \A c \in Callers : call'[c].pc \in {"spawn", "start", "upsert"} =>
              /\ call'[c].key = call[c].key
              /\ \/ call'[c].pc = "spawn" /\ call'[c].sid = store[call[c].key].sid
                 \/ /\ call'[c].rpc = call[c].rpc
                    /\ call'[c].pc \in {"start", "upsert"}
                    /\ call[c].pc \in {"start", "upsert"},
           \A q \in Rpcs : restart'[q].pc \in {"load", "spawn", "start", "upsert"} =>
              \/ restart'[q] = restart[q]
              \/ restart'[q].pc = "load" /\ child[q].onExit # "none"
              \/ /\ restart'[q].pc = "spawn" /\ restart[q].pc = "load"
                 /\ restart'[q].sid = store[child[q].key].sid
              \/ /\ restart'[q].pc = "upsert" /\ restart[q].pc = "start"
                 /\ restart'[q].rpc = restart[q].rpc
    PROVE  Sessions'
<1>1. KeySessions'
  BY DEF Sessions, KeySessions, Owned
<1>2. CallSessions'
  <2> SUFFICES ASSUME NEW c \in Callers
               PROVE  /\ call'[c].pc = "spawn" => call'[c].sid = store[call'[c].key].sid
                      /\ call'[c].pc \in {"start", "upsert"} =>
                           child'[call'[c].rpc].sid =
                             IF store[call'[c].key].sid = None THEN call'[c].rpc
                             ELSE store[call'[c].key].sid
    BY DEF CallSessions
  <2>1. call[c].pc \in {"start", "upsert"} => call[c].rpc \in Rpcs
    BY DEF References, CallRefs, Owned
  <2>2. call[c].pc \in {"start", "upsert"} =>
          child[call[c].rpc].sid = IF store[call[c].key].sid = None THEN call[c].rpc
                                   ELSE store[call[c].key].sid
    BY DEF Sessions, CallSessions
  <2>q. QED
    BY <2>1, <2>2
<1>3. ChildSessions'
  BY DEF Sessions, ChildSessions
<1>4. RestartSessions'
  <2> SUFFICES ASSUME NEW q \in Rpcs
               PROVE  /\ restart'[q].pc \in {"load", "spawn", "start", "upsert"} =>
                           store[child[q].key].sid # None
                      /\ restart'[q].pc = "spawn" =>
                           restart'[q].sid = store[child[q].key].sid
                      /\ restart'[q].pc \in {"start", "upsert"} =>
                           child'[restart'[q].rpc].sid = store[child[q].key].sid
    BY DEF RestartSessions
  <2>1. restart[q].pc \in {"start", "upsert"} => restart[q].rpc \in Rpcs
    BY DEF References, RestartRefs, Owned
  <2>2. child[q].onExit # "none" => store[child[q].key].sid # None
    BY DEF Sessions, ChildSessions
  <2>3. /\ restart[q].pc \in {"load", "spawn", "start", "upsert"} =>
             store[child[q].key].sid # None
        /\ restart[q].pc = "spawn" => restart[q].sid = store[child[q].key].sid
        /\ restart[q].pc \in {"start", "upsert"} =>
             child[restart[q].rpc].sid = store[child[q].key].sid
    BY DEF Sessions, RestartSessions
  <2>4. CASE restart'[q].pc \notin {"load", "spawn", "start", "upsert"}
    BY <2>4
  <2>5. CASE restart'[q] = restart[q]
    BY <2>1, <2>3, <2>5
  <2>6. CASE restart'[q].pc = "load" /\ child[q].onExit # "none"
    BY <2>2, <2>6
  <2>7. CASE /\ restart'[q].pc = "spawn" /\ restart[q].pc = "load"
             /\ restart'[q].sid = store[child[q].key].sid
    BY <2>3, <2>7
  <2>8. CASE /\ restart'[q].pc = "upsert" /\ restart[q].pc = "start"
             /\ restart'[q].rpc = restart[q].rpc
    BY <2>1, <2>3, <2>8
  <2>q. QED
    BY <2>4, <2>5, <2>6, <2>7, <2>8
<1>q. QED
  BY <1>1, <1>2, <1>3, <1>4 DEF Sessions

\* While the store can be read, every step keeps the sessions in agreement.
LEMMA SessionsStep ==
    ASSUME IInv, ~ReadFaults, [Next]_vars
    PROVE  Sessions'
<1>0. /\ TypeOK /\ References /\ Promises /\ Sessions
      /\ TypeOK' /\ References' /\ Promises'
  BY TypeStep, ReferencesStep, PromisesStep DEF IInv
<1>s. \A r, k : Owned(r, k) => Owned(r, k)' /\ child'[r].sid = child[r].sid
  BY <1>0, OwnedStable
<1>1. ASSUME NEW c \in Callers, NEW k \in Keys, LiveHit(c, k)
      PROVE  Sessions'
  <2>1. store' = store /\ child' = child /\ restart' = restart
    BY <1>1 DEF LiveHit, routerVars
  <2>2. live' = live
    BY <1>1 DEF LiveHit, routerVars
  <2>3. \A d \in Callers : call'[d].pc \in {"spawn", "start", "upsert"} =>
             /\ call'[d].key = call[d].key
             /\ \/ call'[d].pc = "spawn" /\ call'[d].sid = store[call[d].key].sid
                \/ /\ call'[d].rpc = call[d].rpc
                   /\ call'[d].pc \in {"start", "upsert"}
                   /\ call[d].pc \in {"start", "upsert"}
    BY <1>0, <1>1 DEF TypeOK, CallRecord, Sessions, CallSessions, LiveHit, IdleCall
  <2>q. QED
    BY <1>0, <2>1, <2>2, <2>3, SessionsStay
<1>2. ASSUME NEW c \in Callers, NEW k \in Keys, JoinPending(c, k)
      PROVE  Sessions'
  <2>1. store' = store /\ child' = child /\ restart' = restart
    BY <1>2 DEF JoinPending, routerVars
  <2>2. live' = live
    BY <1>2 DEF JoinPending, routerVars
  <2>3. \A d \in Callers : call'[d].pc \in {"spawn", "start", "upsert"} =>
             /\ call'[d].key = call[d].key
             /\ \/ call'[d].pc = "spawn" /\ call'[d].sid = store[call[d].key].sid
                \/ /\ call'[d].rpc = call[d].rpc
                   /\ call'[d].pc \in {"start", "upsert"}
                   /\ call[d].pc \in {"start", "upsert"}
    BY <1>0, <1>2 DEF TypeOK, CallRecord, Sessions, CallSessions, JoinPending, IdleCall
  <2>q. QED
    BY <1>0, <2>1, <2>2, <2>3, SessionsStay
<1>3. ASSUME NEW c \in Callers, NEW k \in Keys, NEW m \in Models \cup {None},
BeginCreate(c, k, m)
      PROVE  Sessions'
  <2>1. store' = store /\ child' = child /\ restart' = restart
    BY <1>3 DEF BeginCreate, routerVars
  <2>2. live' = live
    BY <1>3 DEF BeginCreate, routerVars
  <2>3. \A d \in Callers : call'[d].pc \in {"spawn", "start", "upsert"} =>
             /\ call'[d].key = call[d].key
             /\ \/ call'[d].pc = "spawn" /\ call'[d].sid = store[call[d].key].sid
                \/ /\ call'[d].rpc = call[d].rpc
                   /\ call'[d].pc \in {"start", "upsert"}
                   /\ call[d].pc \in {"start", "upsert"}
    BY <1>0, <1>3 DEF TypeOK, CallRecord, Sessions, CallSessions, BeginCreate, IdleCall
  <2>q. QED
    BY <1>0, <2>1, <2>2, <2>3, SessionsStay
<1>4. ASSUME NEW c \in Callers, CreateLoad(c)
      PROVE  Sessions'
  <2>1. store' = store /\ child' = child /\ restart' = restart
    BY <1>4 DEF CreateLoad, routerVars
  <2>2. live' = live
    BY <1>4 DEF CreateLoad, routerVars
  <2>3. \A d \in Callers : call'[d].pc \in {"spawn", "start", "upsert"} =>
             /\ call'[d].key = call[d].key
             /\ \/ call'[d].pc = "spawn" /\ call'[d].sid = store[call[d].key].sid
                \/ /\ call'[d].rpc = call[d].rpc
                   /\ call'[d].pc \in {"start", "upsert"}
                   /\ call[d].pc \in {"start", "upsert"}
    BY <1>0, <1>4 DEF TypeOK, CallRecord, Sessions, CallSessions, CreateLoad, Loaded
  <2>q. QED
    BY <1>0, <2>1, <2>2, <2>3, SessionsStay
<1>5. ASSUME NEW c \in Callers, NEW r \in Rpcs, CreateSpawn(c, r)
      PROVE  Sessions'
  <2>1. KeySessions'
    BY <1>0, <1>s, <1>5 DEF TypeOK, Sessions, KeySessions, CreateSpawn, Spawned,
       routerVars
  <2>2. CallSessions'
    BY <1>0, <1>s, <1>5
       DEF TypeOK, CallRecord, References, CallRefs, Sessions, CallSessions,
           CreateSpawn, Spawned, routerVars
  <2>3. ChildSessions'
    BY <1>0, <1>s, <1>5
       DEF TypeOK, ChildRecord, Owned, Sessions, ChildSessions, CreateSpawn, Spawned,
           routerVars
  <2>4. RestartSessions'
    BY <1>0, <1>s, <1>5
       DEF TypeOK, RestartRecord, ChildRecord, Owned, References, ChildRefs,
           RestartRefs,
           Sessions, ChildSessions, RestartSessions, CreateSpawn, Spawned, routerVars
  <2>q. QED
    BY <2>1, <2>2, <2>3, <2>4 DEF Sessions
<1>6. ASSUME NEW c \in Callers, CreateReady(c)
      PROVE  Sessions'
  <2>1. store' = store /\ restart' = restart
    BY <1>6 DEF CreateReady, routerVars
  <2>2. live' = live
    BY <1>6 DEF CreateReady, routerVars
  <2>3. \A r \in Rpcs :
             /\ child'[r].key = child[r].key /\ child'[r].sid = child[r].sid
             /\ child[r].state # "unused" => child'[r].state # "unused"
             /\ child'[r].onExit # "none" => child[r].onExit # "none"
    BY <1>0, <1>6 DEF TypeOK, ChildRecord, CreateReady
  <2>4. \A d \in Callers : call'[d].pc \in {"spawn", "start", "upsert"} =>
             /\ call'[d].key = call[d].key
             /\ \/ call'[d].pc = "spawn" /\ call'[d].sid = store[call[d].key].sid
                \/ /\ call'[d].rpc = call[d].rpc
                   /\ call'[d].pc \in {"start", "upsert"}
                   /\ call[d].pc \in {"start", "upsert"}
    BY <1>0, <1>6 DEF TypeOK, CallRecord, Sessions, CallSessions, CreateReady
  <2>q. QED
    BY <1>0, <2>1, <2>2, <2>3, <2>4, SessionsStay
<1>7. ASSUME NEW c \in Callers, CreateSpawnFails(c)
      PROVE  Sessions'
  <2>1. store' = store /\ child' = child /\ restart' = restart
    BY <1>7 DEF CreateSpawnFails, routerVars
  <2>2. live' = live
    BY <1>7 DEF CreateSpawnFails, routerVars
  <2>3. \A d \in Callers : call'[d].pc \in {"spawn", "start", "upsert"} =>
             /\ call'[d].key = call[d].key
             /\ \/ call'[d].pc = "spawn" /\ call'[d].sid = store[call[d].key].sid
                \/ /\ call'[d].rpc = call[d].rpc
                   /\ call'[d].pc \in {"start", "upsert"}
                   /\ call[d].pc \in {"start", "upsert"}
    BY <1>0, <1>7 DEF TypeOK, CallRecord, Sessions, CallSessions, CreateSpawnFails
  <2>q. QED
    BY <1>0, <2>1, <2>2, <2>3, SessionsStay
<1>8. ASSUME NEW c \in Callers, NEW fate \in {"gone", "lost"}, CreateStartFails(c, fate)
      PROVE  Sessions'
  <2>1. store' = store /\ restart' = restart
    BY <1>8 DEF CreateStartFails, routerVars
  <2>2. live' = live
    BY <1>8 DEF CreateStartFails, routerVars
  <2>3. \A r \in Rpcs :
             /\ child'[r].key = child[r].key /\ child'[r].sid = child[r].sid
             /\ child[r].state # "unused" => child'[r].state # "unused"
             /\ child'[r].onExit # "none" => child[r].onExit # "none"
    BY <1>0, <1>8 DEF TypeOK, ChildRecord, CreateStartFails
  <2>4. \A d \in Callers : call'[d].pc \in {"spawn", "start", "upsert"} =>
             /\ call'[d].key = call[d].key
             /\ \/ call'[d].pc = "spawn" /\ call'[d].sid = store[call[d].key].sid
                \/ /\ call'[d].rpc = call[d].rpc
                   /\ call'[d].pc \in {"start", "upsert"}
                   /\ call[d].pc \in {"start", "upsert"}
    BY <1>0, <1>8 DEF TypeOK, CallRecord, Sessions, CallSessions, CreateStartFails
  <2>q. QED
    BY <1>0, <2>1, <2>2, <2>3, <2>4, SessionsStay
<1>9. ASSUME NEW c \in Callers, CreateUpsert(c)
      PROVE  Sessions'
  <2> DEFINE k == call[c].key
             n == call[c].rpc
  <2>1. k \in Keys /\ n \in Rpcs /\ Owned(n, k)
    BY <1>0, <1>9 DEF References, CallRefs, RestartRefs, ChildRefs, Owned, CreateUpsert
  <2>2. store' \in {store, [store EXCEPT ![k] = ReadyInfo(n)]}
    BY <1>9 DEF CreateUpsert, Upserted
  <2>3. /\ \A j \in Keys \ {k} : store'[j].sid = store[j].sid
        /\ store'[k].sid \in {store[k].sid, child[n].sid}
    BY <1>0, <2>1, <2>2 DEF TypeOK, ReadyInfo
  <2>4. store[k].sid # None => child[n].sid = store[k].sid
    BY <1>0, <1>9 DEF Sessions, CallSessions, RestartSessions, CreateUpsert
  <2>5. \A j \in Keys : store[j].sid # None => store'[j].sid = store[j].sid
    BY <2>3, <2>4
  <2>6. store'[k].sid = child[n].sid /\ child[n].sid # None /\ Owned(child[n].sid, k)
    <3>1. store' = [store EXCEPT ![k] = ReadyInfo(n)]
      BY <1>9 DEF CreateUpsert, Upserted
    <3>2. store'[k].sid = child[n].sid
      BY <1>0, <2>1, <3>1 DEF TypeOK, ReadyInfo
    <3>3. child[n].sid = IF store[k].sid = None THEN n ELSE store[k].sid
      BY <1>0, <1>9 DEF Sessions, CallSessions, CreateUpsert
    <3>q. QED
      BY <1>0, <2>1, <3>2, <3>3, SessionRouterAssumption DEF Sessions, KeySessions
  <2>7. KeySessions'
    BY <1>0, <1>s, <1>9, <2>1, <2>3, <2>5, <2>6 DEF TypeOK, Sessions, KeySessions,
       CreateUpsert
  <2>8. CallSessions'
    BY SMTT(120), <1>0, <1>s, <1>9, <2>1, <2>3, <2>5, <2>6
       DEF TypeOK, CallRecord, References, CallRefs, Promises, Sessions, CallSessions,
           CreateUpsert
  <2>9. ChildSessions'
    <3>1. \A q \in Rpcs : /\ child'[q].key = child[q].key
                          /\ child'[q].state = child[q].state
                          /\ q # n => child'[q].onExit = child[q].onExit
      BY <1>0, <1>9 DEF TypeOK, ChildRecord, CreateUpsert
    <3>2. child[n].state # "unused" /\ child[n].key = k
      BY <2>1 DEF Owned
    <3>3. \A q \in Rpcs : child[q].onExit # "none" =>
             /\ child[q].state # "unused" /\ child[q].key \in Keys
             /\ store[child[q].key].sid # None
      BY <1>0 DEF References, ChildRefs, Sessions, ChildSessions
    <3>4. \A j \in Keys : store[j].sid # None => store'[j].sid # None
      BY <2>5
    <3>5. store'[k].sid # None
      BY <2>3, <2>6
    <3> HIDE DEF k, n
    <3> SUFFICES ASSUME NEW q \in Rpcs, child'[q].onExit # "none"
                 PROVE  child'[q].state # "unused" /\ store'[child'[q].key].sid # None
      BY Zenon DEF ChildSessions
    <3>6. CASE q = n
      BY <3>1, <3>2, <3>5, <3>6
    <3>7. CASE q # n
      BY <3>1, <3>3, <3>4, <3>7
    <3>q. QED
      BY <3>6, <3>7
  <2>10. RestartSessions'
    <3>1. \A r \in Rpcs : child'[r].sid = child[r].sid /\ child'[r].key = child[r].key
      BY <1>0, <1>9 DEF TypeOK, CreateUpsert
    <3>2. restart' = restart
      BY <1>9 DEF CreateUpsert
    <3>3. \A r \in Rpcs :
            restart[r].pc \in {"load", "spawn", "start", "upsert"} =>
              /\ child[r].key \in Keys
              /\ store'[child[r].key].sid = store[child[r].key].sid
      BY <1>0, <1>s, <2>5
         DEF References, ChildRefs, RestartRefs, Sessions, RestartSessions
    <3>4. \A r \in Rpcs : restart[r].pc \in {"start", "upsert"} => restart[r].rpc \in Rpcs
      BY <1>0 DEF References, RestartRefs, Owned
    <3> SUFFICES ASSUME NEW r \in Rpcs
                 PROVE  /\ restart'[r].pc \in {"load", "spawn", "start", "upsert"} =>
                             store'[child'[r].key].sid # None
                        /\ restart'[r].pc = "spawn" =>
                             restart'[r].sid = store'[child'[r].key].sid
                        /\ restart'[r].pc \in {"start", "upsert"} =>
                             child'[restart'[r].rpc].sid = store'[child'[r].key].sid
      BY Zenon DEF RestartSessions
    <3>5. restart[r].pc \in {"load", "spawn", "start", "upsert"} =>
            store'[child'[r].key].sid = store[child[r].key].sid
      BY <3>1, <3>3
    <3>6. restart[r].pc \in {"start", "upsert"} =>
            child'[restart[r].rpc].sid = child[restart[r].rpc].sid
      BY <3>1, <3>4
    <3>7. /\ restart[r].pc \in {"load", "spawn", "start", "upsert"} =>
               store[child[r].key].sid # None
          /\ restart[r].pc = "spawn" => restart[r].sid = store[child[r].key].sid
          /\ restart[r].pc \in {"start", "upsert"} =>
               child[restart[r].rpc].sid = store[child[r].key].sid
      BY <1>0 DEF Sessions, RestartSessions
    <3>q. QED
      BY <3>2, <3>5, <3>6, <3>7
  <2>q. QED
    BY <2>7, <2>8, <2>9, <2>10 DEF Sessions
<1>10. ASSUME NEW c \in Callers, CreateUpsertFails(c)
      PROVE  Sessions'
  <2>1. store' = store /\ child' = child /\ restart' = restart
    BY <1>10 DEF CreateUpsertFails, routerVars
  <2>2. live' = live
    BY <1>10 DEF CreateUpsertFails, routerVars
  <2>3. \A d \in Callers : call'[d].pc \in {"spawn", "start", "upsert"} =>
             /\ call'[d].key = call[d].key
             /\ \/ call'[d].pc = "spawn" /\ call'[d].sid = store[call[d].key].sid
                \/ /\ call'[d].rpc = call[d].rpc
                   /\ call'[d].pc \in {"start", "upsert"}
                   /\ call[d].pc \in {"start", "upsert"}
    BY <1>0, <1>10 DEF TypeOK, CallRecord, Sessions, CallSessions, CreateUpsertFails
  <2>q. QED
    BY <1>0, <2>1, <2>2, <2>3, SessionsStay
<1>11. ASSUME NEW c \in Callers, CreateSettle(c)
      PROVE  Sessions'
  <2>1. store' = store /\ child' = child /\ restart' = restart
    BY <1>11 DEF CreateSettle, routerVars
  <2>2. live' = live
    BY <1>11 DEF CreateSettle, routerVars
  <2>3. \A d \in Callers : call'[d].pc \in {"spawn", "start", "upsert"} =>
             /\ call'[d].key = call[d].key
             /\ \/ call'[d].pc = "spawn" /\ call'[d].sid = store[call[d].key].sid
                \/ /\ call'[d].rpc = call[d].rpc
                   /\ call'[d].pc \in {"start", "upsert"}
                   /\ call[d].pc \in {"start", "upsert"}
    BY <1>0, <1>11 DEF TypeOK, CallRecord, Sessions, CallSessions, CreateSettle, IdleCall
  <2>q. QED
    BY <1>0, <2>1, <2>2, <2>3, SessionsStay
<1>12. ASSUME NEW c \in Callers, NEW record \in BOOLEAN, Finish(c, record)
      PROVE  Sessions'
  <2>1. store' = store /\ child' = child /\ restart' = restart
    BY <1>12 DEF Finish, routerVars
  <2>2. live' = live
    BY <1>12 DEF Finish, routerVars
  <2>3. \A d \in Callers : call'[d].pc \in {"spawn", "start", "upsert"} =>
             /\ call'[d].key = call[d].key
             /\ \/ call'[d].pc = "spawn" /\ call'[d].sid = store[call[d].key].sid
                \/ /\ call'[d].rpc = call[d].rpc
                   /\ call'[d].pc \in {"start", "upsert"}
                   /\ call[d].pc \in {"start", "upsert"}
    BY <1>0, <1>12 DEF TypeOK, CallRecord, Sessions, CallSessions, Finish, IdleCall
  <2>q. QED
    BY <1>0, <2>1, <2>2, <2>3, SessionsStay
<1>13. ASSUME NEW r \in Rpcs, RestartLoad(r)
      PROVE  Sessions'
  <2>1. store' = store /\ child' = child /\ call' = call
    BY <1>13 DEF RestartLoad, routerVars
  <2>2. live' = live
    BY <1>13 DEF RestartLoad, routerVars
  <2>3. \A q \in Rpcs : restart'[q].pc \in {"load", "spawn", "start", "upsert"} =>
             \/ restart'[q] = restart[q]
             \/ restart'[q].pc = "load" /\ child[q].onExit # "none"
             \/ /\ restart'[q].pc = "spawn" /\ restart[q].pc = "load"
                /\ restart'[q].sid = store[child[q].key].sid
             \/ /\ restart'[q].pc = "upsert" /\ restart[q].pc = "start"
                /\ restart'[q].rpc = restart[q].rpc
    BY <1>0, <1>13 DEF TypeOK, RestartRecord, RestartLoad, Loaded
  <2>q. QED
    BY <1>0, <2>1, <2>2, <2>3, SessionsStay DEF Sessions, CallSessions
<1>14. ASSUME NEW r \in Rpcs, NEW n \in Rpcs, RestartSpawn(r, n)
      PROVE  Sessions'
  <2>1. KeySessions'
    BY <1>0, <1>s, <1>14 DEF TypeOK, Sessions, KeySessions, RestartSpawn, Spawned,
       routerVars
  <2>2. CallSessions'
    BY <1>0, <1>s, <1>14
       DEF TypeOK, CallRecord, References, CallRefs, Sessions, CallSessions,
           RestartSpawn, Spawned, routerVars
  <2>3. ChildSessions'
    BY <1>0, <1>s, <1>14
       DEF TypeOK, ChildRecord, Owned, Sessions, ChildSessions, RestartSpawn, Spawned,
           routerVars
  <2>4. RestartSessions'
    BY <1>0, <1>s, <1>14
       DEF TypeOK, RestartRecord, ChildRecord, Owned, References, ChildRefs,
           RestartRefs,
           Sessions, ChildSessions, RestartSessions, RestartSpawn, Spawned, routerVars
  <2>q. QED
    BY <2>1, <2>2, <2>3, <2>4 DEF Sessions
<1>15. ASSUME NEW r \in Rpcs, RestartReady(r)
      PROVE  Sessions'
  <2>1. store' = store /\ call' = call
    BY <1>15 DEF RestartReady, routerVars
  <2>2. live' = live
    BY <1>15 DEF RestartReady, routerVars
  <2>3. \A p \in Rpcs :
             /\ child'[p].key = child[p].key /\ child'[p].sid = child[p].sid
             /\ child[p].state # "unused" => child'[p].state # "unused"
             /\ child'[p].onExit # "none" => child[p].onExit # "none"
    BY <1>0, <1>15 DEF TypeOK, ChildRecord, RestartReady
  <2>4. \A q \in Rpcs : restart'[q].pc \in {"load", "spawn", "start", "upsert"} =>
             \/ restart'[q] = restart[q]
             \/ restart'[q].pc = "load" /\ child[q].onExit # "none"
             \/ /\ restart'[q].pc = "spawn" /\ restart[q].pc = "load"
                /\ restart'[q].sid = store[child[q].key].sid
             \/ /\ restart'[q].pc = "upsert" /\ restart[q].pc = "start"
                /\ restart'[q].rpc = restart[q].rpc
    BY <1>0, <1>15 DEF TypeOK, RestartRecord, RestartReady
  <2>q. QED
    BY <1>0, <2>1, <2>2, <2>3, <2>4, SessionsStay DEF Sessions, CallSessions
<1>16. ASSUME NEW r \in Rpcs, RestartSpawnFails(r)
      PROVE  Sessions'
  <2>1. store' = store /\ child' = child /\ call' = call
    BY <1>16 DEF RestartSpawnFails, routerVars
  <2>2. live' = live
    BY <1>16 DEF RestartSpawnFails, routerVars
  <2>3. \A q \in Rpcs : restart'[q].pc \in {"load", "spawn", "start", "upsert"} =>
             \/ restart'[q] = restart[q]
             \/ restart'[q].pc = "load" /\ child[q].onExit # "none"
             \/ /\ restart'[q].pc = "spawn" /\ restart[q].pc = "load"
                /\ restart'[q].sid = store[child[q].key].sid
             \/ /\ restart'[q].pc = "upsert" /\ restart[q].pc = "start"
                /\ restart'[q].rpc = restart[q].rpc
    BY <1>0, <1>16 DEF TypeOK, RestartRecord, RestartSpawnFails
  <2>q. QED
    BY <1>0, <2>1, <2>2, <2>3, SessionsStay DEF Sessions, CallSessions
<1>17. ASSUME NEW r \in Rpcs, NEW fate \in {"gone", "lost"}, RestartStartFails(r, fate)
      PROVE  Sessions'
  <2>1. store' = store /\ call' = call
    BY <1>17 DEF RestartStartFails, routerVars
  <2>2. live' = live
    BY <1>17 DEF RestartStartFails, routerVars
  <2>3. \A p \in Rpcs :
             /\ child'[p].key = child[p].key /\ child'[p].sid = child[p].sid
             /\ child[p].state # "unused" => child'[p].state # "unused"
             /\ child'[p].onExit # "none" => child[p].onExit # "none"
    BY <1>0, <1>17 DEF TypeOK, ChildRecord, RestartStartFails
  <2>4. \A q \in Rpcs : restart'[q].pc \in {"load", "spawn", "start", "upsert"} =>
             \/ restart'[q] = restart[q]
             \/ restart'[q].pc = "load" /\ child[q].onExit # "none"
             \/ /\ restart'[q].pc = "spawn" /\ restart[q].pc = "load"
                /\ restart'[q].sid = store[child[q].key].sid
             \/ /\ restart'[q].pc = "upsert" /\ restart[q].pc = "start"
                /\ restart'[q].rpc = restart[q].rpc
    BY <1>0, <1>17 DEF TypeOK, RestartRecord, RestartStartFails
  <2>q. QED
    BY <1>0, <2>1, <2>2, <2>3, <2>4, SessionsStay DEF Sessions, CallSessions
<1>18. ASSUME NEW r \in Rpcs, NEW saved \in BOOLEAN, RestartUpsert(r, saved)
      PROVE  Sessions'
  <2> DEFINE k == child[r].key
             n == restart[r].rpc
  <2>1. k \in Keys /\ n \in Rpcs /\ Owned(n, k)
    BY <1>0, <1>18 DEF References, CallRefs, RestartRefs, ChildRefs, Owned,
       RestartUpsert
  <2>2. store' \in {store, [store EXCEPT ![k] = ReadyInfo(n)]}
    BY <1>18 DEF RestartUpsert, Upserted
  <2>3. /\ \A j \in Keys \ {k} : store'[j].sid = store[j].sid
        /\ store'[k].sid \in {store[k].sid, child[n].sid}
    BY <1>0, <2>1, <2>2 DEF TypeOK, ReadyInfo
  <2>4. store[k].sid # None => child[n].sid = store[k].sid
    BY <1>0, <1>18 DEF Sessions, CallSessions, RestartSessions, RestartUpsert
  <2>5. \A j \in Keys : store[j].sid # None => store'[j].sid = store[j].sid
    BY <2>3, <2>4
  <2>6. /\ store[k].sid # None /\ Owned(store[k].sid, k)
        /\ \A j \in Keys : store'[j].sid = store[j].sid
    <3>1. store[k].sid # None /\ child[n].sid = store[k].sid
      BY <1>0, <1>18 DEF Sessions, RestartSessions, RestartUpsert
    <3>q. QED
      BY <1>0, <2>1, <2>3, <3>1 DEF Sessions, KeySessions
  <2>7. KeySessions'
    BY <1>0, <1>s, <1>18, <2>1, <2>3, <2>5, <2>6 DEF TypeOK, Sessions, KeySessions,
       RestartUpsert
  <2>8. CallSessions'
    BY SMTT(120), <1>0, <1>s, <1>18, <2>1, <2>3, <2>5, <2>6
       DEF TypeOK, CallRecord, References, CallRefs, Promises, Sessions, CallSessions,
           RestartUpsert
  <2>9. ChildSessions'
    <3>1. \A q \in Rpcs : /\ child'[q].key = child[q].key
                          /\ child'[q].state = child[q].state
                          /\ q # n => child'[q].onExit = child[q].onExit
      BY <1>0, <1>18 DEF TypeOK, ChildRecord, RestartUpsert
    <3>2. child[n].state # "unused" /\ child[n].key = k
      BY <2>1 DEF Owned
    <3>3. \A q \in Rpcs : child[q].onExit # "none" =>
             /\ child[q].state # "unused" /\ child[q].key \in Keys
             /\ store[child[q].key].sid # None
      BY <1>0 DEF References, ChildRefs, Sessions, ChildSessions
    <3>4. \A j \in Keys : store[j].sid # None => store'[j].sid # None
      BY <2>5
    <3>5. store'[k].sid # None
      BY <2>1, <2>6
    <3> HIDE DEF k, n
    <3> SUFFICES ASSUME NEW q \in Rpcs, child'[q].onExit # "none"
                 PROVE  child'[q].state # "unused" /\ store'[child'[q].key].sid # None
      BY Zenon DEF ChildSessions
    <3>6. CASE q = n
      BY <3>1, <3>2, <3>5, <3>6
    <3>7. CASE q # n
      BY <3>1, <3>3, <3>4, <3>7
    <3>q. QED
      BY <3>6, <3>7
  <2>10. RestartSessions'
    <3>1. \A q \in Rpcs : child'[q].key = child[q].key /\ child'[q].sid = child[q].sid
      BY <1>0, <1>18, <2>1 DEF TypeOK, ChildRecord, RestartUpsert
    <3>2. \A q \in Rpcs : restart'[q] = restart[q] \/ restart'[q].pc = "done"
      BY <1>0, <1>18 DEF TypeOK, RestartRecord, RestartUpsert
    <3>3. \A q \in Rpcs : /\ restart[q].pc # "none" => child[q].key \in Keys
                          /\ restart[q].pc \in {"start", "upsert"} => restart[q].rpc \in Rpcs
      BY <1>0 DEF References, ChildRefs, RestartRefs, Owned
    <3>q. QED
      BY <1>0, <2>6, <3>1, <3>2, <3>3 DEF Sessions, RestartSessions
  <2>q. QED
    BY <2>7, <2>8, <2>9, <2>10 DEF Sessions
<1>19. ASSUME NEW r \in Rpcs, NEW clean \in BOOLEAN, Exit(r, clean)
      PROVE  Sessions'
  <2>1. store' = store /\ call' = call
    BY <1>19 DEF Exit, routerVars
  <2>2. \A k \in Keys : live'[k] # None => live[k] # None
    BY <1>19 DEF Exit, routerVars, Unrouted
  <2>3. \A p \in Rpcs :
             /\ child'[p].key = child[p].key /\ child'[p].sid = child[p].sid
             /\ child[p].state # "unused" => child'[p].state # "unused"
             /\ child'[p].onExit # "none" => child[p].onExit # "none"
    BY <1>0, <1>19 DEF TypeOK, ChildRecord, Exit
  <2>4. \A q \in Rpcs : restart'[q].pc \in {"load", "spawn", "start", "upsert"} =>
             \/ restart'[q] = restart[q]
             \/ restart'[q].pc = "load" /\ child[q].onExit # "none"
             \/ /\ restart'[q].pc = "spawn" /\ restart[q].pc = "load"
                /\ restart'[q].sid = store[child[q].key].sid
             \/ /\ restart'[q].pc = "upsert" /\ restart[q].pc = "start"
                /\ restart'[q].rpc = restart[q].rpc
    BY <1>0, <1>19 DEF TypeOK, RestartRecord, Exit
  <2>q. QED
    BY <1>0, <2>1, <2>2, <2>3, <2>4, SessionsStay DEF Sessions, CallSessions
<1>20. ASSUME NEW r \in Rpcs, UnheardExit(r)
      PROVE  Sessions'
  <2>1. store' = store /\ call' = call /\ restart' = restart
    BY <1>20 DEF UnheardExit, routerVars
  <2>2. live' = live
    BY <1>20 DEF UnheardExit, routerVars
  <2>3. \A p \in Rpcs :
             /\ child'[p].key = child[p].key /\ child'[p].sid = child[p].sid
             /\ child[p].state # "unused" => child'[p].state # "unused"
             /\ child'[p].onExit # "none" => child[p].onExit # "none"
    BY <1>0, <1>20 DEF TypeOK, ChildRecord, UnheardExit
  <2>q. QED
    BY <1>0, <2>1, <2>2, <2>3, SessionsStay DEF Sessions, CallSessions
<1>21. ASSUME NEW k \in Keys, CloseSession(k)
      PROVE  Sessions'
  <2>0. /\ \A r \in Rpcs :
               /\ child'[r].key = child[r].key /\ child'[r].sid = child[r].sid
               /\ child'[r].state = "unused" <=> child[r].state = "unused"
               /\ child'[r].onExit \in {"none", child[r].onExit}
        /\ \A j \in Keys : live'[j] \in {None, live[j]}
        /\ UNCHANGED <<store, call, restart>>
    BY <1>0, <1>21, ShutdownKeeps DEF CloseSession
  <2>1. KeySessions'
    BY <1>0, <1>s, <2>0 DEF Sessions, KeySessions
  <2>2. CallSessions'
    BY <1>0, <1>s, <2>0 DEF References, CallRefs, Sessions, CallSessions
  <2>3. ChildSessions'
    BY <1>0, <2>0 DEF Sessions, ChildSessions
  <2>4. RestartSessions'
    BY <1>0, <1>s, <2>0 DEF References, RestartRefs, Sessions, RestartSessions
  <2>q. QED
    BY <2>1, <2>2, <2>3, <2>4 DEF Sessions
<1>22. ASSUME ReapIdle
      PROVE  Sessions'
  <2>0. /\ \A r \in Rpcs :
               /\ child'[r].key = child[r].key /\ child'[r].sid = child[r].sid
               /\ child'[r].state = "unused" <=> child[r].state = "unused"
               /\ child'[r].onExit \in {"none", child[r].onExit}
        /\ \A j \in Keys : live'[j] \in {None, live[j]}
        /\ UNCHANGED <<store, call, restart>>
    BY <1>0, <1>22, ShutdownKeeps DEF ReapIdle
  <2>1. KeySessions'
    BY <1>0, <1>s, <2>0 DEF Sessions, KeySessions
  <2>2. CallSessions'
    BY <1>0, <1>s, <2>0 DEF References, CallRefs, Sessions, CallSessions
  <2>3. ChildSessions'
    BY <1>0, <2>0 DEF Sessions, ChildSessions
  <2>4. RestartSessions'
    BY <1>0, <1>s, <2>0 DEF References, RestartRefs, Sessions, RestartSessions
  <2>q. QED
    BY <2>1, <2>2, <2>3, <2>4 DEF Sessions
<1>23. ASSUME NEW k \in Keys, TtlPasses(k)
      PROVE  Sessions'
  <2>1. store' = store /\ child' = child /\ call' = call /\ restart' = restart
    BY <1>23 DEF TtlPasses, routerVars
  <2>2. live' = live
    BY <1>23 DEF TtlPasses, routerVars
  <2>q. QED
    BY <1>0, <2>1, <2>2, SessionsStay DEF Sessions, CallSessions
<1>24. ASSUME Stop
      PROVE  Sessions'
  <2>0. /\ \A r \in Rpcs :
               /\ child'[r].key = child[r].key /\ child'[r].sid = child[r].sid
               /\ child'[r].state = "unused" <=> child[r].state = "unused"
               /\ child'[r].onExit \in {"none", child[r].onExit}
        /\ \A j \in Keys : live'[j] \in {None, live[j]}
        /\ UNCHANGED <<store, call, restart>>
    BY <1>0, <1>24, ShutdownKeeps DEF Stop
  <2>1. KeySessions'
    BY <1>0, <1>s, <2>0 DEF Sessions, KeySessions
  <2>2. CallSessions'
    BY <1>0, <1>s, <2>0 DEF References, CallRefs, Sessions, CallSessions
  <2>3. ChildSessions'
    BY <1>0, <2>0 DEF Sessions, ChildSessions
  <2>4. RestartSessions'
    BY <1>0, <1>s, <2>0 DEF References, RestartRefs, Sessions, RestartSessions
  <2>q. QED
    BY <2>1, <2>2, <2>3, <2>4 DEF Sessions
<1>25. ASSUME DaemonRestart
      PROVE  Sessions'
  <2>1. /\ store' = store
        /\ live' = [k \in Keys |-> None]
        /\ call' = [c \in Callers |-> IdleCall]
        /\ child' = [r \in Rpcs |-> IF child[r].state = "unused" THEN child[r]
                                    ELSE [child[r] EXCEPT !.state = "gone",
                                                          !.onExit = "none"]]
        /\ restart' = [r \in Rpcs |->
                         IF restart[r].pc \in {"load", "spawn", "start", "upsert"}
                         THEN [restart[r] EXCEPT !.pc = "failed"] ELSE restart[r]]
    BY <1>25, Zenon DEF DaemonRestart
  <2>2. \A k \in Keys : live'[k] = None
    BY <2>1
  <2>3. \A c \in Callers : call'[c].pc = "idle"
    BY <2>1 DEF IdleCall
  <2>4. \A r \in Rpcs :
             /\ child'[r].key = child[r].key /\ child'[r].sid = child[r].sid
             /\ child[r].state # "unused" => child'[r].state # "unused"
             /\ child'[r].onExit # "none" => child[r].onExit # "none"
    <3>1. \A r \in Rpcs : child[r] \in ChildRecord
      BY <1>0 DEF TypeOK
    <3>q. QED
      BY <2>1, <3>1 DEF ChildRecord
  <2>5. \A q \in Rpcs : restart'[q].pc \notin {"load", "spawn", "start", "upsert"}
    <3>1. \A q \in Rpcs : restart[q] \in RestartRecord
      BY <1>0 DEF TypeOK
    <3>q. QED
      BY <2>1, <3>1 DEF RestartRecord
  <2>q. QED
    BY <1>0, <2>1, <2>2, <2>3, <2>4, <2>5, SessionsStay
<1>26. ASSUME UNCHANGED vars
      PROVE  Sessions'
  BY <1>0, <1>s, <1>26
     DEF TypeOK, CallRecord, RestartRecord, References, CallRefs, RestartRefs, Owned,
         Sessions,
         KeySessions, CallSessions, ChildSessions, RestartSessions, vars, routerVars
<1>q. QED
  BY <1>1, <1>2, <1>3, <1>4, <1>5, <1>6, <1>7, <1>8, <1>9, <1>10, <1>11, <1>12, <1>13,
     <1>14, <1>15, <1>16, <1>17, <1>18, <1>19, <1>20, <1>21, <1>22, <1>23, <1>24,
     <1>25, <1>26
     DEF Next, Create, Restart

-----------------------------------------------------------------------------
(***************************************************************************)
(* Supervision: who is building which child                                *)
(***************************************************************************)

\* A child is built by one party, and is not routed to, as long as no party
\* takes a child up and no key is newly routed.
LEMMA MakersStay ==
    ASSUME OneMaker, NotRoutedYet,
           \A r \in Rpcs, c \in Callers : CallMakes(c, r)' => CallMakes(c, r),
           \A r \in Rpcs, q \in Rpcs : RestartMakes(q, r)' => RestartMakes(q, r),
           \A k \in Keys : live'[k] \in {None, live[k]}
    PROVE  OneMaker' /\ NotRoutedYet'
<1>1. OneMaker'
  BY DEF OneMaker
<1>2. NotRoutedYet'
  BY SessionRouterAssumption DEF NotRoutedYet
<1>q. QED
  BY <1>1, <1>2

\* A key that stays routed stays supervised when its child is left alone or
\* ends for good, and its lastActive entry is kept.
LEMMA LiveStays ==
    ASSUME LiveIsSupervised,
           \A k \in Keys : live'[k] # None =>
              /\ live'[k] = live[k]
              /\ \/ child'[live[k]] = child[live[k]]
                 \/ child'[live[k]].state = "gone"
              /\ lastActive[k] # "missing" => lastActive'[k] # "missing"
    PROVE  LiveIsSupervised'
  BY DEF LiveIsSupervised

\* A step that takes up no child, and neither routes nor touches one, keeps
\* supervision.
LEMMA QuietStep ==
    ASSUME Supervision,
           \A c \in Callers : call'[c].pc \in {"start", "upsert"} =>
              call'[c].pc = call[c].pc /\ call'[c].rpc = call[c].rpc,
           \A q \in Rpcs : restart'[q].pc \in {"start", "upsert"} =>
              restart'[q].pc = restart[q].pc /\ restart'[q].rpc = restart[q].rpc,
           child' = child, live' = live,
           \A k \in Keys : lastActive[k] # "missing" => lastActive'[k] # "missing"
    PROVE  Supervision'
<1>1. OneMaker' /\ NotRoutedYet'
  <2>1. \A r \in Rpcs, c \in Callers : CallMakes(c, r)' => CallMakes(c, r)
    BY DEF CallMakes
  <2>2. \A r \in Rpcs, q \in Rpcs : RestartMakes(q, r)' => RestartMakes(q, r)
    BY DEF RestartMakes
  <2>q. QED
    BY <2>1, <2>2, MakersStay DEF Supervision
<1>2. Builds'
  BY DEF Supervision, Builds, CallBuilds, RestartBuilds
<1>3. LiveIsSupervised'
  BY LiveStays DEF Supervision
<1>q. QED
  BY <1>1, <1>2, <1>3 DEF Supervision

\* Nobody builds or routes to a child that is unused.
LEMMA UnusedIsFree ==
    ASSUME References, NEW r \in Rpcs, child[r].state = "unused"
    PROVE  /\ \A c \in Callers : ~ CallMakes(c, r)
           /\ \A q \in Rpcs : ~ RestartMakes(q, r)
           /\ \A k \in Keys : live[k] # r
  BY SessionRouterAssumption
     DEF References, CallRefs, RestartRefs, LiveRefs, Owned, CallMakes, RestartMakes

\* Children under construction are children.
LEMMA MadeIsChild ==
    ASSUME References
    PROVE  /\ \A c \in Callers : call[c].pc \in {"start", "upsert"} =>
                call[c].rpc \in Rpcs /\ CallMakes(c, call[c].rpc)
           /\ \A q \in Rpcs : restart[q].pc \in {"start", "upsert"} =>
                restart[q].rpc \in Rpcs /\ RestartMakes(q, restart[q].rpc)
  BY DEF References, CallRefs, RestartRefs, Owned, CallMakes, RestartMakes

\* A shutdown spares the child of every key that stays routed, and every child
\* under construction.
LEMMA ShutdownSpares ==
    ASSUME References, Supervision, NEW ks \in SUBSET Keys, Shutdown(ks),
           UNCHANGED <<call, restart>>
    PROVE  Supervision'
<1>0. OneMaker /\ NotRoutedYet /\ Builds /\ LiveIsSupervised
  BY DEF Supervision
<1>1. \A r \in Rpcs : (\A k \in ks : live[k] # r) => child'[r] = child[r]
  <2> SUFFICES ASSUME NEW r \in Rpcs, \A k \in ks : live[k] # r
               PROVE  child'[r] = child[r]
    OBVIOUS
  <2>1. child'[r] = IF \E k \in ks : live[k] = r
                    THEN [child[r] EXCEPT !.onExit = "none",
                            !.state = IF @ = "ready" THEN "stopping" ELSE @]
                    ELSE child[r]
    BY Zenon DEF Shutdown
  <2>q. QED
    BY <2>1
<1>2. \A k \in Keys : /\ k \in ks => live'[k] = None
                      /\ k \notin ks => live'[k] = live[k] /\ lastActive'[k] = lastActive[k]
  BY Zenon DEF Shutdown
<1>3. \A k \in Keys \ ks : live[k] # None => child'[live[k]] = child[live[k]]
  <2> SUFFICES ASSUME NEW k \in Keys \ ks, live[k] # None,
                      NEW j \in ks, live[j] = live[k]
               PROVE  FALSE
    BY <1>1 DEF References, LiveRefs, Owned
  <2>q. QED
    BY DEF References, LiveRefs, Owned
<1>4. OneMaker' /\ NotRoutedYet'
  <2>1. \A r \in Rpcs, c \in Callers : CallMakes(c, r)' => CallMakes(c, r)
    BY DEF CallMakes
  <2>2. \A r \in Rpcs, q \in Rpcs : RestartMakes(q, r)' => RestartMakes(q, r)
    BY DEF RestartMakes
  <2>q. QED
    BY <1>0, <1>2, <2>1, <2>2, MakersStay
<1>5. Builds'
  <2>1. ASSUME NEW r \in Rpcs,
               (\E c \in Callers : CallMakes(c, r)) \/ (\E q \in Rpcs : RestartMakes(q, r))
        PROVE  child'[r] = child[r]
    BY <1>0, <1>1, <2>1 DEF NotRoutedYet
  <2>q. QED
    BY <1>0, <2>1, MadeIsChild DEF Builds, CallBuilds, RestartBuilds
<1>6. LiveIsSupervised'
  BY <1>0, <1>2, <1>3, LiveStays
<1>q. QED
  BY <1>4, <1>5, <1>6 DEF Supervision

\* Every step keeps supervision.
LEMMA SupervisionStep ==
    ASSUME SInv, [Next]_vars
    PROVE  Supervision'
<1>0. /\ TypeOK /\ References /\ Supervision
      /\ OneMaker /\ NotRoutedYet /\ Builds /\ LiveIsSupervised
  BY DEF SInv, IInv, Supervision
<1>m. /\ \A c \in Callers : call[c].pc \in {"start", "upsert"} =>
                call[c].rpc \in Rpcs /\ CallMakes(c, call[c].rpc)
      /\ \A q \in Rpcs : restart[q].pc \in {"start", "upsert"} =>
                restart[q].rpc \in Rpcs /\ RestartMakes(q, restart[q].rpc)
  BY <1>0, MadeIsChild
<1>1. ASSUME NEW c \in Callers, NEW k \in Keys, LiveHit(c, k)
      PROVE  Supervision'
  <2>1. \A d \in Callers : call'[d].pc \in {"start", "upsert"} =>
           call'[d].pc = call[d].pc /\ call'[d].rpc = call[d].rpc
    BY <1>0, <1>1 DEF TypeOK, IdleCall, LiveHit
  <2>2. \A j \in Keys : lastActive[j] # "missing" => lastActive'[j] # "missing"
    BY <1>0, <1>1 DEF TypeOK, LiveHit, routerVars
  <2>q. QED
    BY <1>0, <1>1, <2>1, <2>2, QuietStep DEF LiveHit, routerVars
<1>2. ASSUME NEW c \in Callers, NEW k \in Keys, JoinPending(c, k)
      PROVE  Supervision'
  <2>1. \A d \in Callers : call'[d].pc \in {"start", "upsert"} =>
           call'[d].pc = call[d].pc /\ call'[d].rpc = call[d].rpc
    BY <1>0, <1>2 DEF TypeOK, IdleCall, JoinPending
  <2>2. \A j \in Keys : lastActive[j] # "missing" => lastActive'[j] # "missing"
    BY <1>0, <1>2 DEF TypeOK, JoinPending, routerVars
  <2>q. QED
    BY <1>0, <1>2, <2>1, <2>2, QuietStep DEF JoinPending, routerVars
<1>3. ASSUME NEW c \in Callers, NEW k \in Keys, NEW m \in Models \cup {None},
             BeginCreate(c, k, m)
      PROVE  Supervision'
  <2>1. \A d \in Callers : call'[d].pc \in {"start", "upsert"} =>
           call'[d].pc = call[d].pc /\ call'[d].rpc = call[d].rpc
    BY <1>0, <1>3 DEF TypeOK, IdleCall, BeginCreate
  <2>2. \A j \in Keys : lastActive[j] # "missing" => lastActive'[j] # "missing"
    BY <1>0, <1>3 DEF TypeOK, BeginCreate, routerVars
  <2>q. QED
    BY <1>0, <1>3, <2>1, <2>2, QuietStep DEF BeginCreate, routerVars
<1>4. ASSUME NEW c \in Callers, CreateLoad(c)
      PROVE  Supervision'
  <2>1. \A d \in Callers : call'[d].pc \in {"start", "upsert"} =>
           call'[d].pc = call[d].pc /\ call'[d].rpc = call[d].rpc
    BY <1>0, <1>4 DEF TypeOK, IdleCall, CreateLoad, CallRecord
  <2>2. \A j \in Keys : lastActive[j] # "missing" => lastActive'[j] # "missing"
    BY <1>0, <1>4 DEF TypeOK, CreateLoad, routerVars
  <2>q. QED
    BY <1>0, <1>4, <2>1, <2>2, QuietStep DEF CreateLoad, routerVars
<1>5. ASSUME NEW c \in Callers, NEW r \in Rpcs, CreateSpawn(c, r)
      PROVE  Supervision'
  <2>0. /\ child[r].state = "unused" /\ child'[r].state = "starting"
        /\ \A s \in Rpcs \ {r} : child'[s] = child[s]
        /\ call'[c].pc = "start" /\ call'[c].rpc = r
        /\ \A d \in Callers \ {c} : call'[d] = call[d]
        /\ UNCHANGED <<live, lastActive, restart>>
    BY <1>0, <1>5 DEF CreateSpawn, Spawned, TypeOK, CallRecord, routerVars
  <2>1. /\ \A c0 \in Callers : ~ CallMakes(c0, r)
        /\ \A q0 \in Rpcs : ~ RestartMakes(q0, r)
        /\ \A k \in Keys : live[k] # r
    BY <1>0, <2>0, UnusedIsFree
  <2>2. OneMaker' /\ NotRoutedYet'
    <3>1. \A s \in Rpcs, d \in Callers : CallMakes(d, s)' =>
             (d = c /\ s = r) \/ CallMakes(d, s)
      BY <2>0 DEF CallMakes
    <3>2. \A s \in Rpcs, d \in Rpcs : RestartMakes(d, s)' = RestartMakes(d, s)
      BY <2>0 DEF RestartMakes
    <3>3. OneMaker'
      BY <1>0, <2>1, <3>1, <3>2 DEF OneMaker
    <3>4. NotRoutedYet'
      BY <1>0, <2>0, <2>1, <3>1, <3>2 DEF NotRoutedYet
    <3>q. QED
      BY <3>3, <3>4
  <2>3. Builds'
    <3>1. /\ \A d \in Callers : call[d].pc \in {"start", "upsert"} => call[d].rpc \in Rpcs \ {r}
          /\ \A q \in Rpcs : restart[q].pc \in {"start", "upsert"} => restart[q].rpc \in Rpcs \ {r}
      BY <1>m, <2>1
    <3>q. QED
      BY <1>0, <2>0, <3>1 DEF Builds, CallBuilds, RestartBuilds
  <2>4. LiveIsSupervised'
    BY <1>0, <2>0, <2>1, LiveStays DEF References, LiveRefs, Owned
  <2>q. QED
    BY <2>2, <2>3, <2>4 DEF Supervision
<1>6. ASSUME NEW c \in Callers, CreateReady(c)
      PROVE  Supervision'
  <2> DEFINE n == call[c].rpc
  <2>0. /\ n \in Rpcs /\ CallMakes(c, n) /\ child'[n].state = "ready"
        /\ \A s \in Rpcs \ {n} : child'[s] = child[s]
        /\ call'[c].pc = "upsert" /\ call'[c].rpc = n
        /\ \A d \in Callers \ {c} : call'[d] = call[d]
        /\ UNCHANGED <<live, lastActive, restart>>
    <3>1. n \in Rpcs /\ CallMakes(c, n)
      BY <1>m, <1>6 DEF CreateReady
    <3>q. QED
      BY <1>0, <1>6, <3>1 DEF CreateReady, TypeOK, CallRecord, ChildRecord, routerVars
  <2> HIDE DEF n
  <2>1. /\ \A d \in Callers \ {c} : ~ CallMakes(d, n)
        /\ \A d \in Rpcs : ~ RestartMakes(d, n)
        /\ \A k \in Keys : live[k] # n
    BY <1>0, <2>0 DEF OneMaker, NotRoutedYet
  <2>2. OneMaker' /\ NotRoutedYet'
    <3>1. \A s \in Rpcs, d \in Callers : CallMakes(d, s)' => CallMakes(d, s)
      BY <2>0 DEF CallMakes
    <3>2. \A s \in Rpcs, d \in Rpcs : RestartMakes(d, s)' => RestartMakes(d, s)
      BY <2>0 DEF RestartMakes
    <3>q. QED
      BY <1>0, <2>0, <3>1, <3>2, MakersStay
  <2>3. Builds'
    <3>1. /\ \A d \in Callers \ {c} : call[d].pc \in {"start", "upsert"} => call[d].rpc \in Rpcs \ {n}
          /\ \A d \in Rpcs : restart[d].pc \in {"start", "upsert"} => restart[d].rpc \in Rpcs \ {n}
      BY <1>m, <2>1
    <3>q. QED
      BY <1>0, <2>0, <3>1 DEF Builds, CallBuilds, RestartBuilds
  <2>4. LiveIsSupervised'
    BY <1>0, <2>0, <2>1, LiveStays DEF References, LiveRefs, Owned
  <2>q. QED
    BY <2>2, <2>3, <2>4 DEF Supervision
<1>7. ASSUME NEW c \in Callers, CreateSpawnFails(c)
      PROVE  Supervision'
  <2>1. \A d \in Callers : call'[d].pc \in {"start", "upsert"} =>
           call'[d].pc = call[d].pc /\ call'[d].rpc = call[d].rpc
    BY <1>0, <1>7 DEF TypeOK, IdleCall, CreateSpawnFails, CallRecord
  <2>2. \A j \in Keys : lastActive[j] # "missing" => lastActive'[j] # "missing"
    BY <1>0, <1>7 DEF TypeOK, CreateSpawnFails, routerVars
  <2>q. QED
    BY <1>0, <1>7, <2>1, <2>2, QuietStep DEF CreateSpawnFails, routerVars
<1>8. ASSUME NEW c \in Callers, NEW fate \in {"gone", "lost"}, CreateStartFails(c, fate)
      PROVE  Supervision'
  <2> DEFINE n == call[c].rpc
  <2>0. /\ n \in Rpcs /\ CallMakes(c, n) /\ child'[n].state = fate
        /\ \A s \in Rpcs \ {n} : child'[s] = child[s]
        /\ call'[c].pc = "settle"
        /\ \A d \in Callers \ {c} : call'[d] = call[d]
        /\ UNCHANGED <<live, lastActive, restart>>
    <3>1. n \in Rpcs /\ CallMakes(c, n)
      BY <1>m, <1>8 DEF CreateStartFails
    <3>q. QED
      BY <1>0, <1>8, <3>1 DEF CreateStartFails, TypeOK, CallRecord, ChildRecord, routerVars
  <2> HIDE DEF n
  <2>1. /\ \A d \in Callers \ {c} : ~ CallMakes(d, n)
        /\ \A d \in Rpcs : ~ RestartMakes(d, n)
        /\ \A k \in Keys : live[k] # n
    BY <1>0, <2>0 DEF OneMaker, NotRoutedYet
  <2>2. OneMaker' /\ NotRoutedYet'
    <3>1. \A s \in Rpcs, d \in Callers : CallMakes(d, s)' => CallMakes(d, s)
      BY <2>0 DEF CallMakes
    <3>2. \A s \in Rpcs, d \in Rpcs : RestartMakes(d, s)' => RestartMakes(d, s)
      BY <2>0 DEF RestartMakes
    <3>q. QED
      BY <1>0, <2>0, <3>1, <3>2, MakersStay
  <2>3. Builds'
    <3>1. /\ \A d \in Callers \ {c} : call[d].pc \in {"start", "upsert"} => call[d].rpc \in Rpcs \ {n}
          /\ \A d \in Rpcs : restart[d].pc \in {"start", "upsert"} => restart[d].rpc \in Rpcs \ {n}
      BY <1>m, <2>1
    <3>q. QED
      BY <1>0, <2>0, <3>1 DEF Builds, CallBuilds, RestartBuilds
  <2>4. LiveIsSupervised'
    BY <1>0, <2>0, <2>1, LiveStays DEF References, LiveRefs, Owned
  <2>q. QED
    BY <2>2, <2>3, <2>4 DEF Supervision
<1>9. ASSUME NEW c \in Callers, CreateUpsert(c)
      PROVE  Supervision'
  <2> DEFINE n == call[c].rpc
             key == call[c].key
  <2>0. /\ n \in Rpcs /\ CallMakes(c, n) /\ child[n].state \in {"ready", "gone"}
        /\ key \in Keys /\ child[n].key = key
    BY <1>0, <1>m, <1>9 DEF CreateUpsert, Builds, CallBuilds, RestartBuilds, References,
       CallRefs, RestartRefs, ChildRefs, Owned
  <2>5. /\ child'[n].state = child[n].state /\ child'[n].onExit = "first"
        /\ \A s \in Rpcs \ {n} : child'[s] = child[s]
        /\ call'[c].pc = "settle"
        /\ \A d \in Callers \ {c} : call'[d] = call[d]
        /\ live'[key] = n /\ lastActive'[key] = "fresh"
        /\ \A j \in Keys \ {key} : live'[j] = live[j] /\ lastActive'[j] = lastActive[j]
        /\ UNCHANGED restart
    BY <1>0, <1>9, <2>0 DEF CreateUpsert, TypeOK, CallRecord, ChildRecord
  <2>6. \A j \in Keys \ {key} : live[j] # n
    BY <1>0, <2>0, SessionRouterAssumption DEF References, LiveRefs, Owned
  <2> HIDE DEF n, key
  <2>1. /\ \A d \in Callers \ {c} : ~ CallMakes(d, n)
        /\ \A d \in Rpcs : ~ RestartMakes(d, n)
    BY <1>0, <2>0 DEF OneMaker
  <2>2. OneMaker' /\ NotRoutedYet'
    <3>1. \A s \in Rpcs, d \in Callers : CallMakes(d, s)' => CallMakes(d, s) /\ s # n
      BY <2>0, <2>1, <2>5 DEF CallMakes
    <3>2. \A s \in Rpcs, d \in Rpcs : RestartMakes(d, s)' => RestartMakes(d, s) /\ s # n
      BY <2>1, <2>5 DEF RestartMakes
    <3>3. OneMaker'
      BY <1>0, <3>1, <3>2 DEF OneMaker
    <3>4. NotRoutedYet'
      BY <1>0, <2>5, <3>1, <3>2 DEF NotRoutedYet
    <3>q. QED
      BY <3>3, <3>4
  <2>3. Builds'
    <3>1. /\ \A d \in Callers \ {c} : call[d].pc \in {"start", "upsert"} => call[d].rpc \in Rpcs \ {n}
          /\ \A d \in Rpcs : restart[d].pc \in {"start", "upsert"} => restart[d].rpc \in Rpcs \ {n}
      BY <1>m, <2>1
    <3>q. QED
      BY <1>0, <2>5, <3>1 DEF Builds, CallBuilds, RestartBuilds
  <2>4. LiveIsSupervised'
    <3>1. \A j \in Keys \ {key} : live[j] # None => child'[live[j]] = child[live[j]]
      BY <1>0, <2>5, <2>6 DEF References, LiveRefs, Owned
    <3>q. QED
      BY <1>0, <2>0, <2>5, <3>1 DEF LiveIsSupervised
  <2>q. QED
    BY <2>2, <2>3, <2>4 DEF Supervision
<1>10. ASSUME NEW c \in Callers, CreateUpsertFails(c)
      PROVE  Supervision'
  <2>1. \A d \in Callers : call'[d].pc \in {"start", "upsert"} =>
           call'[d].pc = call[d].pc /\ call'[d].rpc = call[d].rpc
    BY <1>0, <1>10 DEF TypeOK, IdleCall, CreateUpsertFails, CallRecord
  <2>2. \A j \in Keys : lastActive[j] # "missing" => lastActive'[j] # "missing"
    BY <1>0, <1>10 DEF TypeOK, CreateUpsertFails, routerVars
  <2>q. QED
    BY <1>0, <1>10, <2>1, <2>2, QuietStep DEF CreateUpsertFails, routerVars
<1>11. ASSUME NEW c \in Callers, CreateSettle(c)
      PROVE  Supervision'
  <2>1. \A d \in Callers : call'[d].pc \in {"start", "upsert"} =>
           call'[d].pc = call[d].pc /\ call'[d].rpc = call[d].rpc
    BY <1>0, <1>11 DEF TypeOK, IdleCall, CreateSettle, CallRecord
  <2>2. \A j \in Keys : lastActive[j] # "missing" => lastActive'[j] # "missing"
    BY <1>0, <1>11 DEF TypeOK, CreateSettle, routerVars
  <2>q. QED
    BY <1>0, <1>11, <2>1, <2>2, QuietStep DEF CreateSettle, routerVars
<1>12. ASSUME NEW c \in Callers, NEW record \in BOOLEAN, Finish(c, record)
      PROVE  Supervision'
  <2>1. \A d \in Callers : call'[d].pc \in {"start", "upsert"} =>
           call'[d].pc = call[d].pc /\ call'[d].rpc = call[d].rpc
    BY <1>0, <1>12 DEF TypeOK, IdleCall, Finish
  <2>2. \A j \in Keys : lastActive[j] # "missing" => lastActive'[j] # "missing"
    BY <1>0, <1>12 DEF TypeOK, Finish, routerVars
  <2>q. QED
    BY <1>0, <1>12, <2>1, <2>2, QuietStep DEF Finish, routerVars
<1>13. ASSUME NEW r \in Rpcs, RestartLoad(r)
      PROVE  Supervision'
  <2>1. \A q \in Rpcs : restart'[q].pc \in {"start", "upsert"} =>
           restart'[q].pc = restart[q].pc /\ restart'[q].rpc = restart[q].rpc
    BY <1>0, <1>13 DEF TypeOK, RestartRecord, RestartLoad
  <2>2. \A j \in Keys : lastActive[j] # "missing" => lastActive'[j] # "missing"
    BY <1>0, <1>13 DEF TypeOK, RestartLoad, routerVars
  <2>q. QED
    BY <1>0, <1>13, <2>1, <2>2, QuietStep DEF RestartLoad, routerVars
<1>14. ASSUME NEW r \in Rpcs, NEW n \in Rpcs, RestartSpawn(r, n)
      PROVE  Supervision'
  <2>0. /\ child[n].state = "unused" /\ child'[n].state = "starting"
        /\ \A s \in Rpcs \ {n} : child'[s] = child[s]
        /\ restart'[r].pc = "start" /\ restart'[r].rpc = n
        /\ \A d \in Rpcs \ {r} : restart'[d] = restart[d]
        /\ UNCHANGED <<live, lastActive, call>>
    BY <1>0, <1>14 DEF RestartSpawn, Spawned, TypeOK, RestartRecord, routerVars
  <2>1. /\ \A c0 \in Callers : ~ CallMakes(c0, n)
        /\ \A q0 \in Rpcs : ~ RestartMakes(q0, n)
        /\ \A k \in Keys : live[k] # n
    BY <1>0, <2>0, UnusedIsFree
  <2>2. OneMaker' /\ NotRoutedYet'
    <3>1. \A s \in Rpcs, d \in Rpcs : RestartMakes(d, s)' =>
             (d = r /\ s = n) \/ RestartMakes(d, s)
      BY <2>0 DEF RestartMakes
    <3>2. \A s \in Rpcs, d \in Callers : CallMakes(d, s)' = CallMakes(d, s)
      BY <2>0 DEF CallMakes
    <3>3. OneMaker'
      BY <1>0, <2>1, <3>1, <3>2 DEF OneMaker
    <3>4. NotRoutedYet'
      BY <1>0, <2>0, <2>1, <3>1, <3>2 DEF NotRoutedYet
    <3>q. QED
      BY <3>3, <3>4
  <2>3. Builds'
    <3>1. /\ \A d \in Callers : call[d].pc \in {"start", "upsert"} => call[d].rpc \in Rpcs \ {n}
          /\ \A q \in Rpcs : restart[q].pc \in {"start", "upsert"} => restart[q].rpc \in Rpcs \ {n}
      BY <1>m, <2>1
    <3>q. QED
      BY <1>0, <2>0, <3>1 DEF Builds, CallBuilds, RestartBuilds
  <2>4. LiveIsSupervised'
    BY <1>0, <2>0, <2>1, LiveStays DEF References, LiveRefs, Owned
  <2>q. QED
    BY <2>2, <2>3, <2>4 DEF Supervision
<1>15. ASSUME NEW r \in Rpcs, RestartReady(r)
      PROVE  Supervision'
  <2> DEFINE n == restart[r].rpc
  <2>0. /\ n \in Rpcs /\ RestartMakes(r, n) /\ child'[n].state = "ready"
        /\ \A s \in Rpcs \ {n} : child'[s] = child[s]
        /\ restart'[r].pc = "upsert" /\ restart'[r].rpc = n
        /\ \A d \in Rpcs \ {r} : restart'[d] = restart[d]
        /\ UNCHANGED <<live, lastActive, call>>
    <3>1. n \in Rpcs /\ RestartMakes(r, n)
      BY <1>m, <1>15 DEF RestartReady
    <3>q. QED
      BY <1>0, <1>15, <3>1 DEF RestartReady, TypeOK, RestartRecord, ChildRecord, routerVars
  <2> HIDE DEF n
  <2>1. /\ \A d \in Rpcs \ {r} : ~ RestartMakes(d, n)
        /\ \A d \in Callers : ~ CallMakes(d, n)
        /\ \A k \in Keys : live[k] # n
    BY <1>0, <2>0 DEF OneMaker, NotRoutedYet
  <2>2. OneMaker' /\ NotRoutedYet'
    <3>1. \A s \in Rpcs, d \in Rpcs : RestartMakes(d, s)' => RestartMakes(d, s)
      BY <2>0 DEF RestartMakes
    <3>2. \A s \in Rpcs, d \in Callers : CallMakes(d, s)' => CallMakes(d, s)
      BY <2>0 DEF CallMakes
    <3>q. QED
      BY <1>0, <2>0, <3>1, <3>2, MakersStay
  <2>3. Builds'
    <3>1. /\ \A d \in Rpcs \ {r} : restart[d].pc \in {"start", "upsert"} => restart[d].rpc \in Rpcs \ {n}
          /\ \A d \in Callers : call[d].pc \in {"start", "upsert"} => call[d].rpc \in Rpcs \ {n}
      BY <1>m, <2>1
    <3>q. QED
      BY <1>0, <2>0, <3>1 DEF Builds, CallBuilds, RestartBuilds
  <2>4. LiveIsSupervised'
    BY <1>0, <2>0, <2>1, LiveStays DEF References, LiveRefs, Owned
  <2>q. QED
    BY <2>2, <2>3, <2>4 DEF Supervision
<1>16. ASSUME NEW r \in Rpcs, RestartSpawnFails(r)
      PROVE  Supervision'
  <2>1. \A q \in Rpcs : restart'[q].pc \in {"start", "upsert"} =>
           restart'[q].pc = restart[q].pc /\ restart'[q].rpc = restart[q].rpc
    BY <1>0, <1>16 DEF TypeOK, RestartRecord, RestartSpawnFails
  <2>2. \A j \in Keys : lastActive[j] # "missing" => lastActive'[j] # "missing"
    BY <1>0, <1>16 DEF TypeOK, RestartSpawnFails, routerVars
  <2>q. QED
    BY <1>0, <1>16, <2>1, <2>2, QuietStep DEF RestartSpawnFails, routerVars
<1>17. ASSUME NEW r \in Rpcs, NEW fate \in {"gone", "lost"}, RestartStartFails(r, fate)
      PROVE  Supervision'
  <2> DEFINE n == restart[r].rpc
  <2>0. /\ n \in Rpcs /\ RestartMakes(r, n) /\ child'[n].state = fate
        /\ \A s \in Rpcs \ {n} : child'[s] = child[s]
        /\ restart'[r].pc = "failed"
        /\ \A d \in Rpcs \ {r} : restart'[d] = restart[d]
        /\ UNCHANGED <<live, lastActive, call>>
    <3>1. n \in Rpcs /\ RestartMakes(r, n)
      BY <1>m, <1>17 DEF RestartStartFails
    <3>q. QED
      BY <1>0, <1>17, <3>1 DEF RestartStartFails, TypeOK, RestartRecord, ChildRecord, routerVars
  <2> HIDE DEF n
  <2>1. /\ \A d \in Rpcs \ {r} : ~ RestartMakes(d, n)
        /\ \A d \in Callers : ~ CallMakes(d, n)
        /\ \A k \in Keys : live[k] # n
    BY <1>0, <2>0 DEF OneMaker, NotRoutedYet
  <2>2. OneMaker' /\ NotRoutedYet'
    <3>1. \A s \in Rpcs, d \in Rpcs : RestartMakes(d, s)' => RestartMakes(d, s)
      BY <2>0 DEF RestartMakes
    <3>2. \A s \in Rpcs, d \in Callers : CallMakes(d, s)' => CallMakes(d, s)
      BY <2>0 DEF CallMakes
    <3>q. QED
      BY <1>0, <2>0, <3>1, <3>2, MakersStay
  <2>3. Builds'
    <3>1. /\ \A d \in Rpcs \ {r} : restart[d].pc \in {"start", "upsert"} => restart[d].rpc \in Rpcs \ {n}
          /\ \A d \in Callers : call[d].pc \in {"start", "upsert"} => call[d].rpc \in Rpcs \ {n}
      BY <1>m, <2>1
    <3>q. QED
      BY <1>0, <2>0, <3>1 DEF Builds, CallBuilds, RestartBuilds
  <2>4. LiveIsSupervised'
    BY <1>0, <2>0, <2>1, LiveStays DEF References, LiveRefs, Owned
  <2>q. QED
    BY <2>2, <2>3, <2>4 DEF Supervision
<1>18. ASSUME NEW r \in Rpcs, NEW saved \in BOOLEAN, RestartUpsert(r, saved)
      PROVE  Supervision'
  <2> DEFINE n == restart[r].rpc
             key == child[r].key
  <2>0. /\ n \in Rpcs /\ RestartMakes(r, n) /\ child[n].state \in {"ready", "gone"}
        /\ key \in Keys /\ child[n].key = key
    BY <1>0, <1>m, <1>18 DEF RestartUpsert, Builds, CallBuilds, RestartBuilds, References,
       CallRefs, RestartRefs, ChildRefs, Owned
  <2>5. /\ child'[n].state = child[n].state /\ child'[n].onExit = "second"
        /\ \A s \in Rpcs \ {n} : child'[s] = child[s]
        /\ restart'[r].pc = "done"
        /\ \A d \in Rpcs \ {r} : restart'[d] = restart[d]
        /\ live'[key] = n /\ lastActive'[key] = "fresh"
        /\ \A j \in Keys \ {key} : live'[j] = live[j] /\ lastActive'[j] = lastActive[j]
        /\ UNCHANGED call
    BY <1>0, <1>18, <2>0 DEF RestartUpsert, TypeOK, RestartRecord, ChildRecord
  <2>6. \A j \in Keys \ {key} : live[j] # n
    BY <1>0, <2>0, SessionRouterAssumption DEF References, LiveRefs, Owned
  <2> HIDE DEF n, key
  <2>1. /\ \A d \in Rpcs \ {r} : ~ RestartMakes(d, n)
        /\ \A d \in Callers : ~ CallMakes(d, n)
    BY <1>0, <2>0 DEF OneMaker
  <2>2. OneMaker' /\ NotRoutedYet'
    <3>1. \A s \in Rpcs, d \in Rpcs : RestartMakes(d, s)' => RestartMakes(d, s) /\ s # n
      BY <2>0, <2>1, <2>5 DEF RestartMakes
    <3>2. \A s \in Rpcs, d \in Callers : CallMakes(d, s)' => CallMakes(d, s) /\ s # n
      BY <2>1, <2>5 DEF CallMakes
    <3>3. OneMaker'
      BY <1>0, <3>1, <3>2 DEF OneMaker
    <3>4. NotRoutedYet'
      BY <1>0, <2>5, <3>1, <3>2 DEF NotRoutedYet
    <3>q. QED
      BY <3>3, <3>4
  <2>3. Builds'
    <3>1. /\ \A d \in Rpcs \ {r} : restart[d].pc \in {"start", "upsert"} => restart[d].rpc \in Rpcs \ {n}
          /\ \A d \in Callers : call[d].pc \in {"start", "upsert"} => call[d].rpc \in Rpcs \ {n}
      BY <1>m, <2>1
    <3>q. QED
      BY <1>0, <2>5, <3>1 DEF Builds, CallBuilds, RestartBuilds
  <2>4. LiveIsSupervised'
    <3>1. \A j \in Keys \ {key} : live[j] # None => child'[live[j]] = child[live[j]]
      BY <1>0, <2>5, <2>6 DEF References, LiveRefs, Owned
    <3>q. QED
      BY <1>0, <2>0, <2>5, <3>1 DEF LiveIsSupervised
  <2>q. QED
    BY <2>2, <2>3, <2>4 DEF Supervision
<1>19. ASSUME NEW r \in Rpcs, NEW clean \in BOOLEAN, Exit(r, clean)
      PROVE  Supervision'
  <2>0. /\ child[r].state = "ready" /\ child'[r].state = "gone"
        /\ \A s \in Rpcs \ {r} : child'[s] = child[s]
        /\ \A k \in Keys : live'[k] \in {None, live[k]}
        /\ \A q \in Rpcs : restart'[q].pc \in {"start", "upsert"} => restart'[q] = restart[q]
        /\ UNCHANGED <<lastActive, call>>
    BY <1>0, <1>19 DEF Exit, Unrouted, TypeOK, RestartRecord, ChildRecord
  <2>2. OneMaker' /\ NotRoutedYet'
    <3>1. \A s \in Rpcs, d \in Callers : CallMakes(d, s)' => CallMakes(d, s)
      BY <2>0 DEF CallMakes
    <3>2. \A s \in Rpcs, q \in Rpcs : RestartMakes(q, s)' => RestartMakes(q, s)
      BY <2>0 DEF RestartMakes
    <3>q. QED
      BY <1>0, <2>0, <3>1, <3>2, MakersStay
  <2>3. Builds'
    BY <1>0, <1>m, <2>0 DEF Builds, CallBuilds, RestartBuilds
  <2>4. LiveIsSupervised'
    <3>1. \A k \in Keys : live[k] # None =>
             child'[live[k]] = child[live[k]] \/ child'[live[k]].state = "gone"
      BY <1>0, <2>0 DEF References, LiveRefs, Owned
    <3>q. QED
      BY <1>0, <2>0, <3>1, LiveStays
  <2>q. QED
    BY <2>2, <2>3, <2>4 DEF Supervision
<1>20. ASSUME NEW r \in Rpcs, UnheardExit(r)
      PROVE  Supervision'
  <2>0. /\ child[r].state \in {"lost", "stopping"} /\ child'[r].state = "gone"
        /\ \A s \in Rpcs \ {r} : child'[s] = child[s]
        /\ UNCHANGED <<live, lastActive, call, restart>>
    BY <1>0, <1>20 DEF UnheardExit, TypeOK, ChildRecord, routerVars
  <2>2. OneMaker' /\ NotRoutedYet'
    BY <1>0, <2>0, MakersStay DEF CallMakes, RestartMakes
  <2>3. Builds'
    BY <1>0, <1>m, <2>0 DEF Builds, CallBuilds, RestartBuilds
  <2>4. LiveIsSupervised'
    <3>1. \A k \in Keys : live[k] # None =>
             child'[live[k]] = child[live[k]] \/ child'[live[k]].state = "gone"
      BY <1>0, <2>0 DEF References, LiveRefs, Owned
    <3>q. QED
      BY <1>0, <2>0, <3>1, LiveStays
  <2>q. QED
    BY <2>2, <2>3, <2>4 DEF Supervision
<1>21. ASSUME NEW k \in Keys, CloseSession(k)
      PROVE  Supervision'
  BY <1>0, <1>21, ShutdownSpares DEF CloseSession
<1>22. ASSUME ReapIdle
      PROVE  Supervision'
  BY <1>0, <1>22, ShutdownSpares DEF ReapIdle, Idle
<1>23. ASSUME NEW k \in Keys, TtlPasses(k)
      PROVE  Supervision'
  <2>2. \A j \in Keys : lastActive[j] # "missing" => lastActive'[j] # "missing"
    BY <1>0, <1>23 DEF TypeOK, TtlPasses, routerVars
  <2>q. QED
    BY <1>0, <1>23, <2>2, QuietStep DEF TtlPasses, routerVars
<1>24. ASSUME Stop
      PROVE  Supervision'
  BY <1>0, <1>24, ShutdownSpares DEF Stop
<1>25. ASSUME DaemonRestart
      PROVE  Supervision'
  <2>1. /\ \A c \in Callers : call'[c].pc = "idle"
        /\ \A q \in Rpcs : restart'[q].pc \notin {"start", "upsert"}
        /\ \A k \in Keys : live'[k] = None
    <3>1. /\ live' = [k \in Keys |-> None]
          /\ call' = [c \in Callers |-> IdleCall]
          /\ restart' = [r \in Rpcs |->
                IF restart[r].pc \in {"load", "spawn", "start", "upsert"}
                THEN [restart[r] EXCEPT !.pc = "failed"] ELSE restart[r]]
      BY <1>25, Zenon DEF DaemonRestart
    <3>2. restart \in [Rpcs -> RestartRecord]
      BY <1>0 DEF TypeOK
    <3>3. \A q \in Rpcs : restart'[q].pc \notin {"start", "upsert"}
      <4> SUFFICES ASSUME NEW q \in Rpcs PROVE restart'[q].pc \notin {"start", "upsert"}
        OBVIOUS
      <4>1. CASE restart[q].pc \in {"load", "spawn", "start", "upsert"}
        BY <3>1, <3>2, <4>1 DEF RestartRecord
      <4>2. CASE restart[q].pc \notin {"load", "spawn", "start", "upsert"}
        BY <3>1, <3>2, <4>2
      <4>q. QED
        BY <4>1, <4>2
    <3>q. QED
      BY <3>1, <3>3 DEF IdleCall
  <2>q. QED
    BY <2>1, SessionRouterAssumption
       DEF Supervision, OneMaker, NotRoutedYet, CallMakes, RestartMakes, Builds,
           CallBuilds, RestartBuilds, LiveIsSupervised
<1>26. ASSUME UNCHANGED vars
      PROVE  Supervision'
  BY <1>0, <1>26, QuietStep DEF vars
<1>q. QED
  BY <1>1, <1>2, <1>3, <1>4, <1>5, <1>6, <1>7, <1>8, <1>9, <1>10, <1>11, <1>12, <1>13,
     <1>14, <1>15, <1>16, <1>17, <1>18, <1>19, <1>20, <1>21, <1>22, <1>23, <1>24,
     <1>25, <1>26
     DEF Next, Create, Restart

-----------------------------------------------------------------------------
(***************************************************************************)
(* What a step does to the conversations                                   *)
(***************************************************************************)

\* While the store can be read, a step either stops serving some conversations
\* or starts to serve one, with the session it has or with one of its own.
LEMMA ConversationStep ==
    ASSUME IInv, ~ReadFaults, [Next]_vars
    PROVE  \/ /\ \A j \in Keys : live'[j] \in {None, live[j]}
              /\ store' = store
           \/ \E k \in Keys, s \in Rpcs :
                /\ live'[k] # None /\ store'[k].sid = s
                /\ store[k].sid \in {None, s}
                /\ \A j \in Keys \ {k} : /\ live'[j] = live[j]
                                         /\ store'[j].sid = store[j].sid
                                         /\ store[j].sid # s
<1> DEFINE Releases == (\A j \in Keys : live'[j] \in {None, live[j]}) /\ store' = store
           Serves(k, s) == /\ live'[k] # None /\ store'[k].sid = s
                           /\ store[k].sid \in {None, s}
                           /\ \A j \in Keys \ {k} : /\ live'[j] = live[j]
                                                    /\ store'[j].sid = store[j].sid
                                                    /\ store[j].sid # s
<1>0. TypeOK /\ References /\ Sessions
  BY DEF IInv
<1>o. \A r, j, k : Owned(r, j) /\ Owned(r, k) => j = k
  BY DEF Owned
<1>1. ASSUME NEW c \in Callers, NEW k \in Keys, LiveHit(c, k)
      PROVE  Releases
  BY <1>1 DEF LiveHit, routerVars
<1>2. ASSUME NEW c \in Callers, NEW k \in Keys, JoinPending(c, k)
      PROVE  Releases
  BY <1>2 DEF JoinPending, routerVars
<1>3. ASSUME NEW c \in Callers, NEW k \in Keys, NEW m \in Models \cup {None},
BeginCreate(c, k, m)
      PROVE  Releases
  BY <1>3 DEF BeginCreate, routerVars
<1>4. ASSUME NEW c \in Callers, CreateLoad(c)
      PROVE  Releases
  BY <1>4 DEF CreateLoad, routerVars
<1>5. ASSUME NEW c \in Callers, NEW r \in Rpcs, CreateSpawn(c, r)
      PROVE  Releases
  BY <1>5 DEF CreateSpawn, routerVars
<1>6. ASSUME NEW c \in Callers, CreateReady(c)
      PROVE  Releases
  BY <1>6 DEF CreateReady, routerVars
<1>7. ASSUME NEW c \in Callers, CreateSpawnFails(c)
      PROVE  Releases
  BY <1>7 DEF CreateSpawnFails, routerVars
<1>8. ASSUME NEW c \in Callers, NEW fate \in {"gone", "lost"}, CreateStartFails(c, fate)
      PROVE  Releases
  BY <1>8 DEF CreateStartFails, routerVars
<1>9. ASSUME NEW c \in Callers, CreateUpsert(c)
      PROVE  \E k \in Keys, s \in Rpcs : Serves(k, s)
  <2> DEFINE k == call[c].key
             n == call[c].rpc
             s == child[n].sid
  <2>1. k \in Keys /\ n \in Rpcs /\ Owned(n, k) /\ n # None
    BY <1>0, <1>9, SessionRouterAssumption
       DEF References, CallRefs, RestartRefs, ChildRefs, Owned, CreateUpsert
  <2>2. /\ store[k].sid \in {None, s}
        /\ s = n \/ (s = store[k].sid /\ store[k].sid # None)
    BY <1>0, <1>9 DEF Sessions, CallSessions, CreateUpsert
  <2>3. store' = [store EXCEPT ![k] = ReadyInfo(n)]
    BY <1>9 DEF CreateUpsert, Upserted
  <2>4. Owned(s, k) /\ s \in Rpcs
    BY <1>0, <2>1, <2>2 DEF Sessions, KeySessions, Owned
  <2>5. store'[k].sid = s /\ \A j \in Keys \ {k} : store'[j].sid = store[j].sid
    BY <1>0, <2>1, <2>2, <2>3 DEF TypeOK, ReadyInfo
  <2>6. live' = [live EXCEPT ![k] = n]
    BY <1>9 DEF CreateUpsert
  <2>7. live'[k] # None /\ \A j \in Keys \ {k} : live'[j] = live[j]
    BY <1>0, <2>1, <2>6 DEF TypeOK
  <2>8. \A j \in Keys \ {k} : store[j].sid # s
    BY <1>0, <1>o, <2>1, <2>4, SessionRouterAssumption DEF Sessions, KeySessions
  <2>9. Serves(k, s)
    BY <2>2, <2>5, <2>7, <2>8
  <2>q. QED
    BY <2>1, <2>4, <2>9
<1>10. ASSUME NEW c \in Callers, CreateUpsertFails(c)
      PROVE  Releases
  BY <1>10 DEF CreateUpsertFails, routerVars
<1>11. ASSUME NEW c \in Callers, CreateSettle(c)
      PROVE  Releases
  BY <1>11 DEF CreateSettle, routerVars
<1>12. ASSUME NEW c \in Callers, NEW record \in BOOLEAN, Finish(c, record)
      PROVE  Releases
  BY <1>12 DEF Finish, routerVars
<1>13. ASSUME NEW r \in Rpcs, RestartLoad(r)
      PROVE  Releases
  BY <1>13 DEF RestartLoad, routerVars
<1>14. ASSUME NEW r \in Rpcs, NEW n \in Rpcs, RestartSpawn(r, n)
      PROVE  Releases
  BY <1>14 DEF RestartSpawn, routerVars
<1>15. ASSUME NEW r \in Rpcs, RestartReady(r)
      PROVE  Releases
  BY <1>15 DEF RestartReady, routerVars
<1>16. ASSUME NEW r \in Rpcs, RestartSpawnFails(r)
      PROVE  Releases
  BY <1>16 DEF RestartSpawnFails, routerVars
<1>17. ASSUME NEW r \in Rpcs, NEW fate \in {"gone", "lost"}, RestartStartFails(r, fate)
      PROVE  Releases
  BY <1>17 DEF RestartStartFails, routerVars
<1>18. ASSUME NEW r \in Rpcs, NEW saved \in BOOLEAN, RestartUpsert(r, saved)
      PROVE  \E k \in Keys, s \in Rpcs : Serves(k, s)
  <2> DEFINE k == child[r].key
             n == restart[r].rpc
             s == child[n].sid
  <2>1. k \in Keys /\ n \in Rpcs /\ Owned(n, k) /\ n # None
    BY <1>0, <1>18, SessionRouterAssumption
       DEF References, CallRefs, RestartRefs, ChildRefs, Owned, RestartUpsert
  <2>2. s = store[k].sid /\ store[k].sid # None
    BY <1>0, <1>18 DEF Sessions, RestartSessions, RestartUpsert
  <2>3. store' \in {store, [store EXCEPT ![k] = ReadyInfo(n)]}
    BY <1>18 DEF RestartUpsert, Upserted
  <2>4. Owned(s, k) /\ s \in Rpcs
    BY <1>0, <2>1, <2>2 DEF Sessions, KeySessions, Owned
  <2>5. store'[k].sid = s /\ \A j \in Keys \ {k} : store'[j].sid = store[j].sid
    BY <1>0, <2>1, <2>2, <2>3 DEF TypeOK, ReadyInfo
  <2>6. live' = [live EXCEPT ![k] = n]
    BY <1>18 DEF RestartUpsert
  <2>7. live'[k] # None /\ \A j \in Keys \ {k} : live'[j] = live[j]
    BY <1>0, <2>1, <2>6 DEF TypeOK
  <2>8. \A j \in Keys \ {k} : store[j].sid # s
    BY <1>0, <1>o, <2>1, <2>4, SessionRouterAssumption DEF Sessions, KeySessions
  <2>9. Serves(k, s)
    BY <2>2, <2>5, <2>7, <2>8
  <2>q. QED
    BY <2>1, <2>4, <2>9
<1>19. ASSUME NEW r \in Rpcs, NEW clean \in BOOLEAN, Exit(r, clean)
      PROVE  Releases
  BY <1>19 DEF Exit, Unrouted, routerVars
<1>20. ASSUME NEW r \in Rpcs, UnheardExit(r)
      PROVE  Releases
  BY <1>20 DEF UnheardExit, routerVars
<1>21. ASSUME NEW k \in Keys, CloseSession(k)
      PROVE  Releases
  BY <1>0, <1>21, ShutdownKeeps DEF CloseSession
<1>22. ASSUME ReapIdle
      PROVE  Releases
  BY <1>0, <1>22, ShutdownKeeps DEF ReapIdle
<1>23. ASSUME NEW k \in Keys, TtlPasses(k)
      PROVE  Releases
  BY <1>23 DEF TtlPasses, routerVars
<1>24. ASSUME Stop
      PROVE  Releases
  BY <1>0, <1>24, ShutdownKeeps DEF Stop
<1>25. ASSUME DaemonRestart
      PROVE  Releases
  BY <1>25 DEF DaemonRestart, routerVars
<1>26. ASSUME UNCHANGED vars
      PROVE  Releases
  BY <1>26 DEF vars, routerVars
<1>q. QED
  BY <1>1, <1>2, <1>3, <1>4, <1>5, <1>6, <1>7, <1>8, <1>9, <1>10, <1>11, <1>12, <1>13,
     <1>14, <1>15, <1>16, <1>17, <1>18, <1>19, <1>20, <1>21, <1>22, <1>23, <1>24,
     <1>25, <1>26
     DEF Next, Create, Restart

-----------------------------------------------------------------------------
(***************************************************************************)
(* Theorems                                                                *)
(***************************************************************************)

\* IInv holds in every reachable state; the invariants follow from it.
THEOREM Inductive == Spec => []IInv
<1>1. Init => IInv
  <2> SUFFICES ASSUME Init PROVE IInv
    OBVIOUS
  <2>1. TypeOK
    BY DEF Init, TypeOK, IdleCall, NewChild, NoRestart, NoRecord, CallRecord,
           ChildRecord, RestartRecord, StoreRecord
  <2>2. References
    BY DEF Init, References, ChildRefs, LiveRefs, CallRefs, RestartRefs, IdleCall,
           NewChild, NoRestart
  <2>3. Promises
    BY DEF Init, Promises, IdleCall
  <2>4. Sessions
    BY DEF Init, Sessions, KeySessions, CallSessions, ChildSessions, RestartSessions,
           IdleCall, NewChild, NoRestart, NoRecord
  <2>q. QED
    BY <2>1, <2>2, <2>3, <2>4 DEF IInv
<1>2. IInv /\ [Next]_vars => IInv'
  BY TypeStep, ReferencesStep, PromisesStep, SessionsStep DEF IInv
<1>q. QED
  BY <1>1, <1>2, PTL DEF Spec

\* The variables keep their types.
THEOREM TypeCorrect == Spec => []TypeOK
<1>1. IInv => TypeOK
  BY DEF IInv
<1>q. QED
  BY <1>1, Inductive, PTL

\* Concurrent calls for a key share one creation.
THEOREM CreationIsShared == Spec => []SingleFlight
<1>1. IInv => SingleFlight
  BY DEF IInv, Promises, SingleFlight
<1>q. QED
  BY <1>1, Inductive, PTL

\* No call waits for a creation that is over.
THEOREM NoWaiterIsForgotten == Spec => []WaitersHaveACreator
<1>1. IInv => WaitersHaveACreator
  BY DEF IInv, TypeOK, References, CallRefs, Promises, WaitersHaveACreator
<1>q. QED
  BY <1>1, Inductive, PTL

\* No conversation reaches a child built for another.
THEOREM ConversationsAreSeparate == Spec => []RoutesToOwnKey
<1>1. IInv => RoutesToOwnKey
  BY DEF IInv, References, LiveRefs, CallRefs, Owned, RoutesToOwnKey
<1>q. QED
  BY <1>1, Inductive, PTL

\* The child a key routes to is listened to while it runs, and is never one
\* that was shut down or given up.
THEOREM LiveSessionsAreSupervised == Spec => []LiveIsSupervised
<1>1. Init => Supervision
  BY SessionRouterAssumption
     DEF Init, Supervision, OneMaker, NotRoutedYet, CallMakes, RestartMakes, Builds,
         CallBuilds, RestartBuilds, LiveIsSupervised, IdleCall, NoRestart
<1>2. IInv /\ Supervision /\ [Next]_vars => Supervision'
  BY SupervisionStep DEF SInv
<1>3. Supervision => LiveIsSupervised
  BY DEF Supervision
<1>q. QED
  BY <1>1, <1>2, <1>3, Inductive, PTL DEF Spec

\* While sessions.json can be read, a conversation never loses its session.
THEOREM SessionsAreKept ==
    ASSUME ~ReadFaults
    PROVE  Spec => SessionIsKept
<1>1. IInv /\ [Next]_vars =>
        [\A k \in Keys : store[k].sid # None => store'[k].sid = store[k].sid]_vars
  BY ConversationStep DEF vars
<1>q. QED
  BY <1>1, Inductive, PTL DEF Spec, SessionIsKept

\* While sessions.json can be read, the router implements Conversations.
THEOREM RouterImplements ==
    ASSUME ~ReadFaults
    PROVE  Spec => ImplementsConversations
<1>1. Init => C!Init
  <2> SUFFICES ASSUME Init PROVE C!Init
    OBVIOUS
  <2>1. [k \in Keys |-> store[k].sid] = [k \in Keys |-> None]
    BY DEF Init, NoRecord
  <2>2. [k \in Keys |-> live[k] # None] = [k \in Keys |-> FALSE]
    BY DEF Init
  <2>q. QED
    BY <2>1, <2>2 DEF C!Init
<1>2. IInv /\ [Next]_vars =>
        [C!Next]_<<[k \in Keys |-> store[k].sid], [k \in Keys |-> live[k] # None]>>
  <2> SUFFICES ASSUME IInv, [Next]_vars
               PROVE  C!Next
    OBVIOUS
  <2>1. CASE (\A j \in Keys : live'[j] \in {None, live[j]}) /\ store' = store
    <3>0. PICK ks \in SUBSET Keys : ks = {k \in Keys : live'[k] = None}
      OBVIOUS
    <3>1. [k \in Keys |-> live'[k] # None]
             = [k \in Keys |-> [j \in Keys |-> live[j] # None][k] /\ k \notin ks]
      BY <2>1, <3>0
    <3>2. C!Release(ks)
      BY <2>1, <3>1 DEF C!Release
    <3>q. QED
      BY <3>2 DEF C!Next
  <2>2. ASSUME NEW k \in Keys, NEW s \in Rpcs,
               /\ live'[k] # None /\ store'[k].sid = s
               /\ store[k].sid \in {None, s}
               /\ \A j \in Keys \ {k} : /\ live'[j] = live[j]
                                        /\ store'[j].sid = store[j].sid
                                        /\ store[j].sid # s
        PROVE  C!Next
    <3>1. C!Serve(k, s)
      BY <2>2 DEF C!Serve
    <3>q. QED
      BY <3>1 DEF C!Next
  <2>q. QED
    BY <2>1, <2>2, ConversationStep
<1>q. QED
  BY <1>1, <1>2, Inductive, PTL DEF Spec, ImplementsConversations, C!Spec
=============================================================================
