---------------------------- MODULE SessionRouter ----------------------------
(***************************************************************************)
(* bridge/core/session-router.js: one synaps rpc child per conversation.   *)
(*                                                                         *)
(* The router runs on one JavaScript thread; an action is what it does     *)
(* between two awaits.  Three kinds of activity interleave: calls of       *)
(* getOrCreateSession (Callers), automatic restarts (one per dead child),  *)
(* and the children themselves, which become ready, exit and are shut      *)
(* down.  SessionStore is seen here through its results only: load()       *)
(* returns the records, upsert() replaces one (SessionStore.tla has its    *)
(* steps).  A child that is not resumed with --continue opens a session    *)
(* of its own, named here by the child that opened it.                     *)
(***************************************************************************)
EXTENDS Naturals, FiniteSets

CONSTANTS
    Keys,          \* sessionKey(source, conversation, thread)
    Callers,       \* calls of getOrCreateSession that may overlap
    Rpcs,          \* the SynapsRpc instances that may ever be built (a bound)
    Models,        \* model names
    DefaultModel,  \* config.rpc.default_model
    None,
    ReadFaults,    \* TRUE: SessionStore.load() may fail to read and return {}
    Untimed        \* the children whose start() nothing bounds in time

ASSUME SessionRouterAssumption ==
    /\ None \notin Keys \cup Callers \cup Rpcs \cup Models
    /\ DefaultModel \in Models
    /\ ReadFaults \in BOOLEAN
    /\ Untimed \subseteq Rpcs

VARIABLES
    running,     \* false from stop() until the daemon starts again
    live,        \* _live: key -> the rpc handed to callers
    pending,     \* _pending: key -> the call that owns the creation promise
    lastActive,  \* _lastActive: "missing", "fresh", or "idle" (older than the TTL)
    store,       \* sessions.json: key -> sessionId and model
    call,        \* the calls of getOrCreateSession
    child,       \* the rpc children
    restart      \* rpc -> the _onRpcExit run its death started

routerVars == <<running, live, pending, lastActive>>
vars == <<running, live, pending, lastActive, store, call, child, restart>>

NoRecord == [sid |-> None, model |-> None]
IdleCall == [pc |-> "idle", key |-> None, model |-> None, sid |-> None, rpc |-> None]
NewChild == [state |-> "unused", key |-> None, sid |-> None, model |-> None,
             onExit |-> "none"]
NoRestart == [pc |-> "none", sid |-> None, rpc |-> None]

CallSteps == {"idle", "load", "spawn", "start", "upsert", "settle", "wait", "got"}
Creating == {"load", "spawn", "start", "upsert", "settle"}
RestartSteps == {"none", "load", "spawn", "start", "upsert", "done", "failed"}

(***************************************************************************)
(* "lost": start() gave up on the child (30 s spawn timeout) and nothing   *)
(* killed it.  "stopping": between rpc.shutdown() and the child's exit.    *)
(***************************************************************************)
ChildStates == {"unused", "starting", "ready", "lost", "stopping", "gone"}
Running == {"starting", "ready", "lost", "stopping"}

Init ==
    /\ running = TRUE
    /\ live = [k \in Keys |-> None]
    /\ pending = [k \in Keys |-> None]
    /\ lastActive = [k \in Keys |-> "missing"]
    /\ store = [k \in Keys |-> NoRecord]
    /\ call = [c \in Callers |-> IdleCall]
    /\ child = [r \in Rpcs |-> NewChild]
    /\ restart = [r \in Rpcs |-> NoRestart]

\* What load() may return for k: a failed read yields an empty Map.
Loaded(k) == {store[k]} \cup (IF ReadFaults THEN {NoRecord} ELSE {})

\* What sessions.json may hold after upsert() of k's record: load, merge, save.
Upserted(k, rec) ==
    {[store EXCEPT ![k] = rec]} \cup
    (IF ReadFaults THEN {[j \in Keys |-> IF j = k THEN rec ELSE NoRecord]} ELSE {})

\* The child the factory builds for k: --continue sid or a session of its own,
\* and the model asked for or the configured default.
Spawned(r, k, sid, model) ==
    [state |-> "starting", key |-> k,
     sid |-> IF sid = None THEN r ELSE sid,
     model |-> IF model = None THEN DefaultModel ELSE model,
     onExit |-> "none"]

ReadyInfo(r) == [sid |-> child[r].sid, model |-> child[r].model]

-----------------------------------------------------------------------------
(***************************************************************************)
(* getOrCreateSession                                                      *)
(***************************************************************************)

LiveHit(c, k) ==
    /\ running
    /\ call[c].pc = "idle"
    /\ live[k] # None
    /\ call' = [call EXCEPT ![c] = [IdleCall EXCEPT !.pc = "got", !.key = k,
                                                    !.rpc = live[k]]]
    /\ UNCHANGED <<routerVars, store, child, restart>>

JoinPending(c, k) ==
    /\ running
    /\ call[c].pc = "idle"
    /\ live[k] = None
    /\ pending[k] # None
    /\ call' = [call EXCEPT ![c] = [IdleCall EXCEPT !.pc = "wait", !.key = k]]
    /\ UNCHANGED <<routerVars, store, child, restart>>

\* Fault: _pending not consulted.
BeginCreateUnguarded(c, k, m) ==
    /\ running
    /\ call[c].pc = "idle"
    /\ live[k] = None
    /\ pending' = [pending EXCEPT ![k] = c]
    /\ call' = [call EXCEPT ![c] = [IdleCall EXCEPT !.pc = "load", !.key = k,
                                                    !.model = m]]
    /\ UNCHANGED <<running, live, lastActive, store, child, restart>>

BeginCreate(c, k, m) ==
    /\ running
    /\ call[c].pc = "idle"
    /\ live[k] = None
    /\ pending[k] = None
    /\ pending' = [pending EXCEPT ![k] = c]
    /\ call' = [call EXCEPT ![c] = [IdleCall EXCEPT !.pc = "load", !.key = k,
                                                    !.model = m]]
    /\ UNCHANGED <<running, live, lastActive, store, child, restart>>

\* Fault: the sessionId of the record is not used.
CreateLoadFresh(c) ==
    /\ call[c].pc = "load"
    /\ call' = [call EXCEPT ![c].pc = "spawn"]
    /\ UNCHANGED <<routerVars, store, child, restart>>

\* _createSession: the store has been read.
CreateLoad(c) ==
    /\ call[c].pc = "load"
    /\ \E rec \in Loaded(call[c].key) :
         call' = [call EXCEPT ![c] = [@ EXCEPT !.pc = "spawn", !.sid = rec.sid,
                    !.model = IF call[c].model # None THEN call[c].model
                              ELSE rec.model]]
    /\ UNCHANGED <<routerVars, store, child, restart>>

\* rpcFactory() and rpc.start().
CreateSpawn(c, r) ==
    /\ call[c].pc = "spawn"
    /\ child[r].state = "unused"
    /\ child' = [child EXCEPT ![r] = Spawned(r, call[c].key, call[c].sid, call[c].model)]
    /\ call' = [call EXCEPT ![c] = [@ EXCEPT !.pc = "start", !.rpc = r]]
    /\ UNCHANGED <<routerVars, store, restart>>

CreateReady(c) ==
    /\ call[c].pc = "start"
    /\ child' = [child EXCEPT ![call[c].rpc].state = "ready"]
    /\ call' = [call EXCEPT ![c].pc = "upsert"]
    /\ UNCHANGED <<routerVars, store, restart>>

\* start() rejects: no child could be spawned (docker), ...
CreateSpawnFails(c) ==
    /\ call[c].pc = "spawn"
    /\ call' = [call EXCEPT ![c].pc = "settle"]
    /\ UNCHANGED <<routerVars, store, child, restart>>

\* Fault: a failed start skips the finally of getOrCreateSession.
CreateStartFailsNoFinally(c, fate) ==
    /\ call[c].pc = "start"
    /\ child' = [child EXCEPT ![call[c].rpc].state = fate]
    /\ call' = [call EXCEPT ![c] = IdleCall]
    /\ UNCHANGED <<routerVars, store, restart>>

\* ... it exited before ready, or the timeout fired and it runs on unowned.
CreateStartFails(c, fate) ==
    /\ call[c].pc = "start"
    /\ child' = [child EXCEPT ![call[c].rpc].state = fate]
    /\ call' = [call EXCEPT ![c] = [@ EXCEPT !.pc = "settle", !.rpc = None]]
    /\ UNCHANGED <<routerVars, store, restart>>

\* store.upsert() has resolved: track the rpc and subscribe to its exit.
CreateUpsert(c) ==
    LET k == call[c].key
        r == call[c].rpc
    IN  /\ call[c].pc = "upsert"
        /\ store' \in Upserted(k, ReadyInfo(r))
        /\ live' = [live EXCEPT ![k] = r]
        /\ lastActive' = [lastActive EXCEPT ![k] = "fresh"]
        /\ child' = [child EXCEPT ![r].onExit = "first"]
        /\ call' = [call EXCEPT ![c].pc = "settle"]
        /\ UNCHANGED <<running, pending, restart>>

\* store.upsert() has rejected: the error propagates, the child stays.
CreateUpsertFails(c) ==
    /\ call[c].pc = "upsert"
    /\ call' = [call EXCEPT ![c] = [@ EXCEPT !.pc = "settle", !.rpc = None]]
    /\ UNCHANGED <<routerVars, store, child, restart>>

\* The creation promise settles: finally { _pending.delete(key) }, and every
\* call that awaits the promise goes on with the same result.
CreateSettle(c) ==
    LET k == call[c].key
        r == call[c].rpc
        Answered(d) == d = c \/ (call[d].pc = "wait" /\ call[d].key = k)
        Answer == IF r = None THEN IdleCall
                  ELSE [IdleCall EXCEPT !.pc = "got", !.key = k, !.rpc = r]
    IN  /\ call[c].pc = "settle"
        /\ pending' = [pending EXCEPT ![k] = None]
        /\ call' = [d \in Callers |-> IF Answered(d) THEN Answer ELSE call[d]]
        /\ UNCHANGED <<running, live, lastActive, store, child, restart>>

\* The caller is done with its rpc; adapters call recordActivity(key), the
\* control socket and the MCP tool do not.
Finish(c, record) ==
    /\ call[c].pc = "got"
    /\ call' = [call EXCEPT ![c] = IdleCall]
    /\ lastActive' = IF record THEN [lastActive EXCEPT ![call[c].key] = "fresh"]
                     ELSE lastActive
    /\ UNCHANGED <<running, live, pending, store, child, restart>>

-----------------------------------------------------------------------------
(***************************************************************************)
(* Exit of a child and _onRpcExit                                          *)
(***************************************************************************)

\* live without r, if r is still what it routes to.
Unrouted(r) == [k \in Keys |-> IF live[k] = r THEN None ELSE live[k]]

\* A child that became ready exits; clean = exit code 0.
Exit(r, clean) ==
    LET heard == child[r].onExit
    IN  /\ child[r].state = "ready"
        /\ child' = [child EXCEPT ![r].state = "gone", ![r].onExit = "none"]
        /\ live' = IF heard = "none" THEN live ELSE Unrouted(r)
        /\ restart' = IF heard = "first" /\ ~clean
                      THEN [restart EXCEPT ![r].pc = "load"] ELSE restart
        /\ UNCHANGED <<running, pending, lastActive, store, call>>

\* A child nobody listens to any more exits: given up at start, or shut down.
UnheardExit(r) ==
    /\ child[r].state \in {"lost", "stopping"}
    /\ child' = [child EXCEPT ![r].state = "gone"]
    /\ UNCHANGED <<routerVars, store, call, restart>>

\* Fault: the restart does not look the session up.
RestartLoadFresh(r) ==
    /\ restart[r].pc = "load"
    /\ restart' = [restart EXCEPT ![r].pc = "spawn"]
    /\ UNCHANGED <<routerVars, store, call, child>>

RestartLoad(r) ==
    /\ restart[r].pc = "load"
    /\ \E rec \in Loaded(child[r].key) :
         restart' = [restart EXCEPT ![r] = [@ EXCEPT !.pc = "spawn", !.sid = rec.sid]]
    /\ UNCHANGED <<routerVars, store, call, child>>

\* effectiveModel = null, so the factory falls back to the default model.
RestartSpawn(r, n) ==
    /\ restart[r].pc = "spawn"
    /\ child[n].state = "unused"
    /\ child' = [child EXCEPT ![n] = Spawned(n, child[r].key, restart[r].sid, None)]
    /\ restart' = [restart EXCEPT ![r] = [@ EXCEPT !.pc = "start", !.rpc = n]]
    /\ UNCHANGED <<routerVars, store, call>>

RestartReady(r) ==
    /\ restart[r].pc = "start"
    /\ child' = [child EXCEPT ![restart[r].rpc].state = "ready"]
    /\ restart' = [restart EXCEPT ![r].pc = "upsert"]
    /\ UNCHANGED <<routerVars, store, call>>

RestartSpawnFails(r) ==
    /\ restart[r].pc = "spawn"
    /\ restart' = [restart EXCEPT ![r].pc = "failed"]
    /\ UNCHANGED <<routerVars, store, call, child>>

\* Fault: session_failed is not emitted.
RestartStartFailsSilently(r, fate) ==
    /\ restart[r].pc = "start"
    /\ child' = [child EXCEPT ![restart[r].rpc].state = fate]
    /\ restart' = [restart EXCEPT ![r].pc = "none"]
    /\ UNCHANGED <<routerVars, store, call>>

RestartStartFails(r, fate) ==
    /\ restart[r].pc = "start"
    /\ child' = [child EXCEPT ![restart[r].rpc].state = fate]
    /\ restart' = [restart EXCEPT ![r].pc = "failed"]
    /\ UNCHANGED <<routerVars, store, call>>

\* Fault: nobody listens to the exit of the new child.
RestartUpsertDeaf(r, saved) ==
    LET k == child[r].key
        n == restart[r].rpc
    IN  /\ restart[r].pc = "upsert"
        /\ live' = [live EXCEPT ![k] = n]
        /\ lastActive' = [lastActive EXCEPT ![k] = "fresh"]
        /\ restart' = [restart EXCEPT ![r].pc = "done"]
        /\ UNCHANGED <<running, pending, call, child, store>>

\* The upsert is best-effort; the new rpc is tracked whatever it did, over
\* whatever the key routes to by now.
RestartUpsert(r, saved) ==
    LET k == child[r].key
        n == restart[r].rpc
    IN  /\ restart[r].pc = "upsert"
        /\ IF saved THEN store' \in Upserted(k, ReadyInfo(n)) ELSE store' = store
        /\ live' = [live EXCEPT ![k] = n]
        /\ lastActive' = [lastActive EXCEPT ![k] = "fresh"]
        /\ child' = [child EXCEPT ![n].onExit = "second"]
        /\ restart' = [restart EXCEPT ![r].pc = "done"]
        /\ UNCHANGED <<running, pending, call>>

-----------------------------------------------------------------------------
(***************************************************************************)
(* closeSession, reapIdle, stop, and the life of the daemon                *)
(***************************************************************************)

\* _shutdownRpc of every key in ks, up to its await of rpc.shutdown().
Shutdown(ks) ==
    /\ live' = [k \in Keys |-> IF k \in ks THEN None ELSE live[k]]
    /\ lastActive' = [k \in Keys |-> IF k \in ks THEN "missing" ELSE lastActive[k]]
    /\ child' = [r \in Rpcs |->
          IF \E k \in ks : live[k] = r
          THEN [child[r] EXCEPT !.onExit = "none",
                  !.state = IF @ = "ready" THEN "stopping" ELSE @]
          ELSE child[r]]

CloseSession(k) ==
    /\ Shutdown({k})
    /\ UNCHANGED <<running, pending, store, call, restart>>

\* A live key with no lastActive entry counts as idle (?? 0).
Idle == {k \in Keys : live[k] # None /\ lastActive[k] # "fresh"}

ReapIdle ==
    /\ running
    /\ Idle # {}
    /\ Shutdown(Idle)
    /\ UNCHANGED <<running, pending, store, call, restart>>

\* idleTtlMs go by without activity on k.
TtlPasses(k) ==
    /\ lastActive[k] = "fresh"
    /\ lastActive' = [lastActive EXCEPT ![k] = "idle"]
    /\ UNCHANGED <<running, live, pending, store, call, child, restart>>

\* stop() shuts down what is in _live now; creations under way go on.
Stop ==
    /\ running
    /\ running' = FALSE
    /\ Shutdown({k \in Keys : live[k] # None})
    /\ UNCHANGED <<pending, store, call, restart>>

\* The process ends, its children with it (stdin closes); start() comes back
\* to what sessions.json holds.
DaemonRestart ==
    /\ running' = TRUE
    /\ live' = [k \in Keys |-> None]
    /\ pending' = [k \in Keys |-> None]
    /\ lastActive' = [k \in Keys |-> "missing"]
    /\ call' = [c \in Callers |-> IdleCall]
    /\ child' = [r \in Rpcs |-> IF child[r].state = "unused" THEN child[r]
                                ELSE [child[r] EXCEPT !.state = "gone",
                                                      !.onExit = "none"]]
    /\ restart' = [r \in Rpcs |-> IF restart[r].pc \in {"load", "spawn", "start", "upsert"}
                                  THEN [restart[r] EXCEPT !.pc = "failed"]
                                  ELSE restart[r]]
    /\ UNCHANGED store

-----------------------------------------------------------------------------
Create(c) ==
    \/ CreateLoad(c)
    \/ \E r \in Rpcs : CreateSpawn(c, r)
    \/ CreateReady(c)
    \/ CreateSpawnFails(c)
    \/ \E fate \in {"gone", "lost"} : CreateStartFails(c, fate)
    \/ CreateUpsert(c)
    \/ CreateUpsertFails(c)
    \/ CreateSettle(c)

Restart(r) ==
    \/ RestartLoad(r)
    \/ \E n \in Rpcs : RestartSpawn(r, n)
    \/ RestartReady(r)
    \/ RestartSpawnFails(r)
    \/ \E fate \in {"gone", "lost"} : RestartStartFails(r, fate)
    \/ \E saved \in BOOLEAN : RestartUpsert(r, saved)

Next ==
    \/ \E c \in Callers, k \in Keys :
         \/ LiveHit(c, k)
         \/ JoinPending(c, k)
         \/ \E m \in Models \cup {None} : BeginCreate(c, k, m)
    \/ \E c \in Callers : Create(c)
    \/ \E c \in Callers, record \in BOOLEAN : Finish(c, record)
    \/ \E r \in Rpcs : Restart(r)
    \/ \E r \in Rpcs, clean \in BOOLEAN : Exit(r, clean)
    \/ \E r \in Rpcs : UnheardExit(r)
    \/ \E k \in Keys : CloseSession(k)
    \/ ReapIdle
    \/ \E k \in Keys : TtlPasses(k)
    \/ Stop
    \/ DaemonRestart

Spec == Init /\ [][Next]_vars

(***************************************************************************)
(* SynapsRpc.start() settles by its spawn timeout, and the store by its    *)
(* write.  DockerExecSynapsRpc.start() waits for the ready frame without a *)
(* timeout (synaps-rpc-docker.js:270-287): a creation or a restart may     *)
(* stand there for ever.  A host deployment has no such child, an SCP one  *)
(* no other; a run takes some of each.  Nothing is assumed of callers.     *)
(***************************************************************************)
CallHangs(c) == call[c].pc = "start" /\ call[c].rpc \in Untimed
RestartHangs(r) == restart[r].pc = "start" /\ restart[r].rpc \in Untimed

FairSpec ==
    /\ Spec
    /\ \A c \in Callers : WF_vars(~CallHangs(c) /\ Create(c))
    /\ \A r \in Rpcs : WF_vars(~RestartHangs(r) /\ Restart(r))

-----------------------------------------------------------------------------
StoreRecord == [sid : Rpcs \cup {None}, model : Models \cup {None}]
CallRecord == [pc : CallSteps, key : Keys \cup {None}, model : Models \cup {None},
               sid : Rpcs \cup {None}, rpc : Rpcs \cup {None}]
ChildRecord == [state : ChildStates, key : Keys \cup {None}, sid : Rpcs \cup {None},
                model : Models \cup {None}, onExit : {"none", "first", "second"}]
RestartRecord == [pc : RestartSteps, sid : Rpcs \cup {None}, rpc : Rpcs \cup {None}]

TypeOK ==
    /\ running \in BOOLEAN
    /\ live \in [Keys -> Rpcs \cup {None}]
    /\ pending \in [Keys -> Callers \cup {None}]
    /\ lastActive \in [Keys -> {"missing", "fresh", "idle"}]
    /\ store \in [Keys -> StoreRecord]
    /\ call \in [Callers -> CallRecord]
    /\ child \in [Rpcs -> ChildRecord]
    /\ restart \in [Rpcs -> RestartRecord]

(***************************************************************************)
(* The inductive invariant: the children that the router's parts refer to  *)
(* were built for the right key, _pending and the calls agree, and (while  *)
(* the store can be read) whoever is about to write a record of k holds    *)
(* k's session already, if k has one.                                      *)
(***************************************************************************)
Owned(r, k) == r \in Rpcs /\ child[r].state # "unused" /\ child[r].key = k

ChildRefs == \A r \in Rpcs : child[r].state # "unused" => child[r].key \in Keys

LiveRefs == \A k \in Keys : live[k] # None => Owned(live[k], k)

CallRefs ==
    \A c \in Callers :
      /\ call[c].pc # "idle" => call[c].key \in Keys
      /\ call[c].pc \in {"load", "spawn"} => call[c].rpc = None
      /\ call[c].pc \in {"start", "upsert", "got"} => Owned(call[c].rpc, call[c].key)
      /\ call[c].pc = "settle" /\ call[c].rpc # None => Owned(call[c].rpc, call[c].key)

RestartRefs ==
    \A r \in Rpcs :
      /\ restart[r].pc # "none" => child[r].state # "unused"
      /\ restart[r].pc \in {"start", "upsert"} => Owned(restart[r].rpc, child[r].key)

References == ChildRefs /\ LiveRefs /\ CallRefs /\ RestartRefs

Promises ==
    /\ \A c \in Callers : call[c].pc \in Creating => pending[call[c].key] = c
    /\ \A k \in Keys : pending[k] # None =>
         call[pending[k]].pc \in Creating /\ call[pending[k]].key = k
    /\ \A c \in Callers : call[c].pc = "wait" => pending[call[c].key] # None

KeySessions ==
    \A k \in Keys :
      /\ store[k].sid # None => Owned(store[k].sid, k)
      /\ live[k] # None => store[k].sid # None

CallSessions ==
    \A c \in Callers :
      /\ call[c].pc = "spawn" => call[c].sid = store[call[c].key].sid
      /\ call[c].pc \in {"start", "upsert"} =>
           child[call[c].rpc].sid =
             IF store[call[c].key].sid = None THEN call[c].rpc
             ELSE store[call[c].key].sid

ChildSessions ==
    \A r \in Rpcs : child[r].onExit # "none" =>
      child[r].state # "unused" /\ store[child[r].key].sid # None

RestartSessions ==
    \A r \in Rpcs :
      /\ restart[r].pc \in {"load", "spawn", "start", "upsert"} =>
           store[child[r].key].sid # None
      /\ restart[r].pc = "spawn" => restart[r].sid = store[child[r].key].sid
      /\ restart[r].pc \in {"start", "upsert"} =>
           child[restart[r].rpc].sid = store[child[r].key].sid

Sessions == KeySessions /\ CallSessions /\ ChildSessions /\ RestartSessions

(***************************************************************************)
(* A child under construction belongs to one creation or one restart and   *)
(* is not routed to yet; it can only have died (unheard) after its ready   *)
(* frame.                                                                  *)
(***************************************************************************)
CallMakes(c, r) == call[c].pc \in {"start", "upsert"} /\ call[c].rpc = r
RestartMakes(q, r) == restart[q].pc \in {"start", "upsert"} /\ restart[q].rpc = r

OneMaker ==
    \A r \in Rpcs :
      /\ \A c, d \in Callers : CallMakes(c, r) /\ CallMakes(d, r) => c = d
      /\ \A p, q \in Rpcs : RestartMakes(p, r) /\ RestartMakes(q, r) => p = q
      /\ \A c \in Callers, q \in Rpcs : ~ (CallMakes(c, r) /\ RestartMakes(q, r))

NotRoutedYet ==
    \A k \in Keys, r \in Rpcs : live[k] = r =>
      /\ \A c \in Callers : ~ CallMakes(c, r)
      /\ \A q \in Rpcs : ~ RestartMakes(q, r)

CallBuilds ==
    \A c \in Callers :
      /\ call[c].pc = "start" => child[call[c].rpc].state = "starting"
      /\ call[c].pc = "upsert" => child[call[c].rpc].state \in {"ready", "gone"}

RestartBuilds ==
    \A q \in Rpcs :
      /\ restart[q].pc = "start" => child[restart[q].rpc].state = "starting"
      /\ restart[q].pc = "upsert" => child[restart[q].rpc].state \in {"ready", "gone"}

Builds == CallBuilds /\ RestartBuilds

IInv == TypeOK /\ References /\ Promises /\ (~ReadFaults => Sessions)

(***************************************************************************)
(* Safety                                                                  *)
(***************************************************************************)

\* Concurrent calls for a key share one creation: never two calls between
\* "no live rpc" and the end of _createSession for the same key, and _pending
\* names the one there is (session-router.js:102, 111-129).
SingleFlight ==
    \A c, d \in Callers :
       /\ call[c].pc \in Creating /\ call[d].pc \in Creating
       /\ call[c].key = call[d].key
       => c = d

\* A call waits only on a creation still under way, so a creation that fails
\* or ends can never leave a waiter behind (the finally of :125-129).
WaitersHaveACreator ==
    \A c \in Callers : call[c].pc = "wait" =>
       \E d \in Callers : call[d].pc \in Creating /\ call[d].key = call[c].key

\* No conversation reaches another's child: what _live routes to and what a
\* call was answered with was built for that key.
RoutesToOwnKey ==
    /\ \A k \in Keys : live[k] # None => child[live[k]].key = k
    /\ \A c \in Callers : call[c].pc = "got" => child[call[c].rpc].key = call[c].key

\* The child a key routes to is never one being shut down, its exit is being
\* listened to as long as it runs (:273-285, 350-359, 378-390), and the key has
\* a lastActive entry: without one reapIdle would take a session just opened
\* for one idle since 1970 (:219).
LiveIsSupervised ==
    \A k \in Keys : live[k] # None =>
       /\ \/ child[live[k]].state = "gone"
          \/ child[live[k]].state = "ready" /\ child[live[k]].onExit # "none"
       /\ lastActive[k] # "missing"

\* With the construction of children, supervision is inductive.
Supervision == OneMaker /\ NotRoutedYet /\ Builds /\ LiveIsSupervised
SInv == IInv /\ Supervision

(***************************************************************************)
(* Action properties                                                       *)
(***************************************************************************)

\* Once a conversation has a session it keeps it, across reaping, crashes,
\* failed starts and restarts of the daemon: --continue never loses it.
SessionIsKept ==
    [][\A k \in Keys : store[k].sid # None => store'[k].sid = store[k].sid]_vars

(***************************************************************************)
(* The router implements Conversations: a conversation's session is the    *)
(* sessionId of its record, and it is served while its key is live.        *)
(***************************************************************************)
C == INSTANCE Conversations WITH
        Sessions <- Rpcs,
        session  <- [k \in Keys |-> store[k].sid],
        routed   <- [k \in Keys |-> live[k] # None]

\* Every run of the router is a run of Conversations (README.md:4-6).
ImplementsConversations == C!Spec

(***************************************************************************)
(* Liveness                                                                *)
(***************************************************************************)

\* Every call of getOrCreateSession is answered or rejected, the joined ones
\* too (:102-129), unless its key's creation waits for ever for the ready frame
\* of an untimed child: no other await can hold it up.
CallsSettle ==
    \A c \in Callers, k \in Keys :
       call[c].pc # "idle" /\ call[c].key = k ~>
          \/ call[c].pc \in {"idle", "got"}
          \/ []\E d \in Callers : call[d].key = k /\ CallHangs(d)

\* Every unexpected exit ends in session_restarted or session_failed, unless
\* the child that replaces it is untimed and is waited for for ever.
CrashIsResolved ==
    \A r \in Rpcs : restart[r].pc = "load" ~>
       \/ restart[r].pc \in {"done", "failed"}
       \/ []RestartHangs(r)

(***************************************************************************)
(* What the documentation says and the code does not do.  No run of the    *)
(* project checks it; README.md gives the schedules.                       *)
(***************************************************************************)

\* "The daemon maintains one synaps rpc child process per active Slack thread"
\* (README.md:4-5): never two running children for one key.
OneChildPerKey ==
    \A r, s \in Rpcs :
       /\ child[r].state \in Running /\ child[s].state \in Running
       /\ child[r].key = child[s].key
       => r = s

\* "store will supply model via existing record" (session-router.js:318): a
\* restart comes back with the model the store has for the key.
RestartKeepsModel ==
    \A r \in Rpcs : restart[r].pc = "start" =>
       child[restart[r].rpc].model = store[child[r].key].model
=============================================================================
