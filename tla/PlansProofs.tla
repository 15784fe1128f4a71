---------------------------- MODULE PlansProofs ----------------------------
(***************************************************************************)
(* Theorems about the plans of a repository, for every value of the        *)
(* constants: that at most one plans server is found by those who look,    *)
(* over the specification of PlansServer, and about what a block           *)
(* halts and the events of a plan, over that of MCPlans, where a step of   *)
(* another part leaves the variables of this one alone.                    *)
(***************************************************************************)
EXTENDS MCPlans, TLAPS

\* Beside the stores and the blocks the servers of a repository behave as they do
\* alone, so what is proved of Spec holds of PlansSpec.
THEOREM PlansHaveTheServer == PlansSpec => Spec
<1>1. PlansInit => Init
  BY DEF PlansInit
<1>2. [PlansNext]_<<focus, vars, storeVars, haltVars>> => [Next]_vars
  BY DEF PlansNext
<1> QED
  BY <1>1, <1>2, PTL DEF PlansSpec, Spec

(* The server *)

\* Nobody is in a step of a process that died.
Awake == \A p \in Procs : call[p].pc # "idle" => alive[p]

\* The server a process starts is its own, in the state its step says, and in
\* nobody's HOSTED yet.
OwnServer ==
    \A p \in Procs : Starting(p) =>
      /\ call[p].srv # None /\ host[call[p].srv] = p
      /\ call[p].pc = "hosting" => server[call[p].srv] = "starting"
      /\ call[p].pc = "publish" => server[call[p].srv] = "listening"
      /\ \A q \in Procs : hosted[q] # call[p].srv

\* A token a process hosts is never given out again.
Tokens == \A p \in Procs : hosted[p] # None => server[hosted[p]] # "unused"

\* Who starts a server has the lock, and there is no record meanwhile.
Guarded == \A p \in Procs : Starting(p) => lock = p /\ record = None

\* Every listening server is given up, recorded, or about to be recorded.
Known ==
    \A s \in Servers : Live(s) =>
      \/ s \in strays \/ record = s
      \/ \E p \in Procs : call[p].pc = "publish" /\ call[p].srv = s

\* What the double check read still holds for the process that has the lock,
\* unless the record has been removed since.
Fresh ==
    \A p \in Procs : call[p].pc = "recheck" /\ lock = p => record \in {None, call[p].saw}

Safe == OwnServer /\ Tokens /\ (~lockless => Guarded /\ Known /\ Fresh)

IInv == TypeOK /\ Awake /\ Safe

-----------------------------------------------------------------------------
(* Types *)

LEMMA InitType == Init => TypeOK
<1> SUFFICES ASSUME Init PROVE TypeOK
  OBVIOUS
<1>1. 1 \in Servers
  BY MaxServersAssumption DEF Servers
<1>2. record \in Servers \cup {None}
  BY <1>1 DEF Init
<1>3. server \in [Servers -> {"unused", "starting", "listening", "down"}]
  BY DEF Init
<1>4. IdleCall \in CallRecord /\ IdleStop \in StopRecord
  BY DEF IdleCall, CallRecord, CallSteps, IdleStop, StopRecord
<1>5. call \in [Procs -> CallRecord] /\ stop \in [Procs -> StopRecord]
  BY <1>4 DEF Init
<1>6. slow \in 0..MaxSlow
  BY MaxSlowAssumption DEF Init
<1>q. QED
  BY <1>2, <1>3, <1>5, <1>6 DEF Init, TypeOK

\* Every way a step changes the calls gives calls.
LEMMA CallMoved ==
    ASSUME NEW f \in [Procs -> CallRecord], NEW p \in Procs, NEW pc \in CallSteps,
           NEW s \in Servers \cup {None}, NEW t \in Servers \cup {None}, NEW l \in BOOLEAN
    PROVE  /\ [f EXCEPT ![p].pc = pc, ![p].saw = s] \in [Procs -> CallRecord]
           /\ [f EXCEPT ![p].pc = pc, ![p].saw = s, ![p].late = l] \in [Procs -> CallRecord]
           /\ [f EXCEPT ![p].pc = pc, ![p].saw = s, ![p].srv = t] \in [Procs -> CallRecord]
           /\ [f EXCEPT ![p].late = l] \in [Procs -> CallRecord]
           /\ [f EXCEPT ![p] = IdleCall] \in [Procs -> CallRecord]
<1>1. f[p] \in CallRecord
  OBVIOUS
<1>2. /\ [f[p] EXCEPT !.pc = pc, !.saw = s] \in CallRecord
      /\ [f[p] EXCEPT !.pc = pc, !.saw = s, !.late = l] \in CallRecord
      /\ [f[p] EXCEPT !.pc = pc, !.saw = s, !.srv = t] \in CallRecord
      /\ [f[p] EXCEPT !.late = l] \in CallRecord
      /\ IdleCall \in CallRecord
  BY <1>1 DEF CallRecord, CallSteps, IdleCall
<1>q. QED
  BY <1>2

LEMMA ProbeType ==
    ASSUME TypeOK, NEW s, NEW ok, Probe(s, ok)
    PROVE  slow' \in 0..MaxSlow
  BY MaxSlowAssumption DEF TypeOK, Probe, TimesOut

LEMMA StraysType ==
    ASSUME TypeOK, NEW s \in Servers \cup {None}, GivenUp(s)
    PROVE  strays' \in SUBSET Servers
  BY DEF TypeOK, GivenUp, Live

\* What a call looks like after its process moved: its step, the record it
\* remembers and the server it starts; the calls of the others stay put.
Moved(p, pc, s, t) ==
    /\ call' \in [Procs -> CallRecord]
    /\ call'[p].pc = pc /\ call'[p].saw = s /\ call'[p].srv = t
    /\ \A q \in Procs : q # p => call'[q] = call[q]

LEMMA Moves ==
    ASSUME TypeOK, NEW p \in Procs
    PROVE  /\ \A pc \in CallSteps : Goto(p, pc) => Moved(p, pc, None, call[p].srv)
           /\ \A pc \in CallSteps : ReadRecord(p, pc) => Moved(p, pc, record, call[p].srv)
           /\ Return(p) => Moved(p, "idle", None, None)
           /\ TakeLock(p) => Moved(p, "locked", None, call[p].srv)
           /\ WaitReuse(p) => Moved(p, "reused", record, call[p].srv)
           /\ \A s \in Servers : Host(p, s) => Moved(p, "hosting", None, s)
           /\ DeadlinePasses(p) => Moved(p, call[p].pc, call[p].saw, call[p].srv)
           /\ \A w \in BOOLEAN : Die(p, w) => Moved(p, "idle", None, None)
<1>1. call \in [Procs -> CallRecord] /\ record \in Servers \cup {None}
  BY DEF TypeOK
<1>0. /\ {"idle", "locked", "reused", "hosting"} \subseteq CallSteps
      /\ None \in Servers \cup {None} /\ FALSE \in BOOLEAN
  BY DEF CallSteps
<1>2. call[p].srv \in Servers \cup {None} /\ call[p].saw \in Servers \cup {None}
  BY <1>1 DEF CallRecord
<1>3. ASSUME NEW pc \in CallSteps, Goto(p, pc) PROVE Moved(p, pc, None, call[p].srv)
  <2>1. call' \in [Procs -> CallRecord]
    BY <1>1, <1>3, CallMoved DEF Goto
  <2>q. QED
    BY <1>1, <1>3, <2>1 DEF Goto, Moved, CallRecord
<1>4. ASSUME NEW pc \in CallSteps, ReadRecord(p, pc) PROVE Moved(p, pc, record, call[p].srv)
  <2>1. call' \in [Procs -> CallRecord]
    BY <1>1, <1>4, CallMoved DEF ReadRecord
  <2>q. QED
    BY <1>1, <1>4, <2>1 DEF ReadRecord, Moved, CallRecord
<1>5. ASSUME call' = [call EXCEPT ![p] = IdleCall] PROVE Moved(p, "idle", None, None)
  <2>1. call' \in [Procs -> CallRecord]
    BY <1>0, <1>1, <1>5, CallMoved
  <2>q. QED
    BY <1>1, <1>5, <2>1 DEF Moved, IdleCall
<1>6. ASSUME TakeLock(p) PROVE Moved(p, "locked", None, call[p].srv)
  <2>0. call' = [call EXCEPT ![p].pc = "locked", ![p].saw = None, ![p].late = FALSE]
    BY <1>6 DEF TakeLock
  <2>1. call' \in [Procs -> CallRecord]
    BY <1>0, <1>1, <2>0, CallMoved
  <2>q. QED
    BY <1>1, <1>6, <2>1 DEF TakeLock, Moved, CallRecord
<1>7. ASSUME WaitReuse(p) PROVE Moved(p, "reused", record, call[p].srv)
  <2>0. call' = [call EXCEPT ![p].pc = "reused", ![p].saw = record, ![p].late = FALSE]
    BY <1>7 DEF WaitReuse
  <2>1. call' \in [Procs -> CallRecord]
    BY <1>0, <1>1, <2>0, CallMoved
  <2>q. QED
    BY <1>1, <1>7, <2>1 DEF WaitReuse, Moved, CallRecord
<1>8. ASSUME NEW s \in Servers, Host(p, s) PROVE Moved(p, "hosting", None, s)
  <2>0. call' = [call EXCEPT ![p].pc = "hosting", ![p].saw = None, ![p].srv = s]
    BY <1>8 DEF Host
  <2>1. call' \in [Procs -> CallRecord]
    BY <1>0, <1>1, <2>0, CallMoved
  <2>q. QED
    BY <1>1, <1>8, <2>1 DEF Host, Moved, CallRecord
<1>9. ASSUME DeadlinePasses(p) PROVE Moved(p, call[p].pc, call[p].saw, call[p].srv)
  <2>1. call' = [call EXCEPT ![p].late = TRUE]
    BY <1>9 DEF DeadlinePasses
  <2>2. "lock" \in CallSteps /\ TRUE \in BOOLEAN
    BY DEF CallSteps
  <2>3. call' \in [Procs -> CallRecord]
    BY <1>1, <1>2, <2>1, <2>2, CallMoved
  <2>q. QED
    BY <1>1, <2>1, <2>3 DEF Moved, CallRecord
<1>q. QED
  BY <1>3, <1>4, <1>5, <1>6, <1>7, <1>8, <1>9 DEF Return, Die

LEMMA TypeStep == TypeOK /\ [Next]_vars => TypeOK'
<1> SUFFICES ASSUME TypeOK, [Next]_vars PROVE TypeOK'
  OBVIOUS
<1> USE DEF processes, servers, files
<1>0. CASE UNCHANGED vars
  BY <1>0 DEF vars, TypeOK
<1> SUFFICES ASSUME Step, Watch PROVE TypeOK'
  BY <1>0 DEF Next
<1>w. lockless' \in BOOLEAN
  BY Zenon DEF Watch
<1>r. record \in Servers \cup {None} /\ \A p \in Procs : /\ call[p].saw \in Servers \cup {None}
                                                          /\ call[p].srv \in Servers \cup {None}
  BY DEF TypeOK, CallRecord
<1>1. ASSUME NEW p \in Procs, EnsureBegin(p) PROVE TypeOK'
  BY <1>1, <1>w, Moves DEF EnsureBegin, TypeOK, CallSteps, Moved
<1>2. ASSUME NEW p \in Procs, EnsureStep(p) PROVE TypeOK'
  <2>1. ASSUME NEW ok \in BOOLEAN, FastPath(p, ok) \/ Reuse(p, ok) PROVE TypeOK'
    BY <2>1, <1>w, Moves, ProbeType DEF FastPath, Reuse, TypeOK, CallSteps, Moved
  <2>2. ASSUME TakeLock(p) \/ LockFails(p) \/ LockBusy(p) PROVE TypeOK'
    BY <2>2, <1>w, Moves DEF TakeLock, LockFails, LockBusy, TypeOK, CallSteps, Moved
  <2>3. ASSUME WaitReuse(p) PROVE TypeOK'
    BY <2>3, <1>w, Moves, ProbeType DEF WaitReuse, TypeOK, Moved
  <2>4. ASSUME WaitRetry(p) \/ WaitBreak(p) \/ RecheckLive(p) PROVE TypeOK'
    BY <2>4, <1>w, Moves, ProbeType DEF WaitRetry, WaitBreak, RecheckLive, TypeOK, CallSteps, Moved
  <2>5. ASSUME HostFails(p) \/ Listening(p) PROVE TypeOK'
    <3>1. server' \in [Servers -> {"unused", "starting", "listening", "down"}]
      BY <2>5 DEF HostFails, Listening, TypeOK
    <3>q. QED
      BY <2>5, <3>1, <1>w, Moves DEF HostFails, Listening, TypeOK, CallSteps, Moved
  <2>6. ASSUME Unlink(p) \/ Recheck(p) PROVE TypeOK'
    BY <2>6, <1>w, Moves DEF Unlink, Recheck, TypeOK, CallSteps, Moved
  <2>7. ASSUME NEW s \in Servers, Host(p, s) PROVE TypeOK'
    <3>1. call' \in [Procs -> CallRecord]
      BY <2>7, Moves DEF Moved
    <3>2. slow' \in 0..MaxSlow /\ strays' \in SUBSET Servers
      BY <2>7, <1>r, ProbeType, StraysType DEF Host
    <3>q. QED
      BY <2>7, <3>1, <3>2, <1>w DEF Host, TypeOK
  <2>8. ASSUME Publish(p) PROVE TypeOK'
    BY <2>8, <1>w, <1>r, Moves DEF Publish, TypeOK, CallSteps, Moved
  <2>9. ASSUME PublishFails(p) PROVE TypeOK'
    <3>1. strays' \in SUBSET Servers
      BY <2>9, <1>r, StraysType DEF PublishFails
    <3>q. QED
      BY <2>9, <3>1, <1>w, Moves DEF PublishFails, TypeOK, CallSteps, Moved
  <2>10. ASSUME Release(p) PROVE TypeOK'
    BY <2>10, <1>w, Moves DEF Release, TypeOK, Moved
  <2>q. QED
    BY <1>2, <2>1, <2>2, <2>3, <2>4, <2>5, <2>6, <2>7, <2>8, <2>9, <2>10 DEF EnsureStep
<1>3. ASSUME NEW p \in Procs, StopStep(p) PROVE TypeOK'
  <2>1. IdleStop \in StopRecord /\ stop[p] \in StopRecord
    BY DEF IdleStop, StopRecord, TypeOK
  <2>2. ASSUME StopOwn(p) PROVE TypeOK'
    <3>1. [stop[p] EXCEPT !.pc = "close"] \in StopRecord
      BY <2>1 DEF StopRecord
    <3>2. stop' \in [Procs -> StopRecord]
      BY <2>2, <3>1 DEF StopOwn, TypeOK
    <3>3. server' \in [Servers -> {"unused", "starting", "listening", "down"}]
      BY <2>2 DEF StopOwn, TypeOK
    <3>q. QED
      BY <2>2, <3>2, <3>3, <1>w DEF StopOwn, TypeOK
  <2>3. ASSUME StopClosed(p) PROVE TypeOK'
    <3>1. strays' \in SUBSET Servers
      BY <2>3, <1>r, StraysType DEF StopClosed
    <3>q. QED
      BY <2>1, <2>3, <3>1, <1>w DEF StopClosed, TypeOK
  <2>4. ASSUME NEW pc \in {"stop", "reap"}, StopOther(p, pc) PROVE TypeOK'
    <3>1. [pc |-> pc, saw |-> record] \in StopRecord
      BY DEF StopRecord, TypeOK
    <3>q. QED
      BY <2>4, <3>1, <1>w DEF StopOther, TypeOK
  <2>5. ASSUME NEW ok \in BOOLEAN, StopRemove(p, ok) PROVE TypeOK'
    <3>1. slow' \in 0..MaxSlow
      BY <2>5, ProbeType DEF StopRemove
    <3>2. strays' \in SUBSET Servers /\ record' \in Servers \cup {None}
      BY <2>5, <1>r, StraysType DEF StopRemove, TypeOK
    <3>q. QED
      BY <2>1, <2>5, <3>1, <3>2, <1>w DEF StopRemove, TypeOK
  <2>q. QED
    BY <1>3, <2>2, <2>3, <2>4, <2>5 DEF StopStep
<1>4. ASSUME NEW p \in Procs, NEW w \in BOOLEAN, Die(p, w) PROVE TypeOK'
  <2>1. call' \in [Procs -> CallRecord]
    BY <1>4, Moves DEF Moved
  <2>2. stop' \in [Procs -> StopRecord]
    BY <1>4 DEF Die, TypeOK, IdleStop, StopRecord
  <2>3. server' \in [Servers -> {"unused", "starting", "listening", "down"}]
    BY <1>4 DEF Die, TypeOK
  <2>4. alive' \in [Procs -> BOOLEAN] /\ hosted' \in [Procs -> Servers \cup {None}]
    BY <1>4 DEF Die, TypeOK
  <2>5. record' \in Servers \cup {None} /\ cleanup' \in SUBSET Procs
    BY <1>4 DEF Die, TypeOK
  <2>6. strays' \in SUBSET Servers
    BY <1>4, <1>r, StraysType DEF Die, TypeOK
  <2>q. QED
    BY <1>4, <2>1, <2>2, <2>3, <2>4, <2>5, <2>6, <1>w DEF Die, TypeOK
<1>5. ASSUME NEW p \in Procs, DeadlinePasses(p) PROVE TypeOK'
  BY <1>5, <1>w, Moves DEF DeadlinePasses, TypeOK, Moved
<1>6. ASSUME LockAges PROVE TypeOK'
  BY <1>6, <1>w DEF LockAges, TypeOK
<1>8. \A p \in Procs : (hosted[p] # None) \in BOOLEAN /\ (p \in cleanup) \in BOOLEAN
  OBVIOUS
<1>q. QED
  BY <1>1, <1>2, <1>3, <1>4, <1>5, <1>6, <1>8 DEF Step, Crash, Exit, Terminate

THEOREM TypeCorrect == Spec => []TypeOK
  BY InitType, TypeStep, PTL DEF Spec

-----------------------------------------------------------------------------
(* The invariant *)

LEMMA InitInv == Init => IInv
<1> SUFFICES ASSUME Init PROVE IInv
  OBVIOUS
<1>1. \A p \in Procs : call[p].pc = "idle" /\ hosted[p] = None
  BY DEF Init, IdleCall
<1>2. \A s \in Servers : ~ Live(s)
  BY DEF Init, Live
<1>3. Safe
  BY <1>1, <1>2 DEF Safe, OwnServer, Tokens, Guarded, Known, Fresh, Starting
<1>q. QED
  BY <1>1, <1>3, InitType DEF IInv, Awake

LEMMA AwakeStep == TypeOK /\ Awake /\ [Next]_vars => Awake'
<1> SUFFICES ASSUME TypeOK, Awake, [Next]_vars PROVE Awake'
  OBVIOUS
<1> USE DEF processes
<1>0. CASE UNCHANGED vars
  BY <1>0 DEF vars, Awake
<1> SUFFICES ASSUME Step PROVE Awake'
  BY <1>0 DEF Next
<1>1. ASSUME NEW p \in Procs, alive' = alive, alive[p],
             \A q \in Procs : q # p => call'[q] = call[q]
      PROVE  Awake'
  BY <1>1 DEF Awake
<1>2. ASSUME NEW p \in Procs, EnsureBegin(p) PROVE Awake'
  <2>1. \A q \in Procs : q # p => call'[q] = call[q]
    BY <1>2, Moves DEF EnsureBegin, CallSteps, Moved
  <2>q. QED
    BY <1>1, <1>2, <2>1 DEF EnsureBegin, At
<1>3. ASSUME NEW p \in Procs, EnsureStep(p) PROVE Awake'
  <2>1. alive' = alive /\ alive[p]
    BY <1>3
       DEF EnsureStep, FastPath, Reuse, TakeLock, LockFails, LockBusy, WaitReuse, WaitRetry,
           WaitBreak, Unlink, Recheck, RecheckLive, Host, HostFails, Listening, Publish,
           PublishFails, Release, At
  <2>2. \A q \in Procs : q # p => call'[q] = call[q]
    <3>1. \/ \E pc \in CallSteps : Goto(p, pc) \/ ReadRecord(p, pc)
          \/ Return(p) \/ TakeLock(p) \/ WaitReuse(p) \/ \E s \in Servers : Host(p, s)
      BY <1>3 DEF EnsureStep, FastPath, Reuse, LockFails, LockBusy, WaitRetry, WaitBreak,
         Unlink, Recheck, RecheckLive, HostFails, Listening, Publish, PublishFails, Release,
         CallSteps
    <3>q. QED
      BY <3>1, Moves DEF Moved
  <2>q. QED
    BY <1>1, <2>1, <2>2
<1>4. ASSUME NEW p \in Procs, StopStep(p) PROVE Awake'
  BY <1>4 DEF StopStep, StopOwn, StopClosed, StopOther, StopRemove, Awake
<1>5. ASSUME NEW p \in Procs, NEW w \in BOOLEAN, Die(p, w) PROVE Awake'
  <2>1. Moved(p, "idle", None, None)
    BY <1>5, Moves
  <2>q. QED
    BY <1>5, <2>1 DEF Die, Moved, Awake, TypeOK
<1>6. ASSUME NEW p \in Procs, DeadlinePasses(p) PROVE Awake'
  <2>1. \A q \in Procs : q # p => call'[q] = call[q]
    BY <1>6, Moves DEF Moved
  <2>q. QED
    BY <1>1, <1>6, <2>1 DEF DeadlinePasses
<1>7. ASSUME LockAges PROVE Awake'
  BY <1>7 DEF LockAges, Awake
<1>8. \A p \in Procs : (hosted[p] # None) \in BOOLEAN /\ (p \in cleanup) \in BOOLEAN
  OBVIOUS
<1>q. QED
  BY <1>2, <1>3, <1>4, <1>5, <1>6, <1>7, <1>8 DEF Step, Crash, Exit, Terminate

\* What the history says of a step.
LEMMA Watched ==
    ASSUME Watch, ~ lockless'
    PROVE  ~ lockless /\ \A p \in Procs : Starting(p)' => lock' = p
  BY DEF Watch

\* A step of a call that starts no server and leaves the servers and the record
\* alone: the lock is taken by a process that has yet to look at the record, or
\* it is gone.
LEMMA QuietStep ==
    ASSUME IInv, Watch, NEW p \in Procs, NEW pc, NEW saw, NEW srv, Moved(p, pc, saw, srv),
           ~ Starting(p), pc \notin {"hosting", "publish"},
           pc = "recheck" => saw = record,
           UNCHANGED <<server, host, hosted, record, strays>>,
           lock' \in {lock, None} \/ (lock' = p /\ pc = "locked")
    PROVE  Safe'
<1>1. \A q \in Procs : Starting(q)' => q # p /\ Starting(q) /\ call'[q] = call[q]
  BY DEF Moved, Starting
<1>2. OwnServer' /\ Tokens'
  BY <1>1 DEF IInv, Safe, OwnServer, Tokens, Starting
<1>3. ASSUME ~ lockless' PROVE Guarded' /\ Known' /\ Fresh'
  <2>1. ~ lockless /\ Guarded /\ Known /\ Fresh /\ \A q \in Procs : Starting(q)' => lock' = q
    BY <1>3, Watched DEF IInv, Safe
  <2>2. Guarded'
    BY <1>1, <2>1 DEF Guarded
  <2>3. Known'
    BY <2>1 DEF Known, Live, Moved, Starting
  <2>4. Fresh'
    BY <2>1, NoneAssumption DEF Fresh, Moved
  <2> QED
    BY <2>2, <2>3, <2>4
<1> QED
  BY <1>2, <1>3 DEF Safe

\* The record is removed, and what it named is given up if it still listens.
LEMMA RecordGoes ==
    ASSUME ~ lockless, Guarded, Known, Fresh, record' = None, GivenUp(record),
           \A s \in Servers : Live(s)' => Live(s),
           \A q \in Procs : call'[q] = call[q], lock' = lock
    PROVE  Guarded' /\ Known' /\ Fresh'
<1>1. Guarded'
  BY DEF Guarded, Starting
<1>2. Known'
  BY DEF Known, GivenUp
<1>3. Fresh'
  BY DEF Fresh
<1> QED
  BY <1>1, <1>2, <1>3

LEMMA SafeStep == IInv /\ [Next]_vars => Safe'
<1> SUFFICES ASSUME IInv, [Next]_vars PROVE Safe'
  OBVIOUS
<1> USE DEF processes, servers, files
<1>0. /\ TypeOK /\ Awake /\ OwnServer /\ Tokens
      /\ \A p \in Procs : Starting(p) => call[p].srv \in Servers
      /\ \A p \in Procs : hosted[p] \in Servers \cup {None}
  BY DEF IInv, Safe, OwnServer, TypeOK, CallRecord
<1>u. CASE UNCHANGED vars
  BY <1>u DEF vars, IInv, Safe, OwnServer, Tokens, Guarded, Known, Fresh, Starting, Live
<1> SUFFICES ASSUME Step, Watch PROVE Safe'
  BY <1>u DEF Next
<1>g. ~ lockless' => /\ ~ lockless /\ Guarded /\ Known /\ Fresh
                     /\ \A p \in Procs : Starting(p)' => lock' = p
  BY Watched DEF IInv, Safe
<1>1. ASSUME NEW p \in Procs, EnsureBegin(p) PROVE Safe'
  <2>1. Moved(p, "fast", record, call[p].srv)
    BY <1>0, <1>1, Moves DEF EnsureBegin, CallSteps
  <2>q. QED
    BY <1>1, <2>1, QuietStep DEF EnsureBegin, At, Starting
<1>2. ASSUME NEW p \in Procs, NEW ok \in BOOLEAN, FastPath(p, ok) \/ Reuse(p, ok) PROVE Safe'
  <2>1. \/ Moved(p, "idle", None, None) \/ Moved(p, "lock", None, call[p].srv)
        \/ Moved(p, "locked", None, call[p].srv)
    BY <1>0, <1>2, Moves DEF FastPath, Reuse, CallSteps
  <2>q. QED
    BY <1>2, <2>1, QuietStep DEF FastPath, Reuse, At, Starting
<1>3. ASSUME NEW p \in Procs, TakeLock(p) PROVE Safe'
  <2>1. Moved(p, "locked", None, call[p].srv)
    BY <1>0, <1>3, Moves DEF TakeLock, CallSteps
  <2>q. QED
    BY <1>3, <2>1, QuietStep DEF TakeLock, At, Starting
<1>4. ASSUME NEW p \in Procs, LockFails(p) \/ Release(p) PROVE Safe'
  <2>1. Moved(p, "idle", None, None)
    BY <1>0, <1>4, Moves DEF LockFails, Release
  <2>q. QED
    BY <1>4, <2>1, QuietStep DEF LockFails, Release, At, Starting
<1>5. ASSUME NEW p \in Procs, LockBusy(p) \/ WaitReuse(p) PROVE Safe'
  <2>1. PICK pc \in {"wait", "reused"} : Moved(p, pc, record, call[p].srv)
    BY <1>0, <1>5, Moves DEF LockBusy, CallSteps
  <2>2. ~ Starting(p) /\ UNCHANGED <<server, host, hosted, record, strays, lock>>
    BY <1>5 DEF LockBusy, WaitReuse, At, Starting
  <2>q. QED
    BY <2>1, <2>2, QuietStep
<1>6. ASSUME NEW p \in Procs, WaitRetry(p) \/ WaitBreak(p) \/ Unlink(p) \/ RecheckLive(p) PROVE Safe'
  <2>1. PICK pc \in {"lock", "unlink", "release"} : Moved(p, pc, None, call[p].srv)
    BY <1>0, <1>6, Moves DEF WaitRetry, WaitBreak, Unlink, RecheckLive, CallSteps
  <2>q. QED
    BY <1>6, <2>1, QuietStep DEF WaitRetry, WaitBreak, Unlink, RecheckLive, At, Starting
<1>7. ASSUME NEW p \in Procs, Recheck(p) PROVE Safe'
  <2>1. Moved(p, "recheck", record, call[p].srv)
    BY <1>0, <1>7, Moves DEF Recheck, CallSteps
  <2>q. QED
    BY <1>7, <2>1, QuietStep DEF Recheck, At, Starting
<1>8. ASSUME NEW p \in Procs, DeadlinePasses(p) PROVE Safe'
  <2>1. Moved(p, call[p].pc, call[p].saw, call[p].srv)
    BY <1>0, <1>8, Moves
  <2>2. call[p].pc \in {"lock", "wait"}
    BY <1>8 DEF DeadlinePasses
  <2>q. QED
    BY <1>8, <2>1, <2>2, QuietStep DEF DeadlinePasses, Starting
<1>9. ASSUME NEW p \in Procs, NEW s \in Servers, Host(p, s) PROVE Safe'
  <2>1. Moved(p, "hosting", None, s)
    BY <1>0, <1>9, Moves
  <2>2. /\ server[s] = "unused" /\ server' = [server EXCEPT ![s] = "starting"]
        /\ host' = [host EXCEPT ![s] = p] /\ record' = None /\ lock' = lock
        /\ hosted' = hosted /\ call[p].pc = "recheck" /\ GivenUp(call[p].saw)
    BY <1>9 DEF Host, Unused, At
  <2>3. \A t \in Servers : server'[t] = IF t = s THEN "starting" ELSE server[t]
    BY <1>0, <2>2 DEF TypeOK
  <2>4. \A q \in Procs : Starting(q) => call[q].srv # s
    BY <1>0, <2>2 DEF OwnServer, Starting
  <2>5. \A t \in Servers : host'[t] = IF t = s THEN p ELSE host[t]
    BY <1>0, <2>2 DEF TypeOK
  <2>6. \A q \in Procs : hosted[q] # s
    BY <1>0, <2>2, NoneAssumption DEF Tokens
  <2>7. OwnServer'
    <3> SUFFICES ASSUME NEW q \in Procs, Starting(q)'
                 PROVE  /\ call'[q].srv # None /\ host'[call'[q].srv] = q
                        /\ call'[q].pc = "hosting" => server'[call'[q].srv] = "starting"
                        /\ call'[q].pc = "publish" => server'[call'[q].srv] = "listening"
                        /\ \A r \in Procs : hosted'[r] # call'[q].srv
      BY DEF OwnServer
    <3>1. CASE q = p
      BY <3>1, <2>1, <2>2, <2>3, <2>5, <2>6, NoneAssumption DEF Moved
    <3>2. CASE q # p
      <4>1. call'[q] = call[q] /\ Starting(q) /\ call[q].srv # s /\ call[q].srv \in Servers
        BY <3>2, <1>0, <2>1, <2>4 DEF Moved, Starting
      <4> QED
        BY <4>1, <1>0, <2>2, <2>3, <2>5 DEF OwnServer
    <3> QED
      BY <3>1, <3>2
  <2>8. Tokens'
    BY <1>0, <2>2, <2>3 DEF Tokens
  <2>9. ASSUME ~ lockless' PROVE Guarded' /\ Known' /\ Fresh'
    <3>1. lock = p /\ lock' = p
      BY <2>1, <2>2, <2>9, <1>g DEF Moved, Starting
    <3>2. Guarded' /\ Fresh'
      BY <2>2, <2>9, <1>g DEF Guarded, Fresh
    <3>3. ASSUME NEW t \in Servers, Live(t)' PROVE t \in strays'
      <4>1. t # s /\ Live(t)
        BY <3>3, <2>3 DEF Live
      <4>2. \A q \in Procs : ~ (call[q].pc = "publish" /\ call[q].srv = t)
        BY <3>1, <2>2, <2>9, <1>g DEF Guarded, Starting
      <4>3. t \in strays \/ record = t
        BY <4>1, <4>2, <2>9, <1>g DEF Known
      <4>4. CASE record = t
        <5>1. call[p].saw = t
          BY <4>4, <3>1, <2>2, <2>9, <1>g, NoneAssumption DEF Fresh
        <5> QED
          BY <5>1, <4>1, <2>2 DEF GivenUp
      <4> QED
        BY <4>3, <4>4, <2>2 DEF GivenUp
    <3> QED
      BY <3>2, <3>3 DEF Known
  <2> QED
    BY <2>7, <2>8, <2>9 DEF Safe
<1>10. ASSUME NEW p \in Procs, HostFails(p) \/ Listening(p) PROVE Safe'
  <2> DEFINE s == call[p].srv
  <2>1. PICK pc \in {"release", "publish"}, state \in {"down", "listening"} :
          /\ Moved(p, pc, None, s) /\ server' = [server EXCEPT ![s] = state]
          /\ pc = "publish" => state = "listening"
          /\ pc = "release" => state = "down"
    BY <1>0, <1>10, Moves DEF HostFails, Listening, CallSteps
  <2>2. /\ s \in Servers /\ Starting(p) /\ host[s] = p /\ server[s] = "starting"
        /\ \A r \in Procs : hosted[r] # s
    BY <1>0, <1>10 DEF HostFails, Listening, At, OwnServer, Starting
  <2>3. UNCHANGED <<host, hosted, record, lock, strays>>
    BY <1>10 DEF HostFails, Listening
  <2>4. \A t \in Servers : server'[t] = IF t = s THEN state ELSE server[t]
    BY <1>0, <2>1, <2>2 DEF TypeOK
  <2>5. \A q \in Procs : q # p => call'[q] = call[q] /\ (Starting(q)' <=> Starting(q))
    BY <2>1 DEF Moved, Starting
  <2>6. \A q \in Procs : q # p /\ Starting(q) => call[q].srv # s
    BY <1>0, <2>2 DEF OwnServer
  <2>7. OwnServer'
    <3> SUFFICES ASSUME NEW q \in Procs, Starting(q)'
                 PROVE  /\ call'[q].srv # None /\ host'[call'[q].srv] = q
                        /\ call'[q].pc = "hosting" => server'[call'[q].srv] = "starting"
                        /\ call'[q].pc = "publish" => server'[call'[q].srv] = "listening"
                        /\ \A r \in Procs : hosted'[r] # call'[q].srv
      BY DEF OwnServer
    <3>1. CASE q = p
      BY <3>1, <2>1, <2>2, <2>3, <2>4, NoneAssumption DEF Moved, Starting
    <3>2. CASE q # p
      BY <3>2, <1>0, <2>3, <2>4, <2>5, <2>6 DEF OwnServer
    <3> QED
      BY <3>1, <3>2
  <2>8. Tokens'
    BY <1>0, <2>3, <2>4 DEF Tokens
  <2>9. ASSUME ~ lockless' PROVE Guarded' /\ Known' /\ Fresh'
    <3>1. Guarded'
      BY <2>2, <2>3, <2>5, <2>9, <1>g DEF Guarded
    <3>2. Fresh'
      BY <2>1, <2>3, <2>9, <1>g DEF Fresh, Moved
    <3>3. ASSUME NEW t \in Servers, Live(t)'
          PROVE  t \in strays' \/ record' = t \/ \E q \in Procs : call'[q].pc = "publish" /\ call'[q].srv = t
      <4>1. CASE t = s
        BY <3>3, <4>1, <2>1, <2>4 DEF Live, Moved
      <4>2. CASE t # s
        <5>1. Live(t)
          BY <3>3, <4>2, <2>4 DEF Live
        <5>2. call[p].pc = "hosting"
          BY <1>10 DEF HostFails, Listening, At
        <5> QED
          BY <5>1, <5>2, <2>3, <2>5, <2>9, <1>g DEF Known
      <4> QED
        BY <4>1, <4>2
    <3> QED
      BY <3>1, <3>2, <3>3 DEF Known
  <2> QED
    BY <2>7, <2>8, <2>9 DEF Safe
<1>11. ASSUME NEW p \in Procs, Publish(p) \/ PublishFails(p) PROVE Safe'
  <2> DEFINE s == call[p].srv
  <2>1. Moved(p, "release", None, s)
    BY <1>0, <1>11, Moves DEF Publish, PublishFails, CallSteps
  <2>2. /\ s \in Servers /\ Starting(p) /\ call[p].pc = "publish" /\ host[s] = p
        /\ server[s] = "listening" /\ \A r \in Procs : hosted[r] # s
    BY <1>0, <1>11 DEF Publish, PublishFails, At, OwnServer, Starting
  <2>3. UNCHANGED <<server, host, lock>>
    BY <1>11 DEF Publish, PublishFails
  <2>4. hosted' \in {hosted, [hosted EXCEPT ![p] = s]}
    BY <1>11 DEF Publish, PublishFails
  <2>5. \A q \in Procs : Starting(q)' => q # p /\ call'[q] = call[q] /\ Starting(q) /\ call[q].srv # s
    BY <1>0, <2>1, <2>2 DEF Moved, Starting, OwnServer
  <2>6. \A r \in Procs : hosted'[r] = hosted[r] \/ hosted'[r] = s
    BY <1>0, <2>4 DEF TypeOK
  <2>7. OwnServer'
    BY <1>0, <2>3, <2>5, <2>6 DEF OwnServer
  <2>8. Tokens'
    BY <1>0, <2>2, <2>3, <2>6 DEF Tokens
  <2>9. ASSUME ~ lockless' PROVE Guarded' /\ Known' /\ Fresh'
    <3>1. lock = p /\ lock' = p /\ record = None
      BY <2>2, <2>3, <2>9, <1>g DEF Guarded
    <3>2. \A q \in Procs : ~ Starting(q)'
      BY <3>1, <2>5, <2>9, <1>g
    <3>3. Guarded' /\ Fresh'
      BY <3>1, <3>2, <2>1 DEF Guarded, Fresh, Moved
    <3>4. ASSUME NEW t \in Servers, Live(t)' PROVE t \in strays' \/ record' = t
      <4>1. Live(t)
        BY <3>4, <2>3 DEF Live
      <4>2. \A q \in Procs : call[q].pc = "publish" => q = p
        BY <3>1, <2>9, <1>g DEF Guarded, Starting
      <4>3. t \in strays \/ t = s
        BY <4>1, <4>2, <3>1, <2>9, <1>g, NoneAssumption DEF Known
      <4>4. CASE Publish(p)
        BY <4>3, <4>4 DEF Publish
      <4>5. CASE PublishFails(p)
        BY <4>1, <4>3, <4>5 DEF PublishFails, GivenUp
      <4> QED
        BY <4>4, <4>5, <1>11
    <3> QED
      BY <3>3, <3>4 DEF Known
  <2> QED
    BY <2>7, <2>8, <2>9 DEF Safe
<1>12. ASSUME NEW p \in Procs, StopOwn(p) PROVE Safe'
  <2> DEFINE s == hosted[p]
  <2>1. s \in Servers /\ server' = [server EXCEPT ![s] = "down"]
    BY <1>0, <1>12 DEF StopOwn
  <2>2. \A t \in Servers : server'[t] = IF t = s THEN "down" ELSE server[t]
    BY <1>0, <2>1 DEF TypeOK
  <2>3. UNCHANGED <<host, hosted, record, lock, strays, call>>
    BY <1>12 DEF StopOwn
  <2>4. OwnServer' /\ Tokens'
    BY <1>0, <2>2, <2>3 DEF OwnServer, Tokens, Starting
  <2>5. ASSUME ~ lockless' PROVE Guarded' /\ Known' /\ Fresh'
    BY <2>2, <2>3, <2>5, <1>g DEF Guarded, Known, Fresh, Starting, Live
  <2> QED
    BY <2>4, <2>5 DEF Safe
<1>13. ASSUME NEW p \in Procs, StopClosed(p) PROVE Safe'
  <2>1. /\ UNCHANGED <<server, host, lock, call>> /\ record' = None /\ GivenUp(record)
        /\ hosted' = [hosted EXCEPT ![p] = None]
    BY <1>13 DEF StopClosed
  <2>2. \A q \in Procs : hosted'[q] = hosted[q] \/ hosted'[q] = None
    BY <1>0, <2>1 DEF TypeOK
  <2>3. OwnServer' /\ Tokens'
    BY <1>0, <2>1, <2>2 DEF OwnServer, Tokens, Starting
  <2>4. ASSUME ~ lockless' PROVE Guarded' /\ Known' /\ Fresh'
    BY <2>1, <2>4, <1>g, RecordGoes DEF Live
  <2> QED
    BY <2>3, <2>4 DEF Safe
<1>14. ASSUME NEW p \in Procs, NEW ok \in BOOLEAN, StopRemove(p, ok) PROVE Safe'
  <2>1. /\ UNCHANGED <<server, host, hosted, lock, call>>
        /\ \/ UNCHANGED <<record, strays>>
           \/ record' = None /\ GivenUp(record)
    BY <1>14 DEF StopRemove
  <2>2. OwnServer' /\ Tokens'
    BY <1>0, <2>1 DEF OwnServer, Tokens, Starting
  <2>3. ASSUME ~ lockless' PROVE Guarded' /\ Known' /\ Fresh'
    <3>1. CASE UNCHANGED <<record, strays>>
      BY <2>1, <2>3, <3>1, <1>g DEF Guarded, Known, Fresh, Starting, Live
    <3>2. CASE record' = None /\ GivenUp(record)
      BY <2>1, <2>3, <3>2, <1>g, RecordGoes DEF Live
    <3> QED
      BY <2>1, <3>1, <3>2
  <2> QED
    BY <2>2, <2>3 DEF Safe
<1>15. ASSUME NEW p \in Procs, NEW pc \in {"stop", "reap"}, StopOther(p, pc) PROVE Safe'
  <2>1. UNCHANGED <<server, host, hosted, record, lock, strays, call>>
    BY <1>15 DEF StopOther
  <2> QED
    BY <2>1, <1>0, <1>g DEF Safe, OwnServer, Tokens, Guarded, Known, Fresh, Starting, Live
<1>16. ASSUME NEW p \in Procs, NEW w \in BOOLEAN, Die(p, w) PROVE Safe'
  <2>1. Moved(p, "idle", None, None)
    BY <1>0, <1>16, Moves
  <2>2. /\ UNCHANGED <<host, lock>> /\ hosted' = [hosted EXCEPT ![p] = None]
        /\ \/ UNCHANGED <<record, strays>>
           \/ record' = None /\ GivenUp(record)
    BY <1>16 DEF Die
  <2>3. \A t \in Servers : server'[t] = IF host[t] = p THEN "down" ELSE server[t]
    BY <1>16 DEF Die
  <2>4. \A q \in Procs : hosted'[q] = hosted[q] \/ hosted'[q] = None
    BY <1>0, <2>2 DEF TypeOK
  <2>5. \A q \in Procs : Starting(q)' => q # p /\ call'[q] = call[q] /\ Starting(q)
    BY <2>1 DEF Moved, Starting
  <2>6. OwnServer'
    BY <1>0, <2>2, <2>3, <2>4, <2>5 DEF OwnServer
  <2>7. Tokens'
    BY <1>0, <2>3, <2>4 DEF Tokens
  <2>8. ASSUME ~ lockless' PROVE Guarded' /\ Known' /\ Fresh'
    <3>1. Guarded'
      BY <2>2, <2>5, <2>8, <1>g DEF Guarded
    <3>2. Fresh'
      BY <2>1, <2>2, <2>8, <1>g DEF Fresh, Moved
    <3>3. ASSUME NEW t \in Servers, Live(t)'
          PROVE  t \in strays' \/ record' = t \/ \E q \in Procs : call'[q].pc = "publish" /\ call'[q].srv = t
      <4>1. Live(t) /\ host[t] # p
        BY <3>3, <2>3 DEF Live
      <4>2. CASE t \in strays
        BY <4>2, <2>2 DEF GivenUp
      <4>3. CASE record = t
        BY <4>1, <4>3, <2>2 DEF GivenUp
      <4>4. ASSUME NEW q \in Procs, call[q].pc = "publish", call[q].srv = t
            PROVE  call'[q].pc = "publish" /\ call'[q].srv = t
        <5>1. host[t] = q
          BY <4>4, <1>0 DEF OwnServer, Starting
        <5> QED
          BY <4>1, <4>4, <5>1, <2>1 DEF Moved
      <4> QED
        BY <4>1, <4>2, <4>3, <4>4, <2>8, <1>g DEF Known
    <3> QED
      BY <3>1, <3>2, <3>3 DEF Known
  <2> QED
    BY <2>6, <2>7, <2>8 DEF Safe
<1>17. ASSUME LockAges PROVE Safe'
  <2>1. UNCHANGED <<server, host, hosted, record, lock, strays, call>>
    BY <1>17 DEF LockAges
  <2> QED
    BY <2>1, <1>0, <1>g DEF Safe, OwnServer, Tokens, Guarded, Known, Fresh, Starting, Live
<1>18. \A p \in Procs : (hosted[p] # None) \in BOOLEAN /\ (p \in cleanup) \in BOOLEAN
  OBVIOUS
<1>q. QED
  BY <1>1, <1>2, <1>3, <1>4, <1>5, <1>6, <1>7, <1>8, <1>9, <1>10, <1>11, <1>12, <1>13, <1>14,
     <1>15, <1>16, <1>17, <1>18
     DEF Step, EnsureStep, StopStep, Crash, Exit, Terminate

\* The invariant of the server, for any number of processes and servers.
THEOREM PlansInductive == Spec => []IInv
<1>1. Init => IInv
  BY InitInv
<1>2. IInv /\ [Next]_vars => IInv'
  BY TypeStep, AwakeStep, SafeStep DEF IInv
<1>q. QED
  BY <1>1, <1>2, PTL DEF Spec

\* ensureServer, for any number of processes and servers: of the servers nobody
\* has given up one listens at most, and .server.json names it as soon as its
\* host has written the record, whatever dies, fails, stops, reaps or breaks a
\* lock; until a process starts a server without having the lock.
THEOREM OneServerHolds == Spec => []OneServer
<1>1. IInv => OneServer
  <2> SUFFICES ASSUME IInv, ~ lockless PROVE OneServer
    BY DEF OneServer
  <2> DEFINE found == {s \in Servers \ strays : Live(s)}
  <2>0. Awake /\ Guarded /\ Known
    BY DEF IInv, Safe
  <2>1. \A s \in found : record = s \/ \E p \in Procs : At(p, "publish") /\ call[p].srv = s
    BY <2>0 DEF Known, Awake, At
  <2>2. ASSUME NEW s \in found, NEW t \in found PROVE s = t
    <3>1. CASE record = None
      <4>1. PICK p \in Procs : call[p].pc = "publish" /\ call[p].srv = s
        BY <2>1, <2>2, <3>1, NoneAssumption DEF At
      <4>2. PICK q \in Procs : call[q].pc = "publish" /\ call[q].srv = t
        BY <2>1, <2>2, <3>1, NoneAssumption DEF At
      <4>3. lock = p /\ lock = q
        BY <4>1, <4>2, <2>0 DEF Guarded, Starting
      <4>q. QED
        BY <4>1, <4>2, <4>3
    <3>2. CASE record # None
      <4>1. \A p \in Procs : ~ Starting(p)
        BY <3>2, <2>0 DEF Guarded
      <4>q. QED
        BY <2>1, <2>2, <4>1 DEF Starting, At
    <3>q. QED
      BY <3>1, <3>2
  <2>q. QED
    BY <2>1, <2>2 DEF OneServer
<1>q. QED
  BY <1>1, PlansInductive, PTL

-----------------------------------------------------------------------------
(* What a block halts *)

\* The sections halted so far depend on a block, and those the pass has looked
\* at without halting one have nothing to be halted for.
HaltInv ==
    /\ depends \in [Halt!Sections -> SUBSET Halt!Ids]
    /\ next \in 1 .. (Length + 1)
    /\ changed \in BOOLEAN /\ done \in BOOLEAN
    /\ blocked \cap Halt!Sections \subseteq halted
    /\ halted \subseteq Halt!Dependents
    /\ ~changed => \A s \in Halt!Sections : s < next => ~Halt!Halts(s)
    /\ done => next > Length /\ ~changed

LEMMA HaltInit == Halt!Init => HaltInv
<1> SUFFICES ASSUME Halt!Init PROVE HaltInv
  OBVIOUS
<1>1. Length \in Nat
  BY PlansAssumption
<1>2. halted \subseteq Halt!Dependents
  BY DEF Halt!Init, Halt!Dependents, Halt!Closed
<1>3. \A s \in Halt!Sections : ~(s < 1)
  BY <1>1 DEF Halt!Sections
<1>4. 1 \in 1 .. (Length + 1)
  BY <1>1
<1>5. /\ depends \in [Halt!Sections -> SUBSET Halt!Ids] /\ halted = blocked \cap Halt!Sections
      /\ changed = FALSE /\ next = 1 /\ done = FALSE
  BY DEF Halt!Init
<1> QED
  BY <1>2, <1>3, <1>4, <1>5 DEF HaltInv

\* What depends on a halted section, or on a block elsewhere, depends on a block.
LEMMA DependentsGrow ==
  ASSUME NEW s \in Halt!Sections, halted \subseteq Halt!Dependents, Halt!Halts(s)
  PROVE  s \in Halt!Dependents
<1> SUFFICES ASSUME NEW set \in SUBSET Halt!Sections, Halt!Closed(set)
             PROVE  s \in set
  BY DEF Halt!Dependents
<1>1. halted \subseteq set
  BY DEF Halt!Dependents
<1> QED
  BY <1>1 DEF Halt!Closed, Halt!Halts

LEMMA HaltStep == HaltInv /\ [Halt!Next]_haltVars => HaltInv'
<1> SUFFICES ASSUME HaltInv, [Halt!Next]_haltVars PROVE HaltInv'
  OBVIOUS
<1>0. Length \in Nat
  BY PlansAssumption
<1>1. CASE Halt!Look
  <2>1. next \in Halt!Sections
    BY <1>0, <1>1 DEF Halt!Look, Halt!Sections, HaltInv
  <2>2. Halt!Dependents' = Halt!Dependents
    BY <1>1 DEF Halt!Look, Halt!Dependents, Halt!Closed
  <2>3. CASE Halt!Halts(next)
    <3>1. next \in Halt!Dependents
      BY <2>1, <2>3, DependentsGrow DEF HaltInv
    <3>2. /\ halted' = halted \cup {next} /\ changed' = TRUE /\ next' = next + 1
          /\ UNCHANGED <<depends, blocked, done>> /\ next <= Length
      BY <1>1, <2>3 DEF Halt!Look, HaltInv
    <3> QED
      BY <1>0, <2>2, <3>1, <3>2 DEF HaltInv
  <2>4. CASE ~Halt!Halts(next)
    <3>1. ASSUME ~changed, NEW s \in Halt!Sections, s < next + 1 PROVE ~Halt!Halts(s)
      <4>1. s = next \/ s < next
        BY <1>0, <3>1 DEF HaltInv, Halt!Sections
      <4> QED
        BY <2>4, <3>1, <4>1 DEF HaltInv
    <3> QED
      BY <1>0, <1>1, <2>1, <2>2, <2>4, <3>1 DEF Halt!Look, HaltInv, Halt!Halts
  <2> QED
    BY <2>3, <2>4
<1>2. CASE Halt!PassEnds
  <2>1. Halt!Dependents' = Halt!Dependents
    BY <1>2 DEF Halt!PassEnds, Halt!Dependents, Halt!Closed
  <2>2. \A s \in Halt!Sections : ~(s < 1)
    BY DEF Halt!Sections
  <2>3. UNCHANGED <<depends, blocked, halted>> /\ next > Length
    BY <1>2 DEF Halt!PassEnds
  <2>4. CASE changed
    <3>1. done' = FALSE /\ changed' = FALSE /\ next' = 1
      BY <1>2, <2>4 DEF Halt!PassEnds
    <3>2. 1 \in 1 .. (Length + 1)
      BY <1>0
    <3> QED
      BY <2>1, <2>2, <2>3, <3>1, <3>2 DEF HaltInv
  <2>5. CASE ~changed
    <3>1. done' = TRUE /\ changed' = FALSE /\ next' = next
      BY <1>2, <2>5 DEF Halt!PassEnds
    <3>2. \A s \in Halt!Sections : s < next => ~Halt!Halts(s)'
      BY <2>3, <2>5 DEF HaltInv, Halt!Halts
    <3> QED
      BY <2>1, <2>3, <3>1, <3>2 DEF HaltInv
  <2> QED
    BY <2>4, <2>5
<1>3. CASE UNCHANGED haltVars
  BY <1>3 DEF haltVars, HaltInv, Halt!Halts, Halt!Dependents, Halt!Closed
<1> QED
  BY <1>1, <1>2, <1>3 DEF Halt!Next

LEMMA HaltedAreTheDependents == HaltInv => HaltsDependents
<1> SUFFICES ASSUME HaltInv, done PROVE halted = Halt!Dependents
  BY DEF HaltsDependents, Halt!HaltsDependents
<1>1. \A s \in Halt!Sections : ~Halt!Halts(s)
  BY PlansAssumption DEF HaltInv, Halt!Sections
<1>2. Halt!Closed(halted)
  BY <1>1 DEF Halt!Closed, Halt!Halts, HaltInv
<1>3. halted \in SUBSET Halt!Sections
  BY DEF HaltInv, Halt!Dependents
<1> QED
  BY <1>2, <1>3 DEF HaltInv, Halt!Dependents

\* A plan of any length, in any order: what is halted in the end is what a
\* block reaches through depends_on, and nothing else.
THEOREM BlocksHaltDependents == PlansSpec => []HaltsDependents
<1>1. PlansInit => HaltInv
  BY HaltInit DEF PlansInit
<1>2. [PlansNext]_<<focus, vars, storeVars, haltVars>> => [Halt!Next]_haltVars
  BY DEF PlansNext
<1> QED
  BY <1>1, <1>2, HaltStep, HaltedAreTheDependents, PTL DEF PlansSpec

-----------------------------------------------------------------------------
(* The events file *)

Steps == {"idle", "lock", "read", "write", "written", "failed", "caught", "rewrite"}
Op == [at : Steps, event : Events \cup {None}, tries : Nat, copy : Store!Contents]
Held == {"read", "write", "written", "failed"}

\* Whoever is past the lock has its file, unless somebody removed that of
\* another process.
StoreInv ==
    /\ file \in Store!Contents
    /\ op \in [Store!Processes -> Op]
    /\ robbed \in BOOLEAN
    /\ robbed \/ \A p \in Store!Processes : op[p].at \in Held => latch = p

\* A step of one process that neither holds nor lets go of the lock wrongly.
LEMMA OneProcess ==
  ASSUME StoreInv, NEW p \in Store!Processes, NEW new \in Op,
         op' = [op EXCEPT ![p] = new], file' \in Store!Contents, robbed' \in BOOLEAN,
         robbed => robbed',
         robbed' \/ (new.at \in Held => latch' = p),
         robbed' \/ \A q \in Store!Processes \ {p} : op[q].at \in Held => latch' = latch
  PROVE  StoreInv'
  BY DEF StoreInv

LEMMA IdleIsAnOp == Store!Idle \in Op /\ Store!Idle.at = "idle"
  BY DEF Op, Steps, Store!Idle, Store!Nothing, Store!Contents, Store!Status

LEMMA StoreInit == Store!Init => StoreInv
<1>1. Store!Nothing \in Store!Contents
  BY DEF Store!Nothing, Store!Contents
<1> QED
  BY <1>1, IdleIsAnOp DEF Store!Init, StoreInv, Held

LEMMA MovedIsAnOp ==
  ASSUME NEW before \in Op, NEW step \in Steps
  PROVE  [before EXCEPT !.at = step] \in Op /\ [before EXCEPT !.at = step].at = step
  BY DEF Op

LEMMA StoreStep ==
  ASSUME StoreInv, NEW p \in Store!Processes,
         \/ Store!Append(p)
         \/ \E e \in Events, to \in Store!Status \ {"open"} : Store!Respond(p, e, to)
         \/ \E contents \in {file, Store!Nothing} : Store!Reconcile(p, contents)
         \/ Store!Rewrite(p) \/ Store!WriteFails(p) \/ Store!Crash(p)
  PROVE  StoreInv'
<1> USE DEF Store!At, Store!Goto, Store!Returns
<1>t. /\ op[p] \in Op /\ op \in [Store!Processes -> Op] /\ file \in Store!Contents
      /\ robbed \in BOOLEAN /\ p # None
      /\ robbed \/ \A q \in Store!Processes : op[q].at \in Held => latch = q
  BY PlansAssumption DEF StoreInv, Store!Processes
<1>1. ASSUME NEW e \in Events, Store!AppendBegins(p, e) PROVE StoreInv'
  <2> DEFINE new == [op[p] EXCEPT !.at = "lock", !.event = e]
  <2>1. op' = [op EXCEPT ![p] = new] /\ UNCHANGED <<file, latch, robbed>>
    BY <1>1, <1>t DEF Store!AppendBegins
  <2>2. new \in Op /\ new.at = "lock"
    BY <1>t DEF Op, Steps
  <2> HIDE DEF new
  <2> QED
    BY <2>1, <2>2, <1>t, OneProcess DEF Held
<1>2. CASE Store!LockTaken(p)
  <2> DEFINE new == [op[p] EXCEPT !.at = "read"]
  <2>1. op' = [op EXCEPT ![p] = new] /\ latch = None /\ latch' = p /\ UNCHANGED <<file, robbed>>
    BY <1>2, <1>t DEF Store!LockTaken
  <2>2. new \in Op
    BY <1>t, MovedIsAnOp DEF Steps
  <2>3. robbed \/ \A q \in Store!Processes : op[q].at \notin Held
    BY <2>1, <1>t, PlansAssumption DEF Store!Processes
  <2> HIDE DEF new
  <2> QED
    BY <2>1, <2>2, <2>3, <1>t, OneProcess
<1>3. CASE Store!LockBusy(p)
  <2>1. CASE op' = [op EXCEPT ![p].tries = @ + 1]
    <3> DEFINE new == [op[p] EXCEPT !.tries = @ + 1]
    <3>1. op' = [op EXCEPT ![p] = new] /\ UNCHANGED <<file, latch, robbed>> /\ op[p].at = "lock"
      BY <1>3, <2>1, <1>t DEF Store!LockBusy
    <3>2. new \in Op /\ new.at = op[p].at
      BY <1>t DEF Op
    <3> HIDE DEF new
    <3> QED
      BY <3>1, <3>2, <1>t, OneProcess DEF Held
  <2>2. CASE op' = [op EXCEPT ![p] = Store!Idle]
    BY <1>3, <2>2, <1>t, OneProcess, IdleIsAnOp DEF Store!LockBusy, Held
  <2> QED
    BY <1>3, <2>1, <2>2 DEF Store!LockBusy
<1>4. ASSUME NEW contents \in {file, Store!Nothing}, Store!AppendReads(p, contents) PROVE StoreInv'
  <2>0. contents \in Store!Contents /\ op[p].at = "read" /\ UNCHANGED <<file, latch, robbed>>
    BY <1>4, <1>t DEF Store!AppendReads, Store!Nothing, Store!Contents
  <2>1. CASE op' = [op EXCEPT ![p].at = "write", ![p].copy = contents]
    <3> DEFINE new == [op[p] EXCEPT !.at = "write", !.copy = contents]
    <3>1. op' = [op EXCEPT ![p] = new]
      BY <2>1, <1>t
    <3>2. new \in Op
      BY <1>t, <2>0 DEF Op, Steps
    <3> HIDE DEF new
    <3> QED
      BY <2>0, <3>1, <3>2, <1>t, OneProcess DEF Held
  <2>2. CASE op' = [op EXCEPT ![p].at = "failed"]
    <3> DEFINE new == [op[p] EXCEPT !.at = "failed"]
    <3>1. op' = [op EXCEPT ![p] = new]
      BY <2>2, <1>t
    <3>2. new \in Op
      BY <1>t, MovedIsAnOp DEF Steps
    <3> HIDE DEF new
    <3> QED
      BY <2>0, <3>1, <3>2, <1>t, OneProcess DEF Held
  <2> QED
    BY <1>4, <2>1, <2>2 DEF Store!AppendReads
<1>5. CASE Store!AppendWrites(p)
  <2> DEFINE new == [op[p] EXCEPT !.at = "written"]
  <2>1. op' = [op EXCEPT ![p] = new] /\ UNCHANGED <<latch, robbed>> /\ op[p].at = "write"
    BY <1>5, <1>t DEF Store!AppendWrites
  <2>2. file' \in Store!Contents
    BY <1>5, <1>t DEF Store!AppendWrites, Store!Contents, Store!Status, Op
  <2>3. new \in Op
    BY <1>t, MovedIsAnOp DEF Steps
  <2> HIDE DEF new
  <2> QED
    BY <2>1, <2>2, <2>3, <1>t, OneProcess DEF Held
\* The one that unlocks leaves nobody behind with the lock, or has robbed one.
<1>u. ASSUME Store!Unlatched(p), op[p].at \in {"written", "failed", "caught"}
      PROVE  /\ robbed' \in BOOLEAN /\ (robbed => robbed')
             /\ robbed' \/ \A q \in Store!Processes \ {p} : op[q].at \in Held => latch' = latch
  BY <1>u, <1>t, PlansAssumption DEF Store!Unlatched, Store!Processes
<1>6. CASE Store!Unlock(p)
  BY <1>6, <1>u, <1>t, OneProcess, IdleIsAnOp DEF Store!Unlock, Held
<1>7. CASE Store!UnlockFailed(p)
  <2> DEFINE new == [op[p] EXCEPT !.at = "caught"]
  <2>1. op' = [op EXCEPT ![p] = new] /\ UNCHANGED file
    BY <1>7, <1>t DEF Store!UnlockFailed
  <2>2. new \in Op /\ new.at = "caught"
    BY <1>t, MovedIsAnOp DEF Steps
  <2>3. Store!Unlatched(p) /\ op[p].at = "failed"
    BY <1>7 DEF Store!UnlockFailed
  <2> HIDE DEF new
  <2> QED
    BY <2>1, <2>2, <2>3, <1>u, <1>t, OneProcess DEF Held
<1>8. CASE Store!UnlockAgain(p)
  BY <1>8, <1>u, <1>t, OneProcess, IdleIsAnOp DEF Store!UnlockAgain, Held
<1>9. ASSUME NEW e \in Events, NEW to \in Store!Status \ {"open"}, Store!Respond(p, e, to)
      PROVE  StoreInv'
  <2> DEFINE copied == [file EXCEPT ![e] = to]
             new == [Store!Idle EXCEPT !.at = "rewrite", !.event = e, !.copy = copied]
  <2>1. op' = [op EXCEPT ![p] = new] /\ UNCHANGED <<file, latch, robbed>>
    BY <1>9 DEF Store!Respond
  <2>2. copied \in Store!Contents
    BY <1>t DEF Store!Contents
  <2> HIDE DEF copied
  <2>3. new \in Op /\ new.at = "rewrite"
    BY <2>2, IdleIsAnOp DEF Op, Steps
  <2> HIDE DEF new
  <2> QED
    BY <2>1, <2>3, <1>t, OneProcess DEF Held
<1>10. ASSUME NEW contents \in {file, Store!Nothing}, Store!Reconcile(p, contents) PROVE StoreInv'
  <2> DEFINE copied == Store!Reconciled(contents)
             new == [op[p] EXCEPT !.at = "rewrite", !.copy = copied]
  <2>1. op' = [op EXCEPT ![p] = new] /\ UNCHANGED <<file, latch, robbed>>
    BY <1>10, <1>t DEF Store!Reconcile
  <2>2. copied \in Store!Contents
    <3>1. contents \in Store!Contents
      BY <1>10, <1>t DEF Store!Nothing, Store!Contents
    <3> QED
      BY <3>1 DEF Store!Contents, Store!Reconciled, Store!Decided, Store!Status
  <2> HIDE DEF copied
  <2>3. new \in Op /\ new.at = "rewrite"
    BY <1>t, <2>2 DEF Op, Steps
  <2> HIDE DEF new
  <2> QED
    BY <2>1, <2>3, <1>t, OneProcess DEF Held
<1>11. CASE Store!Rewrite(p)
  <2>1. file' \in Store!Contents
    BY <1>11, <1>t DEF Store!Rewrite, Op
  <2> QED
    BY <1>11, <2>1, <1>t, OneProcess, IdleIsAnOp DEF Store!Rewrite, Held
<1>12. CASE Store!WriteFails(p)
  <2> DEFINE new == [op[p] EXCEPT !.at = "failed"]
  <2>1. CASE op[p].at = "write"
    <3>1. op' = [op EXCEPT ![p] = new] /\ UNCHANGED <<file, latch, robbed>>
      BY <1>12, <2>1, <1>t DEF Store!WriteFails
    <3>2. new \in Op
      BY <1>t, MovedIsAnOp DEF Steps
    <3> HIDE DEF new
    <3> QED
      BY <3>1, <3>2, <2>1, <1>t, OneProcess DEF Held
  <2>2. CASE op[p].at # "write"
    BY <1>12, <2>2, <1>t, OneProcess, IdleIsAnOp DEF Store!WriteFails, Held
  <2> QED
    BY <2>1, <2>2
<1>13. CASE Store!Crash(p)
  BY <1>13, <1>t, OneProcess, IdleIsAnOp DEF Store!Crash, Held
<1> QED
  BY <1>1, <1>2, <1>3, <1>4, <1>5, <1>6, <1>7, <1>8, <1>9, <1>10, <1>11, <1>12, <1>13
  DEF Store!Append

LEMMA StoreNext == StoreInv /\ [Store!Next]_storeVars => StoreInv'
<1> SUFFICES ASSUME StoreInv, [Store!Next]_storeVars PROVE StoreInv'
  OBVIOUS
<1>1. CASE UNCHANGED storeVars
  BY <1>1 DEF storeVars, StoreInv
<1> QED
  BY <1>1, StoreStep DEF Store!Next, Store!Processes

\* Appends of any number of processes are apart, whatever locks they find,
\* whichever fail and whichever die, until one removes another's lock.
THEOREM AppendsAreApart == PlansSpec => []AppendsExclude
<1>1. PlansInit => StoreInv
  BY StoreInit DEF PlansInit
<1>2. [PlansNext]_<<focus, vars, storeVars, haltVars>> => [Store!Next]_storeVars
  BY DEF PlansNext
<1>3. StoreInv => AppendsExclude
  BY DEF StoreInv, Held, AppendsExclude, Store!AppendsExclude
<1> QED
  BY <1>1, <1>2, <1>3, StoreNext, PTL DEF PlansSpec

\* Without rewrites the copy of the one that has the lock is the file, but for
\* what a failed read forgot, so that its write adds its own event and drops
\* no other.
LogInv ==
    /\ StoreInv
    /\ \A p \in Store!Processes : op[p].at \in {"lock", "read", "write", "written"} => op[p].event \in Events
    /\ acked \subseteq Events
    /\ robbed \/ /\ \A p \in Store!Processes : op[p].at = "write" => \A e \in acked \ forgotten : op[p].copy[e] = file[e]
                 /\ \A p \in Store!Processes : op[p].at = "written" => file[op[p].event] = "open"
                 /\ \A e \in acked \ forgotten : file[e] = "open"

LEMMA LogStep ==
  ASSUME LogInv, StoreInv', Store!OnlyAppends, [Store!Next]_storeVars
  PROVE  LogInv'
<1> USE DEF Store!At, Store!Goto, Store!Returns
<1>t. /\ op \in [Store!Processes -> Op] /\ file \in Store!Contents
      /\ robbed \in BOOLEAN /\ acked \subseteq Events
      /\ robbed \/ \A q \in Store!Processes : op[q].at \in Held => latch = q
  BY DEF LogInv, StoreInv
<1>o. \A p \in Store!Processes : op[p] \in Op
  BY <1>t
<1>i. Store!Idle.at = "idle"
  BY DEF Store!Idle
\* A step that leaves the file, and puts no process into the middle of a write.
<1>1. ASSUME NEW p \in Store!Processes, NEW new, op' = [op EXCEPT ![p] = new],
             new.at \notin {"write", "written"},
             new.at \in {"lock", "read"} => new.event \in Events,
             UNCHANGED <<file, acked>>, robbed => robbed', forgotten \subseteq forgotten'
      PROVE  LogInv'
  <2>1. \A q \in Store!Processes : op'[q] = IF q = p THEN new ELSE op[q]
    BY <1>1, <1>t
  <2> QED
    BY <1>1, <2>1 DEF LogInv
<1>2. ASSUME NEW p \in Store!Processes, NEW contents \in {file, Store!Nothing},
             Store!AppendReads(p, contents)
      PROVE  LogInv'
  <2>0. op[p].at = "read" /\ UNCHANGED <<file, acked, robbed>> /\ Store!Reads(contents)
    BY <1>2 DEF Store!AppendReads
  <2>f. /\ forgotten \subseteq forgotten'
        /\ \A e \in acked \ forgotten' : contents[e] = file[e]
    BY <1>t, <2>0 DEF Store!Reads, Store!Nothing, Store!Present
  <2>1. CASE op' = [op EXCEPT ![p].at = "write", ![p].copy = contents]
    <3>1. /\ \A q \in Store!Processes \ {p} : op'[q] = op[q]
          /\ op'[p].at = "write" /\ op'[p].copy = contents /\ op'[p].event = op[p].event
      BY <2>1, <1>t, <1>o DEF Op
    <3>2. op[p].event \in Events
      BY <2>0 DEF LogInv
    <3>3. \A q \in Store!Processes :
            /\ op'[q].at \in {"lock", "read", "write", "written"} => op'[q].event \in Events
            /\ robbed \/ (op'[q].at = "write" => \A e \in acked \ forgotten' : op'[q].copy[e] = file[e])
            /\ robbed \/ (op'[q].at = "written" => file[op'[q].event] = "open")
      BY <2>f, <3>1, <3>2 DEF LogInv
    <3> QED
      BY <2>0, <2>f, <3>3 DEF LogInv
  <2>2. CASE op' = [op EXCEPT ![p].at = "failed"]
    <3> DEFINE new == [op[p] EXCEPT !.at = "failed"]
    <3>1. op' = [op EXCEPT ![p] = new] /\ new.at = "failed"
      BY <2>2, <1>t, <1>o DEF Op
    <3> HIDE DEF new
    <3> QED
      BY <2>0, <2>f, <3>1, <1>1
  <2> QED
    BY <1>2, <2>1, <2>2 DEF Store!AppendReads
<1>3. ASSUME NEW p \in Store!Processes, Store!AppendWrites(p) PROVE LogInv'
  <2>1. /\ op[p].at = "write" /\ file' = [op[p].copy EXCEPT ![op[p].event] = "open"]
        /\ UNCHANGED <<latch, acked, robbed, forgotten>>
    BY <1>3 DEF Store!AppendWrites
  <2>2. op[p].event \in Events
    BY <2>1 DEF LogInv
  <2>3. /\ \A q \in Store!Processes \ {p} : op'[q] = op[q]
        /\ op'[p].at = "written" /\ op'[p].event = op[p].event
    BY <1>3, <1>t, <1>o DEF Store!AppendWrites, Op
  <2>4. \A q \in Store!Processes : op'[q].at \in {"lock", "read", "write", "written"} => op'[q].event \in Events
    BY <2>2, <2>3 DEF LogInv
  <2>5. CASE robbed
    BY <2>1, <2>4, <2>5 DEF LogInv
  <2>6. CASE ~robbed
    <3>1. op[p].copy \in Store!Contents /\ \A e \in acked \ forgotten : op[p].copy[e] = file[e]
      BY <1>o, <2>1, <2>6 DEF LogInv, Op
    <3>2. /\ file'[op[p].event] = "open"
          /\ \A e \in acked \ forgotten : file[e] = "open" => file'[e] = "open"
      BY <1>t, <2>1, <2>2, <3>1 DEF Store!Contents
    <3>3. \A q \in Store!Processes \ {p} : op[q].at \notin {"write", "written"}
      BY <1>t, <2>1, <2>6 DEF Held
    <3> QED
      BY <2>1, <2>3, <2>4, <3>2, <3>3 DEF LogInv
  <2> QED
    BY <2>5, <2>6
<1>4. ASSUME NEW p \in Store!Processes, Store!Unlock(p) PROVE LogInv'
  <2>1. /\ op[p].at = "written" /\ acked' = acked \cup {op[p].event} /\ UNCHANGED <<file, forgotten>>
        /\ op' = [op EXCEPT ![p] = Store!Idle] /\ (robbed => robbed')
    BY <1>4, <1>t DEF Store!Unlock, Store!Unlatched
  <2>2. op[p].event \in Events /\ (robbed \/ file[op[p].event] = "open")
    BY <2>1 DEF LogInv
  <2>3. \A q \in Store!Processes : op'[q] = IF q = p THEN Store!Idle ELSE op[q]
    BY <2>1, <1>t
  <2>4. robbed \/ \A q \in Store!Processes \ {p} : op[q].at \notin {"write", "written"}
    BY <1>t, <2>1 DEF Held
  <2> QED
    BY <1>i, <2>1, <2>2, <2>3, <2>4 DEF LogInv
<1>5. ASSUME NEW p \in Store!Processes, NEW e \in Events, Store!AppendBegins(p, e) PROVE LogInv'
  <2> DEFINE new == [op[p] EXCEPT !.at = "lock", !.event = e]
  <2>1. op' = [op EXCEPT ![p] = new] /\ UNCHANGED <<file, acked, robbed, forgotten>>
    BY <1>5, <1>t DEF Store!AppendBegins
  <2>2. new.at = "lock" /\ new.event = e
    BY <1>o DEF Op
  <2> HIDE DEF new
  <2> QED
    BY <2>1, <2>2, <1>1
<1>6. ASSUME NEW p \in Store!Processes, NEW step \in {"read", "failed", "caught", "rewrite"},
             NEW new, op' = [op EXCEPT ![p] = new], new.at = step, new.event = op[p].event,
             step = "read" => op[p].at = "lock", UNCHANGED <<file, acked, forgotten>>, robbed => robbed'
      PROVE  LogInv'
  <2>1. new.at \in {"lock", "read"} => new.event \in Events
    BY <1>6 DEF LogInv
  <2> QED
    BY <1>6, <2>1, <1>1
<1>7. ASSUME NEW p \in Store!Processes,
             \/ Store!LockTaken(p) \/ Store!UnlockFailed(p)
             \/ Store!WriteFails(p) /\ op[p].at = "write"
      PROVE  LogInv'
  <2> DEFINE new(s) == [op[p] EXCEPT !.at = s]
  <2>1. PICK s \in {"read", "failed", "caught"} :
           /\ op' = [op EXCEPT ![p] = new(s)] /\ (s = "read" => op[p].at = "lock")
           /\ UNCHANGED <<file, acked, forgotten>> /\ (robbed => robbed')
    BY <1>7, <1>t DEF Store!LockTaken, Store!UnlockFailed, Store!WriteFails, Store!Unlatched
  <2>2. new(s).at = s /\ new(s).event = op[p].event
    BY <1>o DEF Op
  <2> HIDE DEF new
  <2> QED
    BY <2>1, <2>2, <1>6
<1>8. ASSUME NEW p \in Store!Processes, Store!LockBusy(p) PROVE LogInv'
  <2>1. CASE op' = [op EXCEPT ![p].tries = @ + 1]
    <3> DEFINE new == [op[p] EXCEPT !.tries = @ + 1]
    <3>1. op' = [op EXCEPT ![p] = new] /\ UNCHANGED <<file, acked, robbed, forgotten>> /\ op[p].at = "lock"
      BY <1>8, <2>1, <1>t DEF Store!LockBusy
    <3>2. new.at = op[p].at /\ new.event = op[p].event
      BY <1>o DEF Op
    <3>3. op[p].event \in Events
      BY <3>1 DEF LogInv
    <3> HIDE DEF new
    <3> QED
      BY <3>1, <3>2, <3>3, <1>1
  <2>2. CASE op' = [op EXCEPT ![p] = Store!Idle]
    BY <1>8, <1>i, <2>2, <1>1 DEF Store!LockBusy
  <2> QED
    BY <1>8, <2>1, <2>2 DEF Store!LockBusy
<1>9. ASSUME NEW p \in Store!Processes,
             \/ Store!UnlockAgain(p) \/ Store!Crash(p)
             \/ Store!WriteFails(p) /\ op[p].at # "write"
      PROVE  LogInv'
  <2>1. /\ op' = [op EXCEPT ![p] = Store!Idle] /\ UNCHANGED <<file, acked, forgotten>>
        /\ (robbed => robbed')
    BY <1>9, <1>t DEF Store!UnlockAgain, Store!Crash, Store!WriteFails, Store!Unlatched
  <2> QED
    BY <2>1, <1>i, <1>1
<1>10. ASSUME NEW p \in Store!Processes, NEW e \in Events, NEW to, Store!Respond(p, e, to) PROVE LogInv'
  <2> DEFINE new == [Store!Idle EXCEPT !.at = "rewrite", !.event = e, !.copy = [file EXCEPT ![e] = to]]
  <2>1. op' = [op EXCEPT ![p] = new] /\ UNCHANGED <<file, acked, robbed, forgotten>>
    BY <1>10 DEF Store!Respond
  <2>2. new.at = "rewrite"
    BY DEF Store!Idle
  <2> HIDE DEF new
  <2> QED
    BY <2>1, <2>2, <1>1
<1>11. ASSUME NEW p \in Store!Processes, NEW contents, Store!Reconcile(p, contents) PROVE LogInv'
  <2> DEFINE new == [op[p] EXCEPT !.at = "rewrite", !.copy = Store!Reconciled(contents)]
  <2>1. /\ op' = [op EXCEPT ![p] = new] /\ UNCHANGED <<file, acked, robbed>>
        /\ forgotten \subseteq forgotten'
    BY <1>11, <1>t DEF Store!Reconcile, Store!Reads
  <2>2. new.at = "rewrite"
    BY <1>o DEF Op
  <2> HIDE DEF new
  <2> QED
    BY <2>1, <2>2, <1>1
<1>12. \A p \in Store!Processes : ~Store!Rewrite(p)
  BY DEF Store!OnlyAppends, Store!Rewrite
<1>13. CASE UNCHANGED storeVars
  BY <1>13 DEF storeVars, LogInv
<1> QED
  BY <1>2, <1>3, <1>4, <1>5, <1>7, <1>8, <1>9, <1>10, <1>11, <1>12, <1>13
     DEF Store!Next, Store!Append, Store!Processes

\* While nobody answers an event or reconciles, and until an append removes
\* another's lock, what was appended stays, but for the events that were in the
\* file when a read of it failed: these the reader writes over (store.js:111).
\* What `plans_block_lost` shows lost, a rewrite lost.
THEOREM AppendsLoseNothing == PlansSpec /\ []Store!OnlyAppends => []Store!AppendedIsThere
<1>1. PlansInit => LogInv
  <2>1. PlansInit => StoreInv
    BY StoreInit DEF PlansInit
  <2> QED
    BY <2>1 DEF PlansInit, LogInv, Store!Init, Store!Idle
<1>2. [PlansNext]_<<focus, vars, storeVars, haltVars>> => [Store!Next]_storeVars
  BY DEF PlansNext
<1>3. LogInv /\ Store!OnlyAppends /\ [Store!Next]_storeVars => LogInv'
  BY StoreNext, LogStep DEF LogInv
<1>4. LogInv => Store!AppendedIsThere
  BY DEF LogInv, Store!AppendedIsThere
<1> QED
  BY <1>1, <1>2, <1>3, <1>4, PTL DEF PlansSpec
=============================================================================
