---- MODULE PlansServer ----
(***************************************************************************)
(* engineering-plugin/lib/server_lifecycle.js: independent processes       *)
(* agree on a single HTTP server per repository through two files, the     *)
(* record .plans/.server.json and the lock .plans/.server.lock.            *)
(*                                                                         *)
(* A process has at most one ensureServer in flight.  Each action runs     *)
(* from one await, or one system call another process can come between, to *)
(* the next (the probe of a missing record has no await; letting the       *)
(* process itself come between adds nothing another one could not do).     *)
(* Tokens identify servers and are never reused.  A process that dies      *)
(* stays dead: what comes after it has another process id and is another   *)
(* member of Procs.                                                        *)
(***************************************************************************)
EXTENDS Naturals, FiniteSets

CONSTANTS
    Procs,      \* processes that work on the repository
    Stoppers,   \* those that call stopServer or reapStale
    MaxServers, \* bound: how many servers a run can start
    MaxSlow,    \* bound: how many probes of a live server time out
    PromptHolders, \* a live holder lets go of the lock before anyone's timeout
    None

Servers == 1..MaxServers   \* the token of each server, in the order they start

ASSUME StoppersAssumption == Stoppers \subseteq Procs
ASSUME MaxServersAssumption == MaxServers \in Nat \ {0}
ASSUME MaxSlowAssumption == MaxSlow \in Nat
ASSUME PromptHoldersAssumption == PromptHolders \in BOOLEAN
ASSUME NoneAssumption == None \notin Procs \cup Servers /\ None # "left" /\ "left" \notin Procs

VARIABLES
    alive,     \* [Procs -> BOOLEAN]
    cleanup,   \* processes that registered their exit handlers
    hosted,    \* the HOSTED map of each process
    server,    \* [Servers -> state]
    host,      \* [Servers -> the process that runs it]
    record,    \* the server that .server.json names, or None
    lock,      \* the process that created .server.lock, "left" if that was
               \* before this run, or None
    old,       \* that file is older than lockStaleMs
    call,      \* ensureServer of each process
    stop,      \* stopServer or reapStale of each process
    slow,      \* how many probes of a live server timed out
    strays,    \* history: servers given up while they listened (GivenUp)
    lockless   \* history: a process that starts a server lost the lock, or
               \* never had it

vars == <<alive, cleanup, hosted, server, host, record, lock, old, call, stop, slow,
          strays, lockless>>
files == <<record, lock, old>>
processes == <<alive, cleanup, hosted>>
servers == <<server, host>>

CallSteps == {"idle", "fast", "lock", "wait", "reused", "unlink", "locked",
              "recheck", "hosting", "publish", "release"}
CallRecord == [pc : CallSteps, saw : Servers \cup {None}, srv : Servers \cup {None},
               late : BOOLEAN]
StopRecord == [pc : {"idle", "close", "stop", "reap"}, saw : Servers \cup {None}]
IdleCall == [pc |-> "idle", saw |-> None, srv |-> None, late |-> FALSE]
IdleStop == [pc |-> "idle", saw |-> None]

\* A run begins with no server, but perhaps with the record or the lock that
\* an earlier process left behind.
Init ==
    /\ alive = [p \in Procs |-> TRUE]
    /\ cleanup = {}
    /\ hosted = [p \in Procs |-> None]
    /\ host = [s \in Servers |-> None]
    /\ record \in {1, None}
    /\ server = [s \in Servers |-> IF s = record THEN "down" ELSE "unused"]
    /\ lock \in {"left", None}
    /\ old = FALSE
    /\ call = [p \in Procs |-> IdleCall]
    /\ stop = [p \in Procs |-> IdleStop]
    /\ slow = 0
    /\ strays = {}
    /\ lockless = FALSE

Live(s) == s # None /\ server[s] = "listening"

At(p, pc) == alive[p] /\ call[p].pc = pc
Goto(p, pc) == call' = [call EXCEPT ![p].pc = pc, ![p].saw = None]
Return(p) == call' = [call EXCEPT ![p] = IdleCall]
ReadRecord(p, pc) == call' = [call EXCEPT ![p].pc = pc, ![p].saw = record]

\* verifyLive answers FALSE for a server that is gone, and also for one that
\* takes longer than healthTimeoutMs to answer, which happens MaxSlow times.
TimesOut(s) == Live(s) /\ slow < MaxSlow /\ slow' = slow + 1

Probe(s, ok) ==
    \/ ok = Live(s) /\ UNCHANGED slow
    \/ ok = FALSE /\ TimesOut(s)

\* A server that may listen on, and that nobody is going to find again: its
\* record cannot be written, or is removed because a probe of it timed out
\* under the lock, or by a stop, a reaping or a process that ends.
GivenUp(s) == strays' = IF Live(s) THEN strays \cup {s} ELSE strays

-----------------------------------------------------------------------------
(* ensureServer *)

Unused == {s \in Servers : server[s] = "unused"}
InFlight == {p \in Procs : call[p].pc # "idle" /\ call[p].srv = None}

\* ensureServer: bounded by the tokens left, so that every call can host.
EnsureBegin(p) ==
    /\ At(p, "idle")
    /\ Cardinality(InFlight) < Cardinality(Unused)
    /\ ReadRecord(p, "fast")
    /\ UNCHANGED <<processes, servers, files, stop, slow, strays>>

\* The fast path: a live record is reused, without the lock.
FastPath(p, ok) ==
    /\ At(p, "fast")
    /\ Probe(call[p].saw, ok)
    /\ IF ok THEN Return(p) ELSE Goto(p, "lock")
    /\ UNCHANGED <<processes, servers, files, stop, strays>>

\* acquireLock: openSync(lp, "wx").
TakeLock(p) ==
    /\ At(p, "lock")
    /\ lock = None
    /\ lock' = p
    /\ old' = FALSE
    /\ call' = [call EXCEPT ![p].pc = "locked", ![p].saw = None, ![p].late = FALSE]
    /\ UNCHANGED <<processes, servers, record, stop, slow, strays>>

\* acquireLock: the directory or the lock file cannot be made.
LockFails(p) ==
    /\ At(p, "lock")
    /\ Return(p)
    /\ UNCHANGED <<processes, servers, files, stop, slow, strays>>

\* acquireLock: EEXIST, so read the record to see whether to wait at all.
LockBusy(p) ==
    /\ At(p, "lock")
    /\ lock # None
    /\ ReadRecord(p, "wait")
    /\ UNCHANGED <<processes, servers, files, stop, slow, strays>>

\* acquireLock: a live server is reused, and its record read once more.
WaitReuse(p) ==
    /\ At(p, "wait")
    /\ Probe(call[p].saw, TRUE)
    /\ call' = [call EXCEPT ![p].pc = "reused", ![p].saw = record, ![p].late = FALSE]
    /\ UNCHANGED <<processes, servers, files, stop, strays>>

\* acquireLock: no live server, and neither the lock nor the wait is too old.
WaitRetry(p) ==
    /\ At(p, "wait")
    /\ Probe(call[p].saw, FALSE)
    /\ lock # None /\ ~ old /\ ~ call[p].late
    /\ Goto(p, "lock")
    /\ UNCHANGED <<processes, servers, files, stop, strays>>

\* acquireLock: no live server and a lock that counts as stale: its file is
\* gone (age stays Infinity), it is too old, or the waiter's deadline passed.
WaitBreak(p) ==
    /\ At(p, "wait")
    /\ Probe(call[p].saw, FALSE)
    /\ lock = None \/ old \/ call[p].late
    /\ Goto(p, "unlink")
    /\ UNCHANGED <<processes, servers, files, stop, strays>>

\* Fault: the stale lock is never unlinked.
UnlinkNothing(p) ==
    /\ At(p, "unlink")
    /\ Goto(p, "lock")
    /\ UNCHANGED <<processes, servers, files, stop, slow, strays>>

\* acquireLock: unlinkSync(lp), whichever lock it is by now.
Unlink(p) ==
    /\ At(p, "unlink")
    /\ lock' = None
    /\ old' = FALSE
    /\ Goto(p, "lock")
    /\ UNCHANGED <<processes, servers, record, stop, slow, strays>>

\* ensureServer: the record of a server that was live while waiting; when it
\* no longer is, the call goes on to host without the lock.
Reuse(p, ok) ==
    /\ At(p, "reused")
    /\ Probe(call[p].saw, ok)
    /\ IF ok THEN Return(p) ELSE Goto(p, "locked")
    /\ UNCHANGED <<processes, servers, files, stop, strays>>

\* ensureServer: the double check, under the lock.
Recheck(p) ==
    /\ At(p, "locked")
    /\ ReadRecord(p, "recheck")
    /\ UNCHANGED <<processes, servers, files, stop, slow, strays>>

RecheckLive(p) ==
    /\ At(p, "recheck")
    /\ Probe(call[p].saw, TRUE)
    /\ Goto(p, "release")
    /\ UNCHANGED <<processes, servers, files, stop, strays>>

\* Fault: no double check under the lock.
HostUnchecked(p, s) ==
    /\ At(p, "recheck")
    /\ s \in Unused /\ \A t \in Unused : s <= t
    /\ record' = None
    /\ server' = [server EXCEPT ![s] = "starting"]
    /\ host' = [host EXCEPT ![s] = p]
    /\ call' = [call EXCEPT ![p].pc = "hosting", ![p].saw = None, ![p].srv = s]
    /\ UNCHANGED <<processes, lock, old, stop, slow, strays>>

\* removeRecord and hostServer, up to the listen call.
Host(p, s) ==
    /\ At(p, "recheck")
    /\ Probe(call[p].saw, FALSE) /\ GivenUp(call[p].saw)
    /\ s \in Unused /\ \A t \in Unused : s <= t
    /\ record' = None
    /\ server' = [server EXCEPT ![s] = "starting"]
    /\ host' = [host EXCEPT ![s] = p]
    /\ call' = [call EXCEPT ![p].pc = "hosting", ![p].saw = None, ![p].srv = s]
    /\ UNCHANGED <<processes, lock, old, stop>>

\* The server cannot be created.
HostFails(p) ==
    /\ At(p, "hosting")
    /\ server' = [server EXCEPT ![call[p].srv] = "down"]
    /\ Goto(p, "release")
    /\ UNCHANGED <<processes, host, files, stop, slow, strays>>

Listening(p) ==
    /\ At(p, "hosting")
    /\ server' = [server EXCEPT ![call[p].srv] = "listening"]
    /\ Goto(p, "publish")
    /\ UNCHANGED <<processes, host, files, stop, slow, strays>>

\* writeRecord, HOSTED.set and registerProcessCleanup.
Publish(p) ==
    /\ At(p, "publish")
    /\ record' = call[p].srv
    /\ hosted' = [hosted EXCEPT ![p] = call[p].srv]
    /\ cleanup' = cleanup \cup {p}
    /\ Goto(p, "release")
    /\ UNCHANGED <<alive, servers, lock, old, stop, slow, strays>>

\* writeRecord throws: the server listens, in no record and not in HOSTED, and
\* the caller gets the error.
PublishFails(p) ==
    /\ At(p, "publish")
    /\ GivenUp(call[p].srv)
    /\ Goto(p, "release")
    /\ UNCHANGED <<processes, servers, files, stop, slow>>

\* releaseLock: it unlinks the lock file without asking whose it is.
Release(p) ==
    /\ At(p, "release")
    /\ lock' = None
    /\ old' = FALSE
    /\ Return(p)
    /\ UNCHANGED <<processes, servers, record, stop, slow, strays>>

-----------------------------------------------------------------------------
(* stopServer and reapStale: bounded to one of them in flight. *)

NoStop == \A p \in Procs : stop[p] = IdleStop

\* stopServer of a process that hosts: the server stops listening at once.
StopOwn(p) ==
    /\ p \in Stoppers /\ alive[p] /\ NoStop /\ hosted[p] # None
    /\ server' = [server EXCEPT ![hosted[p]] = "down"]
    /\ stop' = [stop EXCEPT ![p].pc = "close"]
    /\ UNCHANGED <<processes, host, files, call, slow, strays>>

\* stopServer: when the last connection has ended, the record is removed.
StopClosed(p) ==
    /\ alive[p] /\ stop[p].pc = "close"
    /\ hosted' = [hosted EXCEPT ![p] = None]
    /\ record' = None /\ GivenUp(record)
    /\ stop' = [stop EXCEPT ![p] = IdleStop]
    /\ UNCHANGED <<alive, cleanup, servers, lock, old, call, slow>>

\* stopServer of a process that does not host, and reapStale of any.
StopOther(p, pc) ==
    /\ p \in Stoppers /\ alive[p] /\ NoStop
    /\ pc = "stop" => hosted[p] = None
    /\ pc = "reap" => record # None
    /\ stop' = [stop EXCEPT ![p] = [pc |-> pc, saw |-> record]]
    /\ UNCHANGED <<processes, servers, files, call, slow, strays>>

\* stopServer removes the record whether or not the server it named is live
\* (and signals a live one, see Terminate); reapStale removes it when not.
StopRemove(p, ok) ==
    /\ alive[p] /\ stop[p].pc \in {"stop", "reap"}
    /\ Probe(stop[p].saw, ok)
    /\ IF ok /\ stop[p].pc = "reap" THEN UNCHANGED <<record, strays>>
       ELSE record' = None /\ GivenUp(record)
    /\ stop' = [stop EXCEPT ![p] = IdleStop]
    /\ UNCHANGED <<processes, servers, lock, old, call>>

-----------------------------------------------------------------------------
(* Processes come and go; clocks run *)

Die(p, wipe) ==
    /\ alive[p]
    /\ alive' = [alive EXCEPT ![p] = FALSE]
    /\ cleanup' = cleanup \ {p}
    /\ hosted' = [hosted EXCEPT ![p] = None]
    /\ server' = [s \in Servers |-> IF host[s] = p THEN "down" ELSE server[s]]
    /\ record' = IF wipe THEN None ELSE record
    /\ call' = [call EXCEPT ![p] = IdleCall]
    /\ stop' = [stop EXCEPT ![p] = IdleStop]
    /\ IF wipe THEN GivenUp(record) ELSE UNCHANGED strays
    /\ UNCHANGED <<host, lock, old, slow>>

Crash(p) == Die(p, FALSE)

\* The "exit" handler removes the record if the process hosts.
Exit(p) == Die(p, hosted[p] # None)

\* SIGTERM, from the parent or from another process's stopServer: a process
\* that ever hosted removes the record, whoever it names.
Terminate(p) == Die(p, p \in cleanup)

InCrit(p) == call[p].pc \in {"locked", "recheck", "hosting", "publish", "release"}
Starting(p) == call[p].pc \in {"hosting", "publish"}

HeldByTheLiving == \E p \in Procs : lock = p /\ alive[p] /\ InCrit(p)

\* acquireLock: the waiter has been at it for lockTimeoutMs.
DeadlinePasses(p) ==
    /\ alive[p] /\ call[p].pc \in {"lock", "wait"} /\ ~ call[p].late
    /\ PromptHolders => lock # None /\ ~ HeldByTheLiving
    /\ call' = [call EXCEPT ![p].late = TRUE]
    /\ UNCHANGED <<processes, servers, files, stop, slow, strays>>

\* The lock file has been there for lockStaleMs.
LockAges ==
    /\ lock # None /\ ~ old
    /\ PromptHolders => ~ HeldByTheLiving
    /\ old' = TRUE
    /\ UNCHANGED <<processes, servers, record, lock, call, stop, slow, strays>>

EnsureStep(p) ==
    /\ call[p].pc # "idle"
    /\ \/ \E ok \in BOOLEAN : FastPath(p, ok) \/ Reuse(p, ok)
       \/ TakeLock(p) \/ LockFails(p) \/ LockBusy(p)
       \/ WaitReuse(p) \/ WaitRetry(p) \/ WaitBreak(p) \/ Unlink(p)
       \/ Recheck(p) \/ RecheckLive(p)
       \/ (\E s \in Servers : Host(p, s)) \/ HostFails(p)
       \/ Listening(p) \/ Publish(p) \/ PublishFails(p) \/ Release(p)

StopStep(p) ==
    \/ StopOwn(p) \/ StopClosed(p)
    \/ \E pc \in {"stop", "reap"} : StopOther(p, pc)
    \/ \E ok \in BOOLEAN : StopRemove(p, ok)

Watch == lockless' = (lockless \/ \E p \in Procs : Starting(p)' /\ lock' # p)

Step ==
    \/ \E p \in Procs :
         \/ EnsureBegin(p) \/ EnsureStep(p) \/ StopStep(p)
         \/ Crash(p) \/ Exit(p) \/ Terminate(p)
         \/ DeadlinePasses(p)
    \/ LockAges

Next == Step /\ Watch

\* Node runs what is ready, so a call in flight goes on; the clock goes on.
Fairness ==
    \A p \in Procs :
       WF_vars(EnsureStep(p) /\ Watch) /\ WF_vars(DeadlinePasses(p) /\ Watch)

Spec == Init /\ [][Next]_vars /\ Fairness
-----------------------------------------------------------------------------
TypeOK ==
    /\ alive \in [Procs -> BOOLEAN]
    /\ cleanup \in SUBSET Procs
    /\ hosted \in [Procs -> Servers \cup {None}]
    /\ server \in [Servers -> {"unused", "starting", "listening", "down"}]
    /\ host \in [Servers -> Procs \cup {None}]
    /\ record \in Servers \cup {None}
    /\ lock \in Procs \cup {"left", None}
    /\ old \in BOOLEAN
    /\ call \in [Procs -> CallRecord]
    /\ stop \in [Procs -> StopRecord]
    /\ slow \in 0..MaxSlow
    /\ strays \in SUBSET Servers
    /\ lockless \in BOOLEAN

\* server_lifecycle.js:2, "at-most-one-plans-server-per-repo coordination", as
\* far as it goes: whatever the processes that race find left behind, wherever
\* they die, fail, stop, reap or break a lock, at most one server listens of
\* those not given up, and the record names it once its host has written it;
\* until a process starts a server without having the lock (a waiter's deadline
\* or a stale age took it, or a reused server went away, server_lifecycle.js:211).
OneServer ==
    lockless \/
      LET found == {s \in Servers \ strays : Live(s)} IN
      /\ \A s, t \in found : s = t
      /\ \A s \in found :
           record = s \/ \E p \in Procs : At(p, "publish") /\ call[p].srv = s

\* acquireLock's timeouts: a call of ensureServer returns, whatever the holder
\* of the lock and the recorded server come to.
EnsureReturns ==
    \A p \in Procs : call[p].pc # "idle" ~> call[p].pc = "idle"
====
