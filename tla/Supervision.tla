---- MODULE Supervision ----
(***************************************************************************)
(* bridge/core: heartbeat-emitter.js, reaper.js and inbox-notifier.js over *)
(* db/repositories/heartbeat-repo.js.  Subjects (workspaces and agents)    *)
(* beat; the reaper's sweeps stop the ones whose beat has become stale and *)
(* drop the row.  A sweep does not wait for the one before it.  The        *)
(* daemon's own beat is the row of the emitter.                            *)
(*                                                                         *)
(* The handlers of the reaper (stopWorkspace, markReaped, rpcKiller) are   *)
(* given to its constructor; they, and the database, may fail.             *)
(***************************************************************************)
EXTENDS Naturals, FiniteSets

CONSTANTS
    WorkspaceIds,
    RpcIds,
    Handled,     \* subjects of a kind the reaper has a handler for
    Reliable,    \* subjects whose handler does not fail for ever
    Sweeps,      \* bound: sweeps under way at once
    None

Subjects == WorkspaceIds \cup RpcIds

VARIABLES
    beat,        \* [Subjects -> "none", "fresh" or "stale"]
    up,          \* subjects that run
    sweep,       \* [Sweeps -> the sweep's step, section, targets and target]
    reaper,      \* whether sweeps are scheduled
    emitter,     \* "idle", "running", "stopping", "stopped"
    own,         \* the daemon's row: "none", "up" or "down"
    inflight     \* beats of the daemon on their way to the database

supervisionVars == <<beat, up, sweep, reaper, emitter, own, inflight>>
daemonRow == <<emitter, own, inflight>>

Sections == <<WorkspaceIds, RpcIds, {}>>     \* workspaces, agents, the scp row
Idle == [pc |-> "idle", section |-> 1, todo |-> {}, at |-> None]

Init ==
    /\ beat = [s \in Subjects |-> "none"]
    /\ up = {}
    /\ sweep = [w \in Sweeps |-> Idle]
    /\ reaper = FALSE
    /\ emitter = "idle"
    /\ own = "none"
    /\ inflight = {}

-----------------------------------------------------------------------------
(* HeartbeatRepo.record, as subjects use it, and time *)

Beat(s) ==
    /\ s \in up \/ beat[s] = "none"
    /\ beat' = [beat EXCEPT ![s] = "fresh"]
    /\ up' = up \cup {s}
    /\ UNCHANGED <<sweep, reaper, daemonRow>>

\* The subject hangs or dies: it beats no more.
GoesSilent(s) ==
    /\ s \in up
    /\ up' = up \ {s}
    /\ UNCHANGED <<beat, sweep, reaper, daemonRow>>

Ages(s) ==
    /\ beat[s] = "fresh"
    /\ beat' = [beat EXCEPT ![s] = "stale"]
    /\ UNCHANGED <<up, sweep, reaper, daemonRow>>

-----------------------------------------------------------------------------
(* HeartbeatEmitter *)

\* start and the interval: nobody waits for the beat.
BeatNow ==
    /\ emitter' = "running" /\ emitter \in {"idle", "running"}
    /\ inflight' = inflight \cup {"up"}
    /\ UNCHANGED <<beat, up, sweep, reaper, own>>

EmitterStop ==
    /\ emitter = "running"
    /\ emitter' = "stopping"
    /\ inflight' = inflight \cup {"down"}
    /\ UNCHANGED <<beat, up, sweep, reaper, own>>

\* record: written, or failed and logged.  stop waits for its own beat, not
\* for the ones before it.
BeatLands(b) ==
    /\ b \in inflight
    /\ inflight' = inflight \ {b}
    /\ own' \in {own, b}
    /\ emitter' = IF b = "down" THEN "stopped" ELSE emitter
    /\ UNCHANGED <<beat, up, sweep, reaper>>

-----------------------------------------------------------------------------
(* Reaper *)

ReaperStart ==
    /\ ~reaper /\ emitter # "stopped"
    /\ reaper' = TRUE
    /\ UNCHANGED <<beat, up, sweep, daemonRow>>

\* A sweep under way goes on.
ReaperStop ==
    /\ reaper /\ emitter = "stopped"
    /\ reaper' = FALSE
    /\ UNCHANGED <<beat, up, sweep, daemonRow>>

SweepBegins(w) ==
    /\ reaper
    /\ sweep[w].pc = "idle"
    /\ sweep' = [sweep EXCEPT ![w].pc = "list"]
    /\ UNCHANGED <<beat, up, reaper, daemonRow>>

Stale(section) == {s \in Sections[section] : beat[s] = "stale"}

NextSection(w) ==
    sweep' = [sweep EXCEPT ![w] =
        IF @.section < 3 THEN [pc |-> "list", section |-> @.section + 1, todo |-> {}, at |-> None]
                         ELSE Idle]

\* findStale; without a handler the targets are only logged.
Lists(w) ==
    LET found == Stale(sweep[w].section) \cap Handled IN
    /\ sweep[w].pc = "list"
    /\ IF found # {} THEN sweep' = [sweep EXCEPT ![w].pc = "next", ![w].todo = found]
                     ELSE NextSection(w)
    /\ UNCHANGED <<beat, up, reaper, daemonRow>>

\* A read that fails skips the section.
ListFails(w) ==
    /\ sweep[w].pc = "list"
    /\ NextSection(w)
    /\ UNCHANGED <<beat, up, reaper, daemonRow>>

Takes(w) ==
    /\ sweep[w].pc = "next"
    /\ IF sweep[w].todo = {} THEN NextSection(w)
       ELSE \E s \in sweep[w].todo :
              sweep' = [sweep EXCEPT ![w].pc = "stop", ![w].at = s, ![w].todo = @ \ {s}]
    /\ UNCHANGED <<beat, up, reaper, daemonRow>>

\* stopWorkspace or rpcKiller.
Stops(w) ==
    /\ sweep[w].pc = "stop"
    /\ up' = up \ {sweep[w].at}
    /\ sweep' = [sweep EXCEPT ![w].pc = IF sweep[w].at \in WorkspaceIds THEN "mark" ELSE "remove"]
    /\ UNCHANGED <<beat, reaper, daemonRow>>

\* Fault: the first handler that fails ends the sweep.
AfterFailureEnds(w) == sweep' = [sweep EXCEPT ![w] = Idle]

\* A subject that could not be stopped keeps its row: the next one is taken.
AfterFailure(w) == sweep' = [sweep EXCEPT ![w].pc = "next", ![w].at = None]

StopFails(w) ==
    /\ sweep[w].pc = "stop"
    /\ AfterFailure(w)
    /\ UNCHANGED <<beat, up, reaper, daemonRow>>

\* markReaped: what it throws is recorded, and the row goes all the same.
Marks(w) ==
    /\ sweep[w].pc = "mark"
    /\ sweep' = [sweep EXCEPT ![w].pc = "remove"]
    /\ UNCHANGED <<beat, up, reaper, daemonRow>>

AfterRemove(w) ==
    sweep' = [sweep EXCEPT ![w].pc = IF sweep[w].at \in WorkspaceIds THEN "notify" ELSE "next"]

Removes(w) ==
    /\ sweep[w].pc = "remove"
    /\ beat' = [beat EXCEPT ![sweep[w].at] = "none"]
    /\ AfterRemove(w)
    /\ UNCHANGED <<up, reaper, daemonRow>>

RemoveFails(w) ==
    /\ sweep[w].pc = "remove"
    /\ AfterRemove(w)
    /\ UNCHANGED <<beat, up, reaper, daemonRow>>

\* notifyWorkspaceReaped makes the directory and writes the file, or gives up;
\* either way the sweep goes on.
Notifies(w) ==
    /\ sweep[w].pc = "notify"
    /\ sweep' = [sweep EXCEPT ![w].pc = "next", ![w].at = None]
    /\ UNCHANGED <<beat, up, reaper, daemonRow>>

Step(w) ==
    \/ Lists(w) \/ ListFails(w) \/ Takes(w) \/ Stops(w) \/ StopFails(w)
    \/ Marks(w) \/ Removes(w) \/ RemoveFails(w) \/ Notifies(w)

Next ==
    \/ \E s \in Subjects : Beat(s) \/ GoesSilent(s) \/ Ages(s)
    \/ BeatNow \/ EmitterStop \/ \E b \in {"up", "down"} : BeatLands(b)
    \/ ReaperStart \/ ReaperStop
    \/ \E w \in Sweeps : SweepBegins(w) \/ Step(w)

-----------------------------------------------------------------------------

\* Timers fire, calls return, and the handler of a reliable subject, the
\* listing and the removal of its row do not fail every time.
Fairness ==
    /\ \A w \in Sweeps : WF_supervisionVars(SweepBegins(w)) /\ WF_supervisionVars(Step(w))
    /\ \A s \in Reliable :
          /\ SF_supervisionVars(\E w \in Sweeps : Lists(w) /\ s \in Stale(sweep[w].section))
          /\ SF_supervisionVars(\E w \in Sweeps : sweep[w].at = s /\ Stops(w))
          /\ SF_supervisionVars(\E w \in Sweeps : sweep[w].at = s /\ Removes(w))

\* While sweeps are scheduled, a subject that has a handler which does not fail
\* for ever does not keep a stale row: whatever becomes of the other targets of
\* the sweeps, it is stopped and its row goes.
StaleIsReaped ==
    \A s \in Reliable \cap Handled : []<>(~reaper \/ beat[s] # "stale")
====
