--------------------------- MODULE GuestSessions ---------------------------
(***************************************************************************)
(* guest-agent/src/api/sessions.rs over sessions.rs and synaps/launcher.rs:*)
(* the session table of the guest agent.  A handler locks the table for    *)
(* one look-up or one change at a time and awaits in between, so a start   *)
(* inserts long after it checked, and a close removes long after it looked *)
(* up.  A process is killed when the last reference to it goes             *)
(* (kill_on_drop): a reference is the entry of the table or the clone a    *)
(* handler holds.                                                          *)
(*                                                                         *)
(* The checks on the request and on the principal, the directories, the    *)
(* groups and the context file are the step Prepared, which may refuse.    *)
(* Audit callbacks and the relay of usage change nothing here.             *)
(***************************************************************************)
EXTENDS Naturals, FiniteSets

CONSTANTS
    Sessions,
    Processes,   \* a bound on the processes launched
    Handlers,    \* requests under way at a time
    MaxControls, \* a bound on the send, cancel and close requests
    None

VARIABLES
    entry,     \* session -> the process of its entry, or None
    counted,   \* RuntimeState.active_sessions
    launched,  \* process -> the session it was launched for, or None
    alive,     \* the processes that run
    handler,   \* handler -> its operation, its session, where it is and the process it holds
    controls

sessionVars == <<entry, counted, launched, alive, handler, controls>>

Done == [op |-> "none", session |-> None, at |-> "idle", holds |-> None]

Init ==
    /\ entry = [s \in Sessions |-> None]
    /\ counted = 0
    /\ launched = [p \in Processes |-> None]
    /\ alive = {}
    /\ handler = [h \in Handlers |-> Done]
    /\ controls = 0

Ready(h, place) == handler[h].at = place
Moves(h, place) == handler' = [handler EXCEPT ![h].at = place]
Finishes(h) == handler' = [handler EXCEPT ![h] = Done]

\* What is still referenced keeps running.
Referenced == {entry[s] : s \in Sessions} \cup {handler[h].holds : h \in Handlers}
KillOnDrop(running) == running \cap Referenced'

-----------------------------------------------------------------------------
(* start *)

\* contains() and then everything up to the launch.
StartBegins(h, s) ==
    /\ Ready(h, "idle") /\ entry[s] = None
    /\ handler' = [handler EXCEPT ![h] = [op |-> "start", session |-> s, at |-> "prepare", holds |-> None]]
    /\ UNCHANGED <<entry, counted, launched, alive, controls>>

Prepared(h) ==
    /\ Ready(h, "prepare")
    /\ Moves(h, "launch") \/ Finishes(h)
    /\ UNCHANGED <<entry, counted, launched, alive, controls>>

Launch(h) ==
    /\ Ready(h, "launch")
    /\ \/ \E p \in Processes :
            /\ launched[p] = None
            /\ launched' = [launched EXCEPT ![p] = handler[h].session]
            /\ alive' = alive \cup {p}
            /\ handler' = [handler EXCEPT ![h].at = "insert", ![h].holds = p]
       \/ Finishes(h) /\ UNCHANGED <<launched, alive>>     \* SynapsLaunchFailed
    /\ UNCHANGED <<entry, counted, controls>>

\* insert() that counts whatever was there.
InsertCounts(h) ==
    /\ Ready(h, "insert")
    /\ entry' = [entry EXCEPT ![handler[h].session] = handler[h].holds]
    /\ counted' = counted + 1
    /\ Finishes(h)
    /\ alive' = KillOnDrop(alive)
    /\ UNCHANGED <<launched, controls>>

\* insert() counts a session that had no entry; the entry it replaces is dropped.
Insert(h) ==
    /\ Ready(h, "insert")
    /\ LET s == handler[h].session IN
       /\ entry' = [entry EXCEPT ![s] = handler[h].holds]
       /\ counted' = IF entry[s] = None THEN counted + 1 ELSE counted
    /\ Finishes(h)
    /\ alive' = KillOnDrop(alive)
    /\ UNCHANGED <<launched, controls>>

-----------------------------------------------------------------------------
(* send, cancel, close *)

LookUp(h, op, s) ==
    /\ Ready(h, "idle") /\ entry[s] # None /\ controls < MaxControls
    /\ controls' = controls + 1
    /\ handler' = [handler EXCEPT ![h] = [op |-> op, session |-> s, at |-> op, holds |-> entry[s]]]
    /\ UNCHANGED <<entry, counted, launched, alive>>

\* The line is written to the process, or the write fails: then it is dead.
Send(h) ==
    /\ Ready(h, "send")
    /\ Finishes(h) /\ UNCHANGED entry
    /\ alive' = KillOnDrop(alive)
    /\ UNCHANGED <<counted, launched, controls>>

\* cancel() kills the process; its entry stays.
Cancel(h) ==
    /\ Ready(h, "cancel")
    /\ Finishes(h) /\ UNCHANGED entry
    /\ alive' = KillOnDrop(alive \ {handler[h].holds})
    /\ UNCHANGED <<counted, launched, controls>>

\* close() kills at once, whatever the grace period asked for.
Close(h) ==
    /\ Ready(h, "close")
    /\ alive' = alive \ {handler[h].holds}
    /\ Moves(h, "remove")
    /\ UNCHANGED <<entry, counted, launched, controls>>

\* remove() takes out what the session has by now, and counts if that was something.
Remove(h) ==
    /\ Ready(h, "remove")
    /\ LET s == handler[h].session IN
       /\ entry' = [entry EXCEPT ![s] = None]
       /\ counted' = IF entry[s] # None /\ counted > 0 THEN counted - 1 ELSE counted
    /\ Finishes(h)
    /\ alive' = KillOnDrop(alive)
    /\ UNCHANGED <<launched, controls>>

\* The client hangs up and the handler is dropped where it waits.
HangUp(h) ==
    /\ handler[h].at \in {"prepare", "send", "cancel", "close"}
    /\ Finishes(h) /\ UNCHANGED entry
    /\ alive' = KillOnDrop(alive)
    /\ UNCHANGED <<counted, launched, controls>>

\* A process ends by itself.
Exit(p) ==
    /\ p \in alive
    /\ alive' = alive \ {p}
    /\ UNCHANGED <<entry, counted, launched, handler, controls>>

Next ==
    \/ \E h \in Handlers :
         \/ \E s \in Sessions :
              \/ StartBegins(h, s)
              \/ LookUp(h, "send", s) \/ LookUp(h, "cancel", s) \/ LookUp(h, "close", s)
         \/ Prepared(h) \/ Launch(h) \/ Insert(h)
         \/ Send(h) \/ Cancel(h) \/ Close(h) \/ Remove(h) \/ HangUp(h)
    \/ \E p \in Processes : Exit(p)

Spec == Init /\ [][Next]_sessionVars

-----------------------------------------------------------------------------

\* Whatever starts and closes of one session overlap, the number the heartbeat
\* reports is that of the entries, and a process that runs is the entry of the
\* session it was launched for or in the hands of a handler of that session:
\* none is left behind by an entry that was replaced or removed.
SessionsAreCounted ==
    /\ counted = Cardinality({s \in Sessions : entry[s] # None})
    /\ \A p \in alive :
         \/ entry[launched[p]] = p
         \/ \E h \in Handlers : handler[h].holds = p /\ handler[h].session = launched[p]

\* The "Duplicate session guard" (api/sessions.rs:103): a session has one process.
\* It may have two until the second start inserts.
OneProcess ==
    \A p, q \in alive : launched[p] = launched[q] => p = q
=============================================================================
