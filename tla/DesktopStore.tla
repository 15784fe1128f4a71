---------------------------- MODULE DesktopStore ----------------------------
(***************************************************************************)
(* guest-agent/src/desktop: the desktops of a virtual machine.  A desktop, *)
(* named by (user, instance), is a systemd unit started for a slot: a      *)
(* display and the port that goes with it.  What outlives the agent is in  *)
(* four places, written one after the other: the allocations file, the env *)
(* file of the desktop, its sidecar, and systemd itself.  The table that   *)
(* the heartbeat and the list endpoint read is in memory, and rebuilt from *)
(* the four when the agent starts, before it serves requests.              *)
(*                                                                         *)
(* start() holds alloc_lock from its first line to its last.  stop() takes *)
(* it when the unit has been stopped already.                              *)
(*                                                                         *)
(* The password goes the way of the port and is left out.                  *)
(***************************************************************************)
EXTENDS Naturals

CONSTANTS
    Desktops,
    Instanced,    \* the desktops of an instance: their unit is generated
    Requests,     \* requests under way at a time
    MaxSlots,     \* MAX_SESSIONS
    MaxRequests,  \* a bound on the requests of a behaviour
    MaxRestarts,  \* a bound on the restarts of the agent
    StatusFails,  \* TRUE when asking systemd may fail
    None

VARIABLES
    slots,     \* allocations.json: desktop -> slot, 0 when it has none
    envs,      \* desktop -> the slot in its env file, 0 when there is none
    sidecars,  \* the desktops with a session-metadata file
    units,     \* systemd: desktop -> the slot its unit was started for, 0 when inactive
    listed,    \* DesktopStore.sessions: desktop -> the slot of its entry, 0 when it has none
    recorded,  \* the desktops whose entry a start of this process wrote
    lock,      \* the request that holds alloc_lock, or None
    request,   \* request -> its operation, its desktop, where it is and what it read
    todo,      \* the desktops rehydrate has yet to look at
    requests, restarts

desktopVars == <<slots, envs, sidecars, units, listed, recorded, lock, request, todo, requests, restarts>>

disk == <<slots, envs, sidecars>>
table == <<listed, recorded>>
bounds == <<requests, restarts>>

Slot == 0..MaxSlots
Idle == [op |-> "none", desktop |-> None, at |-> "idle", seen |-> None, slot |-> 0]

Init ==
    /\ slots = [d \in Desktops |-> 0]
    /\ envs = [d \in Desktops |-> 0]
    /\ sidecars = {}
    /\ units = [d \in Desktops |-> 0]
    /\ listed = [d \in Desktops |-> 0]
    /\ recorded = {}
    /\ lock = None
    /\ request = [r \in Requests |-> Idle]
    /\ todo = {}
    /\ requests = 0 /\ restarts = 0

At(r, place) == request[r].at = place
Goes(r, place) == request' = [request EXCEPT ![r].at = place]
Returns(r) == request' = [request EXCEPT ![r] = Idle]

\* The handlers run once rehydrate has returned.
Begin(r, op, d, place) ==
    /\ At(r, "idle") /\ todo = {} /\ requests < MaxRequests
    /\ requests' = requests + 1
    /\ request' = [request EXCEPT ![r] = [op |-> op, desktop |-> d, at |-> place, seen |-> None, slot |-> 0]]
    /\ UNCHANGED <<disk, units, table, lock, todo, restarts>>

\* start() without alloc_lock: two calls read the file before either writes it.
TakeLockUnlocked(r) ==
    /\ At(r, "lock")
    /\ lock' = r
    /\ Goes(r, IF request[r].op = "start" THEN "load" ELSE "release")
    /\ UNCHANGED <<disk, units, table, todo, bounds>>

TakeLock(r) ==
    /\ At(r, "lock") /\ lock = None
    /\ lock' = r
    /\ Goes(r, IF request[r].op = "start" THEN "load" ELSE "release")
    /\ UNCHANGED <<disk, units, table, todo, bounds>>

-----------------------------------------------------------------------------
(* start *)

StartBegins(r) == \E d \in Desktops : Begin(r, "start", d, "lock")

Taken(s) == {s[d] : d \in Desktops}
Free(s) == {n \in 1..MaxSlots : n \notin Taken(s)}

\* allocate() reads the file.  A desktop with a slot keeps it.
Load(r) ==
    /\ At(r, "load")
    /\ LET mine == slots[request[r].desktop] IN
       IF mine # 0
       THEN /\ request' = [request EXCEPT ![r].at = "env", ![r].slot = mine]
            /\ UNCHANGED lock
       ELSE IF Free(slots) # {}
       THEN /\ request' = [request EXCEPT ![r].at = "save", ![r].seen = slots]
            /\ UNCHANGED lock
       ELSE Returns(r) /\ lock' = None
    /\ UNCHANGED <<disk, units, table, todo, bounds>>

\* ... and writes back what it read with one slot more.
Save(r) ==
    /\ At(r, "save")
    /\ \E n \in Free(request[r].seen) :
       /\ \A m \in Free(request[r].seen) : n <= m
       /\ slots' = [request[r].seen EXCEPT ![request[r].desktop] = n]
       /\ request' = [request EXCEPT ![r].at = "env", ![r].seen = None, ![r].slot = n]
    /\ UNCHANGED <<envs, sidecars, units, table, lock, todo, bounds>>

WriteEnv(r) ==
    /\ At(r, "env")
    /\ \/ /\ envs' = [envs EXCEPT ![request[r].desktop] = request[r].slot]
          /\ Goes(r, "unit") /\ UNCHANGED lock
       \/ /\ envs' = [envs EXCEPT ![request[r].desktop] = 0]    \* truncated, not written
          /\ Returns(r) /\ lock' = None
    /\ UNCHANGED <<slots, sidecars, units, table, todo, bounds>>

\* systemctl start does nothing to a unit that is active.
StartUnit(r) ==
    /\ At(r, "unit")
    /\ units' = [units EXCEPT ![request[r].desktop] = IF @ = 0 THEN request[r].slot ELSE @]
    /\ Goes(r, "record")
    /\ UNCHANGED <<disk, table, lock, todo, bounds>>

\* The password is applied and the port awaited, for up to 25 seconds; neither
\* failing stops the start.
Record(r) ==
    /\ At(r, "record")
    /\ listed' = [listed EXCEPT ![request[r].desktop] = request[r].slot]
    /\ recorded' = recorded \cup {request[r].desktop}
    /\ Goes(r, "sidecar")
    /\ UNCHANGED <<disk, units, lock, todo, bounds>>

WriteSidecar(r) ==
    /\ At(r, "sidecar")
    /\ \/ sidecars' = sidecars \cup {request[r].desktop}
       \/ UNCHANGED sidecars          \* the write fails: a warning
    /\ Returns(r) /\ lock' = None
    /\ UNCHANGED <<slots, envs, units, table, todo, bounds>>

-----------------------------------------------------------------------------
(* stop *)

StopBegins(r) == \E d \in Desktops : Begin(r, "stop", d, "stopUnit")

StopUnit(r) ==
    /\ At(r, "stopUnit")
    /\ units' = [units EXCEPT ![request[r].desktop] = 0]
    /\ Goes(r, "lock")
    /\ UNCHANGED <<disk, table, lock, todo, bounds>>

\* release() reads and writes the file; the sidecar goes, the env file stays.
Release(r) ==
    /\ At(r, "release")
    /\ slots' = [slots EXCEPT ![request[r].desktop] = 0]
    /\ sidecars' = sidecars \ {request[r].desktop}
    /\ Goes(r, "forget")
    /\ UNCHANGED <<envs, units, table, lock, todo, bounds>>

Forget(r) ==
    /\ At(r, "forget")
    /\ listed' = [listed EXCEPT ![request[r].desktop] = 0]
    /\ recorded' = recorded \ {request[r].desktop}
    /\ Returns(r) /\ lock' = None
    /\ UNCHANGED <<disk, units, todo, bounds>>

\* A step fails and its call returns the error, or the client hangs up and the
\* handler is dropped where it waits; the guard drops the lock.
Fail(r) ==
    /\ request[r].at \in {"lock", "load", "save", "env", "unit", "record", "stopUnit", "release"}
    /\ Returns(r)
    /\ lock' = IF lock = r THEN None ELSE lock
    /\ UNCHANGED <<disk, units, table, todo, bounds>>

-----------------------------------------------------------------------------
(* The agent and the units *)

\* The agent dies with whatever is under way and starts again.  Units are left.
Restart ==
    /\ restarts < MaxRestarts
    /\ restarts' = restarts + 1
    /\ request' = [r \in Requests |-> Idle] /\ lock' = None
    /\ listed' = [d \in Desktops |-> 0] /\ recorded' = {}
    /\ todo' = {d \in Desktops : slots[d] # 0}
    /\ UNCHANGED <<disk, units, requests>>

\* rehydrate asks for the unit the sidecar names.  Without a sidecar that is
\* kasmvnc@<key>, which is not the unit of a desktop of an instance.
Active(d) == units[d] # 0 /\ (d \in sidecars \/ d \notin Instanced)

Rehydrate(d) ==
    /\ d \in todo
    /\ todo' = todo \ {d}
    /\ \E answer \in {Active(d)} \cup (IF StatusFails THEN {FALSE} ELSE {}) :
         IF answer
         THEN /\ listed' = [listed EXCEPT ![d] = envs[d]]    \* 0: no env file, it is skipped
              /\ UNCHANGED <<slots, sidecars>>
         ELSE /\ slots' = [slots EXCEPT ![d] = 0]
              /\ sidecars' = sidecars \ {d}
              /\ UNCHANGED listed
    /\ UNCHANGED <<envs, units, recorded, lock, request, bounds>>

UnitDies(d) ==
    /\ units[d] # 0
    /\ units' = [units EXCEPT ![d] = 0]
    /\ UNCHANGED <<disk, table, lock, request, todo, bounds>>

Next ==
    \/ \E r \in Requests :
         \/ StartBegins(r) \/ TakeLock(r) \/ Load(r) \/ Save(r) \/ WriteEnv(r) \/ StartUnit(r)
         \/ Record(r) \/ WriteSidecar(r)
         \/ StopBegins(r) \/ StopUnit(r) \/ Release(r) \/ Forget(r)
         \/ Fail(r)
    \/ Restart
    \/ \E d \in Desktops : Rehydrate(d) \/ UnitDies(d)

Spec == Init /\ [][Next]_desktopVars

-----------------------------------------------------------------------------

\* The call that holds the lock is taking the slot of d away.
Leaving(d) == \E r \in Requests : request[r].desktop = d /\ At(r, "forget")

\* A port that a start answered with stays the desktop's, in the file and in the
\* table, and no other start of this process answered with it, until a stop of the
\* desktop: whatever starts, stops and failures overlap (alloc_lock).
PortsAreKept ==
    \A d \in recorded :
        /\ ~Leaving(d) => slots[d] = listed[d]
        /\ \A e \in recorded \ {d} : listed[e] # listed[d]

\* "Each desktop session requires a unique X11 display number" (desktop/ports.rs:3).
\* Units may share one: stop() stops the unit outside the lock, a start that is under
\* way starts it again, and then stop() releases its slot.
UnitsApart ==
    \A d, e \in Desktops : d # e /\ units[d] # 0 => units[e] # units[d]

\* "Stale allocations (unit no longer active) are released" (desktop/kasmvnc.rs:1224).
\* So are those of the active unit of an instance that has no sidecar yet.
LiveKeepsSlot ==
    [][\A d \in todo : units[d] # 0 => slots'[d] = slots[d]]_desktopVars
=============================================================================
