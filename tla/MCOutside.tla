----------------------------- MODULE MCOutside ------------------------------
(***************************************************************************)
(* Parts that work on something kept outside the process, which others     *)
(* change too: the rows that say who a chat account is, containers and     *)
(* their rows, a secret, jobs, the plan file a page shows, the desktops and*)
(* processes of a virtual machine; and the order in which the daemon starts*)
(* and stops its parts. A behaviour follows one of them (focus).           *)
(***************************************************************************)
EXTENDS IdentityRouter, TLC

CONSTANTS
    Ensures, Stops, MaxRows,
    Uses, Ttl, MaxClock, MaxVersion,
    Tasks, Runs, MaxJobs,
    Plans, Unparsable, MaxEdits, MaxVisits, Loads, Streams, MaxStreams,
    Desktops, Instanced, Requests, MaxSlots, MaxRequests, MaxRestarts, StatusFails,
    Sessions, Processes, Handlers, MaxControls

ASSUME BoundsAssumption ==
    {MaxRows, Ttl, MaxClock, MaxVersion, MaxJobs, MaxEdits, MaxVisits, MaxStreams,
     MaxSlots, MaxRequests, MaxRestarts, MaxControls} \subseteq Nat \ {0}
ASSUME NoneAssumption ==
    None \notin Uses \cup Tasks \cup Runs \cup Plans \cup Streams
             \cup Desktops \cup Requests \cup Sessions \cup Processes
ASSUME DesktopAssumption == Instanced \subseteq Desktops /\ StatusFails \in BOOLEAN

Symmetry == Permutations(Externals) \cup Permutations(Prias)

VARIABLES
    focus,
    row, box, ensure, stop, overlapped, leaked,
    clock, secret, retired, kept, use,
    agenda, job, made, task, creating, removing, run, gone,
    part, wanted, building, stopping, process, causes, early,
    file, page, load, stream, others,
    slots, envs, sidecars, units, listed, recorded, lock, request, todo, requests, restarts,
    entry, counted, launched, alive, handler, controls

Workspace == INSTANCE Workspaces
Broker == INSTANCE CredBroker
Schedule == INSTANCE Scheduler
Daemon == INSTANCE BridgeDaemon
Page == INSTANCE PlanPage
Desktop == INSTANCE DesktopStore
Guest == INSTANCE GuestSessions

workspaceVars == <<row, box, ensure, stop, overlapped, leaked>>
credVars == <<clock, secret, retired, kept, use>>
schedulerVars == <<agenda, job, made, task, creating, removing, run, gone>>
daemonVars == <<part, wanted, building, stopping, process, causes, early>>
pageVars == <<file, page, load, stream, others>>
desktopVars == <<slots, envs, sidecars, units, listed, recorded, lock, request, todo, requests, restarts>>
sessionVars == <<entry, counted, launched, alive, handler, controls>>
guestVars == <<desktopVars, sessionVars>>
outsideVars == <<focus, vars, workspaceVars, credVars, schedulerVars, daemonVars, pageVars, guestVars>>

OutsideInit ==
    /\ focus \in {"identity", "workspaces", "credentials", "scheduler", "daemon", "page",
                 "desktops", "sessions"}
    /\ Init /\ (focus # "identity" => indexed)
    /\ Workspace!Init /\ Broker!Init /\ Schedule!Init
    /\ Daemon!Init /\ (focus # "daemon" => wanted = Daemon!Parts \ Daemon!Optional)
    /\ Page!Init /\ (focus # "page" => others = 0)
    /\ Desktop!Init /\ Guest!Init

OutsideNext ==
    \/ /\ focus = "identity" /\ Next
       /\ UNCHANGED <<focus, workspaceVars, credVars, schedulerVars, daemonVars, pageVars, guestVars>>
    \/ /\ focus = "workspaces" /\ Workspace!Next
       /\ UNCHANGED <<focus, vars, credVars, schedulerVars, daemonVars, pageVars, guestVars>>
    \/ /\ focus = "credentials" /\ Broker!Next
       /\ UNCHANGED <<focus, vars, workspaceVars, schedulerVars, daemonVars, pageVars, guestVars>>
    \/ /\ focus = "scheduler" /\ Schedule!Next
       /\ UNCHANGED <<focus, vars, workspaceVars, credVars, daemonVars, pageVars, guestVars>>
    \/ /\ focus = "daemon" /\ Daemon!Next
       /\ UNCHANGED <<focus, vars, workspaceVars, credVars, schedulerVars, pageVars, guestVars>>
    \/ /\ focus = "page" /\ Page!Next
       /\ UNCHANGED <<focus, vars, workspaceVars, credVars, schedulerVars, daemonVars, guestVars>>
    \/ /\ focus = "desktops" /\ Desktop!Next
       /\ UNCHANGED <<focus, vars, workspaceVars, credVars, schedulerVars, daemonVars, pageVars, sessionVars>>
    \/ /\ focus = "sessions" /\ Guest!Next
       /\ UNCHANGED <<focus, vars, workspaceVars, credVars, schedulerVars, daemonVars, pageVars, desktopVars>>

OutsideSpec == OutsideInit /\ [][OutsideNext]_outsideVars

SingleBox == Workspace!SingleBox
RetiredTokenUnused == Broker!RetiredTokenUnused
RemovedIsQuiet == Schedule!RemovedIsQuiet
UsersStopFirst == Daemon!UsersStopFirst
PageCatchesUp == Page!PageCatchesUp
PortsAreKept == Desktop!PortsAreKept
SessionsAreCounted == Guest!SessionsAreCounted
=============================================================================
