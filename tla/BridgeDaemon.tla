---- MODULE BridgeDaemon ----
(***************************************************************************)
(* bridge/index.js and bin/synaps-bridge.js: the daemon builds its parts   *)
(* in start, one after the other, and takes them down in stop.  A signal   *)
(* or an error nobody caught calls stop at any moment, during start too;   *)
(* a second one while stop is under way finds it already called and ends   *)
(* the process.                                                            *)
(*                                                                         *)
(* A part is "starting" while start waits for it, "up", or "down" once its *)
(* own stop has returned or thrown.                                        *)
(***************************************************************************)
EXTENDS Naturals, Sequences, SequencesExt

VARIABLES
    part,        \* [Parts -> its state]
    wanted,      \* the parts the configuration enables
    building,    \* how far start has come in BuildOrder
    stopping,    \* 0, or how far stop has come in StopOrder
    process,     \* "running", "exited", or "failed" when start threw
    causes,      \* calls of stop so far
    early        \* whether stop was called before start was through

daemonVars == <<part, wanted, building, stopping, process, causes, early>>

BuildOrder == <<"memory", "identity", "creds", "mongo", "supervisor", "mcp", "oauth", "http",
                "hooks", "router", "slack", "discord", "control", "scheduler", "metrics">>

\* Fault: the router is stopped before what hands it messages.
StopOrderRouterFirst == <<"metrics", "control", "router", "slack", "discord", "http", "mongo",
                          "memory", "supervisor", "scheduler", "hooks", "creds">>

StopOrder == <<"metrics", "control", "slack", "discord", "router", "http", "mongo", "memory",
               "supervisor", "scheduler", "hooks", "creds">>

Parts == ToSet(BuildOrder)
Optional == {"mongo", "supervisor", "mcp", "oauth", "http", "slack", "discord", "metrics"}
Done == Len(BuildOrder) + 1
MaxCauses == 2          \* bound: signals and errors

\* What each part is given when it is built and calls while it is up; http
\* calls what the MCP and OAuth servers it serves were given.
Needs(p) ==
    CASE p = "control" -> {"router", "identity", "creds", "hooks", "supervisor", "mongo"}
      [] p \in {"slack", "discord"} -> {"router", "memory", "identity"}
      [] p = "router" -> {"mongo", "memory", "creds"}
      [] p = "http" -> {"mongo", "supervisor", "router"}
      [] p \in {"supervisor", "scheduler", "hooks"} -> {"mongo"}
      [] OTHER -> {}

\* Of these the order of stop has it the other way: an MCP call after the
\* router's stop makes a session nobody stops, and the supervisor's last beat
\* finds no connection.
Outlived == {<<"http", "router">>, <<"supervisor", "mongo">>, <<"scheduler", "mongo">>, <<"hooks", "mongo">>}

Init ==
    /\ part = [p \in Parts |-> "absent"]
    /\ \E on \in SUBSET Optional :
          /\ on \cap {"http", "supervisor", "mcp"} # {} => "mongo" \in on
          /\ "oauth" \in on => "mcp" \in on
          /\ wanted = (Parts \ Optional) \cup on
    /\ building = 0
    /\ stopping = 0
    /\ process = "running"
    /\ causes = 0
    /\ early = FALSE

-----------------------------------------------------------------------------
(* start *)

Building(p) == process = "running" /\ building \in 1..Len(BuildOrder) /\ BuildOrder[building] = p

StartBegins ==
    /\ process = "running" /\ building = 0
    /\ building' = 1
    /\ UNCHANGED <<part, wanted, stopping, process, causes, early>>

\* The OAuth server is built only beside an MCP server that was.
Due(p) == p \in wanted /\ (p = "oauth" => part["mcp"] = "up")

\* A part the configuration leaves out.
Skip(p) ==
    /\ Building(p) /\ ~Due(p)
    /\ building' = building + 1
    /\ UNCHANGED <<part, wanted, stopping, process, causes, early>>

Begin(p) ==
    /\ Building(p) /\ Due(p)
    /\ part[p] = "absent"
    /\ part' = [part EXCEPT ![p] = "starting"]
    /\ UNCHANGED <<wanted, building, stopping, process, causes, early>>

\* One that stop took down while it was starting may come up all the same.
Finish(p) ==
    /\ Building(p)
    /\ part[p] # "absent"
    /\ \/ part' = [part EXCEPT ![p] = "up"]
       \/ part[p] # "starting" /\ UNCHANGED part
    /\ building' = building + 1
    /\ UNCHANGED <<wanted, stopping, process, causes, early>>

Starts(p) == Skip(p) \/ Begin(p) \/ Finish(p)

\* What throws there is logged, and the part is left out.
LeftOut(p) ==
    /\ Building(p) /\ part[p] = "starting"
    /\ part' = [part EXCEPT ![p] = "absent"]
    /\ building' = building + 1
    /\ UNCHANGED <<wanted, stopping, process, causes, early>>

BuildMemory == Starts("memory")
BuildIdentity == Starts("identity")
BuildCreds == Starts("creds")
ConnectMongo == Starts("mongo")
BuildSupervisor == Starts("supervisor")
BuildMcp == Starts("mcp") \/ LeftOut("mcp")
BuildOAuth == Starts("oauth") \/ LeftOut("oauth")
StartHttp == Starts("http")
BuildHooks == Starts("hooks")
StartRouter == Starts("router")
StartSlack == Starts("slack")
StartDiscord == Starts("discord")
StartControl == Starts("control")
BuildScheduler == Starts("scheduler")
StartMetrics == Starts("metrics")

\* A part that throws ends start, and the process, without stop.
StartThrows ==
    /\ process = "running"
    /\ \E p \in Parts \ {"mcp", "oauth"} : part[p] = "starting" /\ Building(p)
    /\ process' = "failed"
    /\ UNCHANGED <<part, wanted, building, stopping, causes, early>>

-----------------------------------------------------------------------------
(* stop *)

\* gracefulShutdown, uncaughtException and unhandledRejection.
Cause ==
    /\ process = "running"
    /\ causes < MaxCauses
    /\ causes' = causes + 1
    /\ IF stopping = 0
       THEN stopping' = 1 /\ early' = (building # Done) /\ UNCHANGED process
       ELSE process' = "exited" /\ UNCHANGED <<stopping, early>>
    /\ UNCHANGED <<part, wanted, building>>

\* The daemon's field is set after the part has been built.
SetWhenBuilt == {"identity", "mongo", "supervisor", "hooks", "scheduler", "metrics"}
Known(p) == part[p] = "up" \/ (part[p] = "starting" /\ p \notin SetWhenBuilt)

\* A part start has not come to is passed over; what a stop throws is logged.
StopPart ==
    LET p == StopOrder[stopping] IN
    /\ process = "running"
    /\ stopping \in 1..Len(StopOrder)
    /\ stopping' = stopping + 1
    /\ part' = IF Known(p) THEN [part EXCEPT ![p] = "down"] ELSE part
    /\ UNCHANGED <<wanted, building, process, causes, early>>

StopEnds ==
    /\ process = "running"
    /\ stopping > Len(StopOrder)
    /\ process' = "exited"
    /\ UNCHANGED <<part, wanted, building, stopping, causes, early>>

Next ==
    \/ StartBegins
    \/ BuildMemory \/ BuildIdentity \/ BuildCreds \/ ConnectMongo \/ BuildSupervisor
    \/ BuildMcp \/ BuildOAuth \/ StartHttp \/ BuildHooks \/ StartRouter \/ StartSlack \/ StartDiscord
    \/ StartControl \/ BuildScheduler \/ StartMetrics
    \/ StartThrows
    \/ Cause \/ StopPart \/ StopEnds

-----------------------------------------------------------------------------

\* In a stop that start was through before, a part goes down only after the parts
\* that use it, but for the four pairs of Outlived.
UsersStopFirst ==
    ~early => \A p \in Parts : \A q \in Needs(p) :
                  <<p, q>> \notin Outlived /\ part[q] = "down" => part[p] # "up"

\* What the comment of stop says, "Tear down all subsystems in reverse order"
\* (bridge/index.js:1143): of two parts that are up, the later built goes first.
\* What Outlived names goes the other way.
ReverseOrder ==
    ~early => \A i, j \in 1..Len(BuildOrder) :
                  i < j /\ part[BuildOrder[i]] = "down" => part[BuildOrder[j]] # "up"
====
