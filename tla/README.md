# TLA+ models of synaps-skills

The repository is a set of plugins and services around the Synaps AI engine. This directory holds
TLA+ models of the parts whose correctness depends on what interleaves, fails or is lost, the TLC
configurations that check them on small instances, and TLAPS proofs of what holds for every instance.

The centre is the **synaps-bridge daemon** (`synaps-bridge-plugin/bridge`, Node.js): it connects chat
platforms to one `synaps rpc` child process per conversation and, in its SCP mode, adds identities,
workspaces, credentials, scheduled tasks, hooks and an MCP gateway on top of MongoDB. Beside it, the
**engineering plugin** keeps plans and their events in files, and shows them on at most one plans
server per repository, started by any number of processes.

Paths below are relative to the repository; `bridge/` stands for `src/synaps-bridge-plugin/bridge/`.

1. [Inventory](#1-inventory)
2. [Plan](#2-plan)
3. [The modules](#3-the-modules)
4. [The runs](#4-the-runs)
5. [Fairness](#5-fairness)
6. [Proofs](#6-proofs)
7. [Disagreements between code and documentation](#7-disagreements-between-code-and-documentation)
8. [What is not modelled](#8-what-is-not-modelled)

## 1. Inventory

| Component | State it keeps | Operations | Hard behaviours | What makes it correct |
|---|---|---|---|---|
| session-router (`bridge/core/session-router.js`) | live rpcs, creation promises, last activity | getOrCreateSession, crash restart, closeSession, idle reaper, start, stop | at every await, calls, restarts, exits and stop interleave | one creation per conversation, a conversation keeps its session, who is routed to is supervised |
| session-store (`bridge/core/session-store.js`) | sessions.json, a promise chain of writes | upsert, touch, remove, reads | read-modify-write of one file; failed steps; crashes | operations take effect atomically, in order, each once |
| synaps-rpc (`bridge/core/synaps-rpc.js`) | pending requests, timers, write queue, one child | start, requests, shutdown, stream handlers | late answers, exits with requests open, backpressure | requests settle once, frames keep their order |
| synaps-rpc-docker (`bridge/core/synaps-rpc-docker.js`) | the same over an exec stream in a container | the same; nothing can be killed | the stream ends before, during or after shutdown | requests settle once and in the end |
| streaming-proxy (`bridge/core/streaming-proxy.js`, `tool-progress.js`) | text buffer, chain of handlers, timer | start, nine events, stop | handlers await, the timer fires between, stop while events arrive | the reply is the child's text, whole and in order; stop returns |
| slack-source, discord-source (`bridge/sources`) | threads, gate counts, stream handles | a message from its event to the end of its reply | messages of one thread share an rpc; every await can fail; debounced edits | a reply that was begun is ended and shows all its text |
| control-socket (`bridge/control-socket.js`) | connections, chat streams | one op per line, chat_stream | streams share an rpc; clients leave; a turn ends in three ways; lines are dispatched while others are at work | a line is answered once, and in the end unless what it awaits is not timed |
| scp-http-server, vnc proxy (`bridge/core/scp-http-server.js`, `vnc-proxy.js`) | sockets | routes, upgrades, stop | slow bodies, lookups, upstreams; stop with open sockets | every request ends |
| bridge-daemon (`bridge/index.js`) | the parts | start, stop, signals | a signal or an error during start; parts used while they go down | a part outlives its users |
| identity-router (`bridge/core/identity-router.js`, `bridge/core/db/repositories`) | users, channel identities, link codes in MongoDB | resolve, resolveWebUser, issueLinkCode, redeemLinkCode | what one query found has changed at the next; two unique indexes are declared and not built (`db/connect.js:28`) | no identity changes hands, who calls works with a user of its own, codes end on an account; with the indexes, one user per account |
| workspace-manager (`bridge/core/workspace-manager.js`) | a row and a container per workspace | ensure, stop, reap | docker and the database fail separately; crashes between them | one container per user |
| supervision (`heartbeat-emitter.js`, `reaper.js`, `inbox-notifier.js`) | beats, sweeps | beat, sweep, notice | sweeps overlap; one target fails | what is stale is reaped whatever the others do |
| scheduler (`bridge/core/scheduler.js`) | task rows and agenda jobs | create, remove, fire | two stores written one after the other | a removed task does not run |
| cred-broker (`bridge/core/cred-broker.js`) | a secret cache with a stale-if-error window | use, clear | fetches that overlap, fail or arrive late | a retired secret goes out of use |
| hook-bus (`bridge/core/hook-bus.js`) | hook rows | emit | silent endpoints, heads without bodies, hooks changed meanwhile | an emission ends, unless an endpoint never ends its body |
| memory-gateway (`bridge/core/memory-gateway.js`) | whether a brain is initialised | recall, store | it fails while a turn waits | a turn goes on without it |
| mcp-server (`bridge/core/mcp`) | access decisions, chat chains | a request from the HTTP branch to its audit row, synaps_chat | rules change while they are read; calls time out while the next one waits | bounded staleness, one audit row, a reply is its own |
| mcp-rate-limiter | token buckets per token and address | check, prune | lazy refill, pruning, caps | the same verdicts as buckets refilled all the time |
| mcp-oauth (`bridge/core/mcp/oauth`, `mcp-dcr.js`) | consent entries, codes, tokens | GET and POST /authorize, POST /token, registration | pages posted twice, codes exchanged twice, restarts | one token per consent |
| plans-server-lifecycle (`engineering-plugin/lib/server_lifecycle.js`) | a record file, a lock file | ensureServer, stopServer, reapStale | crashes at any step, slow probes, lock-breaking timeouts, a record that cannot be written | one server that can be found per repository, every call returns |
| plans-store (`engineering-plugin/lib/store.js`, `inbox.js`) | an events file and a lock file per plan | append, respond, reconcile, haltedTasks | writers in several processes, a lock with a timeout | appends do not overlap, a block halts what depends on it |
| plans-server, plan-page (`extensions/plans_server.js`, `lib/watch.js`, `assets/site.js`) | event streams, a page and its requests | watch, announce, subscribe, fetch, navigate | debounce, refused and broken streams, answers out of order | the page shows the plan as it is |
| guest-agent (`guest-agent/src`: `desktop`, `sessions.rs`, `api`) | allocations, env files and sidecars on disk, systemd units, a table of desktops, a table of sessions | start, stop and rehydrate of desktops; start, send, cancel and close of sessions | steps of two requests between lock and file; requests dropped with their client; restarts of the agent | a desktop keeps the port it was answered with, no process without an entry |
| subagent-tracker, metrics, web-stream-bridge, compaction-control, engineering-tools, axel-memory-manager, pria-fsmon, pria-session-context, local-voice, plugin-maker, web-tools, small plugins | files, devices, little or none | | | not modelled, see section 8 |

`PROJECT.json` lists each component with its sources and, under `hazards`, the places where each of
these can go wrong, with the properties that would notice.

### How the components interact

A message arrives at a source (Slack, Discord), on the control socket (web) or at the MCP gateway. The
*identity-router* says whose it is, the *session-router* has the conversation's child: it answers from
`_live`, joins a creation under way, or creates: it loads the record from the *session-store*, spawns a
*synaps-rpc* (with `--continue` when there is a record; in a container of the *workspace-manager* in
SCP mode), waits for its ready frame, upserts the record and publishes the child. The source attaches
a *streaming-proxy* to the child's events and sends the prompt; chunks go to the platform's stream
handle until `agent_end`. Events do not say which prompt they belong to, so whatever listens to a
shared child hears all of it: the chain of chats in the MCP registry exists because of that. If the
child dies, its `exit` event makes the router restart it once with the stored session. The *reaper*
takes away what no longer beats; the *cred-broker* signs calls with a cached secret; the *scheduler*
fires tasks. The daemon starts and stops all of them in a fixed order. The *plans* processes are
independent of the bridge and meet in files: a record, a lock, and the events file of each plan. The
*guest agent* runs in a virtual machine and is asked for desktops and sessions over signed HTTP.

## 2. Plan

Everything planned exists: `SessionRouter` with `Conversations`, `SessionStore` with `AtomicStore`,
`SynapsRpc` and `DockerRpc` with `RpcContract`, `StreamingProxy`, `IdentityRouter`, `PlansServer`
first, then the modules of workspaces, supervision, scheduler, broker, hooks, turns, stream handles,
control socket, HTTP, daemon, the four of the MCP gateway, the three of plans, and the two of the
guest agent. Small components share a run (section 4), and each run asks few questions: a shallower
property gave way to a deeper one when a component was added.

What would come next: the guest agent's principals and file monitor; the safety halves of the liveness
properties of section 5 that have none yet (what waits is waited for: a timer, a call, a queue entry),
as `NoWaiterIsForgotten`, `PendingAreOpen` and `TurnsAreAccounted` are for theirs; and the repair of the
disagreements of section 7, each of which would turn a history variable (`overlapped`, `robbed`, `forgotten`,
`strays`, `lockless`, `early`, `late`) of these models into a plain invariant.

## 3. The modules

An action is what the code does between two awaits (in the bridge, which runs on one JavaScript
thread) or between two system calls that another process can come between (PlansServer, PlansStore).
Each module starts with a comment on its state; `PROJECT.json` maps each definition to the lines it
models. Definitions commented `Fault:` are plausible mistakes in the code, used to confirm that each
property can fail; no specification uses them.

| Module | Models | How state and actions correspond |
|---|---|---|
| `SessionRouter` | session-router.js | `live`, `pending`, `lastActive`, `running` are `_live`, `_pending`, `_lastActive`, `_running`. `call[c].pc` is the await where a call of getOrCreateSession stands: `LiveHit`, `JoinPending`, `BeginCreate`, then `CreateLoad`, `CreateSpawn`, `CreateReady`, `CreateUpsert`, `CreateSettle`, and the failures at each. `restart[r]` is the run of `_onRpcExit` for child r. `child[r].onExit` is the listener on the child, "first" when it starts a restart, "second" when it only cleans up. `Exit`, `CloseSession`, `ReapIdle`, `TtlPasses`, `Stop`, `DaemonRestart` are the rest |
| `Conversations` | README.md:4-6 of the bridge | a conversation gets a session once, and is routed only with one |
| `SessionStore` | session-store.js | `pc[o]` is the step of operation o, `prior[o]` the promise it awaits, `tail` is `_writeChain`; `LoadAndMerge`, `WriteTmp`, `Rename`, `SaveFails`, `Return`, `Crash` |
| `AtomicStore` | what upsert, touch and remove promise | an operation is called, applied in one step, and over |
| `SynapsRpc` | synaps-rpc.js | `pending` is `_pending`, `pipe` the stdin of the child with `_writeQueue`, `_draining` and the number of `drain` listeners; `stdout` the frames not yet read; `stop[s]` a call of shutdown() from the frame to SIGTERM to SIGKILL |
| `DockerRpc` | synaps-rpc-docker.js | `phase` is the promise of start, `entries` is `_pending`, `promise` what became of each request, `stream` and `exited` the exec stream and `_exitEmitted`, `halt[c]` a call of shutdown, which waits for an exit nothing enforces |
| `RpcContract` | synaps-rpc-docker.js:5-7, what SessionRouter relies on whichever transport is in play | start settles once, a request is settled at most once and after it was made, the one exit leaves nothing open |
| `StreamingProxy` | streaming-proxy.js, tool-progress.js | events are numbered and text *is* the events it came from; `chain` is `_dispatchChain`, `stage` the await inside the handler at its head, `issued` the chunks in the order of the calls of append, `flight` those that have not returned |
| `StreamHandles` | discord-stream-handle.js, slack-stream-handle.js | text is counted in pieces; `timer` is the debounce, `calls` the edits and appends under way with the text each carries, `shown` what the message shows |
| `Turn` | `_handleUserMessage` of both sources, bot-gate.js, memory-gateway.js | `handler[m]` is the await a message stands at, `stream[m]` its reply on the platform, `working[t]` the prompts the thread's child has taken: an `agent_end` reaches every open proxy of the thread |
| `ControlSocket` | control-socket.js | an op is a record of what it needs, asks for and awaits (`OpThreads`, `OpModel`, ...); `conn[c]` says whether the client is there and whether the socket was ended; `line[l].at` is what the handler of a line waits for, `ends` the last lines it wrote or tried to. A line comes whatever became of the one before it; a second answer on an ended socket destroys it and takes its streams off |
| `ScpHttp` | scp-http-server.js, vnc-proxy.js | `request[r]` is a route and what it awaits: body, handler, lookup, upstream; `http` the server on its way from listening to stopped |
| `BridgeDaemon` | index.js, bin/synaps-bridge.js | `BuildOrder` and `StopOrder` are the order of the statements in start and stop, `part[p]` a part's state, `building` and `stopping` how far the two have come, `Cause` a signal or an uncaught error |
| `IdentityRouter` | identity-router.js over three repositories | `pc[c]` is the query call c awaits, `user[c]` and `ns[c]` the document it holds; `CreateUser`, `Upsert`, `Insert` split where the repository has two queries; `indexed` says whether the database has the unique indexes, without which an account may get several rows, and a query find any of them; `Expire` and `RemoveExpired` are the clock and the TTL index |
| `Workspaces` | workspace-manager.js, workspace-repo.js, docker | `row[r]` and `box[r]` are a row and its container; `ensure[e]` and `stop[s]` the call's step and row; each call of docker or the database can fail, containers die, the bridge crashes |
| `Supervision` | heartbeat-emitter.js, reaper.js, inbox-notifier.js | `beat[s]` is the age of a row, `sweep[w]` a sweep's section, list and target; sweeps do not wait for each other |
| `Scheduler` | scheduler.js, scheduled-task-repo.js, agenda | the row is inserted, the job made, the row linked; `Fire`, `Find`, `Dispatch` are the job; removals cancel, then delete |
| `CredBroker` | cred-broker.js | `use[u]` a call with the entry it read before it asked; `kept` the cache entry; `retired[v]` when a version was replaced |
| `HookBus` | hook-bus.js, hook-repo.js | `call[h]` is the post to one hook: its timer, which is cleared when the head of the answer comes, and the body |
| `McpServer` | mcp-server.js, token and access repositories, resolver, gate, audit | `req[r].pc` is the await, `saw` the rows a check has read, `cache` the kept decisions; an administrator changes rules and revokes tokens at any time |
| `McpChat` | `_runSerialized` and `_invokeChatOnce` of mcp-tool-registry.js | `lock[u]` is the tail of the user's chain, `turns[u]` the prompts at the agent, `hears` the calls whose listeners are on, `text[c]` *whose words* a call collected; an agent that fails under an awaited prompt leaves a rejection nobody handles (`watched`), which stops the daemon (`crashed`) |
| `McpRateLimiter` | mcp-rate-limiter.js | buckets with lazy refill and pruning; `eager` is a history of buckets refilled at every instant |
| `McpOAuth` | oauth-authorize-handler.js, oauth-token-handler.js, the repositories, mcp-dcr.js | a consent entry, a post, a code row and an exchange, one query per action |
| `PlansServer` | server_lifecycle.js | `record` and `lock` are the two files, `call[p].saw` the record a process read before an await, `old` the age test of the lock; `LockFails`, `HostFails`, `PublishFails` what throws between; `Crash`, `Exit`, `Terminate` the three ways to die |
| `PlansStore` | store.js, the reconcile of plans_server.js and of the CLI | `file` is the events file, `latch` the lock file, `op[p]` the operation a process is in with its copy of the file; a file that cannot be read or parsed reads as empty (`Reads`) |
| `Halting` | haltedTasks of inbox.js | the loop over the sections, one look per step |
| `PlanPage` | watch.js, the streams of plans_server.js, site.js | `file[p]` the version and the debounce, `stream[s]` an EventSource, `load[l]` a request under way, `page` the route and what is shown |
| `DesktopStore` | desktop/kasmvnc.rs, desktop/ports.rs | `slots`, `envs`, `sidecars` are the files, `units` what systemd runs, `listed` the table; `request[r].at` is the step of a start or a stop, `lock` is alloc_lock; `Restart` and `Rehydrate(d)` are a new process, `Fail` an error or a client that hangs up |
| `GuestSessions` | api/sessions.rs, sessions.rs, synaps/launcher.rs | `entry` is the table, `counted` the counter, `handler[h]` where a request is and the reference it holds; what nobody refers to is killed (`KillOnDrop`) |
| `MCSessionRouter`, `MCChild`, `MCPlans`, `MCGateway`, `MCOutside`, `MCProgress` | | instances for TLC, see below |
| `...Proofs` | | theorems |

**Compositions.** Components that share no state are checked in one run: an MC module holds the
variables of several, a variable `focus` picks one at the start, and only that one moves. Its states
are the sum of the states of the parts, not their product, so nothing is lost and nothing is bounded
that a run of its own would not bound. What a neighbour gives a component (an answer, a failure, an
event, a rejection) is a choice in the component's module. The interactions that matter are inside
one module: calls, restarts, store results and exits in `SessionRouter`; two sources and a shared
child in `Turn`; streams on a shared rpc in `ControlSocket`; chats of one user in `McpChat`; rows and
containers in `Workspaces`; server, watcher, streams and page in `PlanPage`.

Abstractions worth knowing:

- A child that is not resumed opens a session of its own, which SessionRouter names by the child.
- `ReadFaults = TRUE` lets a read of sessions.json fail, in which case `load()` returns an empty map.
  The runs use FALSE; the theorems that need it say so, the others hold for both.
- A transition that throws out of an event handler ends the daemon, as
  `bin/synaps-bridge.js:141-149` does, and a rejection nobody handles does as `:151-160` says.
- The platform returns from each append of StreamingProxy in any order; in StreamHandles it applies
  the calls of one message in order, as its clients queue them, and any may fail.
- A process of PlansServer that died stays dead; its successor is another member of `Procs`.
- `Untimed` (SessionRouter) is the set of children whose start nothing times, those in a container
  (`synaps-rpc-docker.js:270-287`); `Unbounded` (ControlSocket) that of the ops whose call nothing times.
- `indexed` (IdentityRouter) is chosen once. The runs take both; a theorem about one of the two says so.
- Some histories leave out what the code is known not to keep, so that the property says what *is*
  kept; section 7 gives the schedule of each. `strays` (PlansServer): the servers that listen and that
  nobody can find again, because their record could not be written or was removed. `lockless`: a
  process started a server without having the lock. `robbed` (PlansStore): a failed append removed
  another's lock. `forgotten`: what was in the events file when a read of it failed. `overlapped`,
  `leaked` (Workspaces): two operations ran at once, a container was left behind. `early`
  (BridgeDaemon): stop came before start was through. `missed`, `late` (PlanPage): a change was
  announced to nobody, an older answer arrived after a newer one. `Abandoned` (McpChat): a call of
  the user was given up with its prompt at the agent.

## 4. The runs

| Run | Instance | Shows |
|---|---|---|
| `router_safety` | two conversations, two overlapping calls, three children, symmetric | `SingleFlight`: concurrent calls share a creation; `LiveIsSupervised`: a routed child is not being shut down, is listened to and has an activity entry; `SessionIsKept`: a session survives crashes, failures, reaping and daemon restarts |
| `router_liveness` | one conversation, two calls, two children, the second one untimed, fair | `CallsSettle`, `CrashIsResolved`: only the start of an untimed child can hold a call or a restart up; `ImplementsConversations`: the router refines the abstract specification |
| `store` | three operations on two keys, fair | `ImplementsAtomicStore`: with failures of each step and a crash anywhere, the file is always what some sequence of whole operations wrote; `OpsSettle`: a failed operation does not block those behind it |
| `child` | two requests, one shutdown and one stray error; two docker requests and two shutdowns; three events of seven kinds in three display modes; three pieces of text; fair | `FramesAreKept`: order and completeness under backpressure; `ReplyIsWhole`: text is neither lost, repeated nor moved across an event that flushes; `ShownIsWhole`: a stopped reply shows all of it; `ImplementsRpc`: both rpcs refine `RpcContract`, so a late answer, a timeout or an exit settles nothing twice; `EveryRequestSettles` (both rpcs); `StopReturns` |
| `plans` | two processes, one of which also stops and reaps, three servers, one slow probe, deaths; two writers and two events, one a block, one try for the lock; three sections and a blocked id outside the plan; fair | `OneServer`: however the race goes, one server that can be found listens and the record names it, until a lock is broken; `EnsureReturns`; `AppendsExclude`; `HaltsDependents`: the fixed point is what depends on a block, for every graph of three sections |
| `gateway` | two requests of one user on one tool and the wildcard; three chats of one user; three keys, capacity 2; one visit posted twice and exchanged twice | `DenyHeldBack`: a decision is stale no longer than it is kept; `AuditedOnce`; `ReplyIsOwn`; `LazyIsEager`; `OneTokenPerConsent` |
| `outside` | three identity calls, two chat and two web accounts, with and without indexes; one ensure and one stop at a time with three rows; two uses, two versions; two tasks, two jobs; two plans, two edits, two navigations, two streams; the daemon with any parts enabled; three desktops for two slots, two requests at a time, three in all, a restart, a failing systemctl; two sessions, two processes, three requests at a time; symmetric in the accounts | `MethodMatchesUser`, `ActsForItsOwn`, `CodesAreSpent`, and with the indexes `IndexesUnite`, under every interleaving and failure of the queries; `SingleBox`; `RetiredTokenUnused`; `RemovedIsQuiet`; `UsersStopFirst`; `PageCatchesUp`; `PortsAreKept`; `SessionsAreCounted` |
| `progress` | two chats, two subjects and one sweep, three hooks, two lines on a control connection, two messages per source, two HTTP requests, fair | `EndedOnce`, `LineIsAnswered`: control socket; `RequestsAnswered`: chats and HTTP; `StaleIsReaped`; `EmissionEnds`; `StreamIsClosed` |
| `rpc_error_frame` | one request | violates `ErrorFrameIsSurvived` |
| `identity_single_use` | three calls on one account | violates `SingleUse` |
| `plans_block_lost` | a writer and a reconciler, one block | violates `BlockHolds` |
| `http_stop` | two requests, fair | violates `StopResolves` |

Why the bounds are enough. The router's races are between two activities on one key (two calls, a
call and a restart, a call and stop); a second key shows what crosses between keys, and three children
let a crashed child, its replacement and a concurrent creation exist together. The store needs three
operations, so that one waits on a waiting one, and two keys, so that one update can overwrite
another's. Two requests show order and a late answer beside a live one. Three events give text, a
flushing event and text again, with the timer and stop anywhere between; three pieces let an edit be
under way while the next is due. Three identity calls are an issue and two redemptions, or two racing
creations and an observer. Two processes and three servers give a server, its replacement and one
more. Three sections give a chain listed in the wrong order, which one pass does not close. Three
chats are one at the agent, one behind it and one that chains on the second while the first is given
up. A decision kept for one instant in three lets a rule change before, during and after a check.
Capacity 2 in seven instants lets a bucket drain, refill in part, refill to the cap, grow idle and be
pruned. Three rows are a workspace, one that failed and one more. Two versions and four instants with
`Ttl = 1` let a secret be replaced, fetched late, and go out of use. Two plans and two navigations let
the page leave a plan whose answer is under way. Two lines on one connection are one at work and
one that ends the socket under it. Three desktops for two slots let the file be full, and
two requests meet at the lock; two processes let a second start of a session replace the first, under a
close that looked the first one up. The proofs of section 6 remove the bounds for the
properties they cover.

Deadlock is checked in the router's runs. The other systems really stop: their operations are
used up and nothing more has to happen.

## 5. Fairness

- `router_liveness`: weak fairness of each creation and each restart. A child on the host
  settles `start()` by its spawn timeout, the store its promises by their file operations. A child in a
  container (`Untimed`) may never say it is ready, and nothing times the wait
  (`synaps-rpc-docker.js:270-287`), so nothing is assumed of it; both properties except a creation or a
  restart that stands there for ever. Children owe nothing.
- `store`: weak fairness of each operation's next step: file operations finish or fail.
- `child`: weak fairness of the timers, of the delivery of `exit`, and of the death of a child that got
  SIGKILL; of the timers of DockerRpc; of the handler at the head of the proxy's chain, of stop(), and
  of the platform returning from *some* append. A child need not read, answer or heed another signal.
- `plans`: weak fairness of a call's next step and of its deadline. Lock holders that hang are allowed:
  that is what the deadline is for. Nothing is assumed of the events file.
- `progress`: weak fairness of the steps that are timed in the code or are one call of a database or a
  platform's client (chats, the timers of hook posts, HTTP bodies, lookups, a turn's awaits other than
  downloads, which nothing times). Nothing is assumed of the body of a hook's answer, whose timer has
  been cleared (`hook-bus.js:296`, `:303`): `EmissionEnds` excepts it. Nor of the session a chat stream
  or a chat call waits for, of the ops of `Unbounded` (the shutdown of a child in a container,
  `synaps-rpc-docker.js:321-327`; the request the broker forwards, `cred-broker.js:151`), or of the end of a
  turn the agent has taken: `LineIsAnswered` excepts a line that waits for one of them for ever, and
  `RequestsAnswered` a chat behind such a session, or ended with the daemon. For `StaleIsReaped`
  strong fairness, per reliable subject, of being listed, stopped and removed: the database answers
  again and again, but may fail any number of times between. A child that dies is a turn that never
  ends, since no 'exit' ends a stream.
- `http_stop`: the fairness of `progress`; the viewer owes nothing.

## 6. Proofs

All checked by TLAPS with Z3, Zenon and LS4, without assumptions other than the `ASSUME`s of the
modules. Every invariant a run checks is proved, and so are its action properties and refinements; TLC
checked each inductive invariant on the run's instance before it was proved. Theorems about a component
of a composition are stated over the composition's specification: a step of another part is a stutter of
this one's variables, so the parts' lemmas apply. `ChildIsTheRpc`, `PlansHaveTheServer` and
`OutsideIsTheRouter` carry the theorems stated over the specifications of SynapsRpc, PlansServer and
IdentityRouter to the compositions that extend them.

**SessionRouterProofs.** Inductive invariant `IInv`: `TypeOK`, `References` (every child that the
router, a call or a restart refers to was spawned for that key), `Promises` (`_pending[k]` is exactly
the one call that is creating k, and whoever waits, waits for it) and, while the store can be read,
`Sessions`. `SingleFlight` is a consequence of `Promises`. `SessionIsKept` needs `Sessions`: whoever is
about to write the record of k holds a child with k's session already, if k has one, because a
creation read it while no one else could be creating (`Promises`) and a restart only begins for a key
with a record. The two writers, a creation and a restart, can overlap, and then write the same
session. `RouterImplements` maps steps to `Serve`, `Release` or stuttering from the same invariant.
`LiveIsSupervised` needs to know what a child is before it is routed (`Supervision`): while it is being
made one call or one restart makes it (`OneMaker`), no key routes to it yet (`NotRoutedYet`), and its
listener and the key's activity entry are there before the step that publishes it (`Builds`). A
shutdown then only hits children that are routed no more, or not yet.

**SessionStoreProofs.** `Chain` says that operations leave the queue in the order they were called, each
after all before it are over, hence `OneWriter`. `Fresh` says that what an operation is about to
write is the file with its own effect, since no other operation can have changed the file. Then a
rename is one `Apply` of `AtomicStore` and every other step stutters or ends an operation.

**ChildProofs.** *Requests:* every step changes the requests in one of three ways (`RequestStep`), and each
keeps `pending` equal to the requests that are sent and open. *Contract:* from `LocalInv` and
`ContainerInv` (a promise is open exactly as long as it has an entry) each step of either rpc is one
step of `RpcContract` or a stutter, `RpcsKeepTheContract`; `OutcomesAreKept` is then a theorem about the
contract. *Frames:* the pipe, the queue and what the stream was ended with are in line; a burst of
`drain` listeners writes several frames in one step, so the step is an induction over the number of
listeners (`UpInduction`: over a set, since a predicate cannot be a parameter here). *Reply:* `ReplyInv`
says of the chunks issued and the buffer together that they come from the events seen, in order, that no
text precedes an event that flushed before it, and that none of the handled text events is missing;
`FirstOfChain` ties the await a handler stands at to the events that are done. *Message:* `HandleInv`
says that what is not shown is carried by an edit under way, a timer, or the end.

**IdentityRouterProofs.** `IInv` records, for each query, what a call holds there: `Shape`, `UserRows`
(no user row yet for a call that has not created it), `Holds` (the user document fits the operation),
`CodeRows`, `IdentRows`, `Linked` (what a message found is bound to its account), `Entitled` (who works with
a user of a web account has been let in by it: it presented a code which that account issued). Lemma
`Grow` says that user rows and identity rows are never changed once written (apart from the namespace),
so that what a call knew at an earlier query is still true at a later one; the rest follows. For
`CodesAreSpent`, `CodeUse` adds that a code is there only once its issuer is over, that a redemption which
began after another's end finds it spent or gone, and that a call about to spend a code has found or made
a row of its key. All of this needs no index. Two conjuncts of `UserRows` and `IdentRows` are about a
database that has the indexes: one user per web account, one row per key. From these `AccountsHaveOneUser`.
Without them both fail, in the model as in the code.

**PlansProofs.** *Server:* `OneServer` is proved for any number of processes, servers and slow probes. A
process that waits and sees the lock vanish, or whose lock is broken, goes on without it; as long as
none starts a server that way (`lockless`), who starts one has the lock and there is no record meanwhile
(`Guarded`), what the double check read is still the record unless that has been removed (`Fresh`), and
hence every server that listens is recorded, about to be, or given up (`Known`). `OwnServer` and `Tokens` say
whose a server is. Nothing is assumed of crashes, probes, stops or failing writes: what they leave
listening is in `strays`, and the invariant counts the others.
*Halting:* `HaltInv` bounds `halted` from both sides: it is contained in `Dependents`,
the least closed set (`DependentsGrow`), and a pass that has changed nothing has left no section behind
it that ought to be halted; at the end of such a pass the set is closed, hence equal. *Appends:* whoever
is past the lock owns the lock file, unless it was robbed; the failing append's second `unlink` is the
only step that takes a lock from somebody else. Then the copy about to be written is the file, so that
appends alone lose nothing (`AppendsLoseNothing`) but what was in the file when a read of it failed
(`forgotten`): otherwise a block can only be lost by a respond or a reconcile, which take no lock, as in
`plans_block_lost`.

**GatewayProofs.** *Limiter:* a look at a bucket commutes with the passing of time, so that what a bucket
would hold if it were refilled now (`Refilled`) is a function of the history of calls, and a bucket is
pruned only when it equals a new one. *Consents:* the entry of a page is gone once a post was let
through, and a code that was redeemed stays so; hence one post per visit with a code and one exchange
per code with a token. *Access list:* `KeptOk` says that a kept decision counts from an instant at
which no row denied what it allows, `RequestOk` that the rows a check has read so far had not denied
when the check began; a row that starts to deny does so now, which is later. The cache time enters
once, when a fresh entry is used. It also carries the audit count, which is zero until the answer.
*Chats:* the calls of a user that wait form a chain (`Chain`): the lock's entry is its end, no two calls
wait for one, and no set of calls is closed under waiting, so that one call at most is first (`OneFirst`).
The agent then works on one prompt at most, that of the call that runs (`OneTurn`), and a call that
listens hears its own words, unless one of the user was given up. Of `UserOf` the proof
uses only that it is a map to users.

**OutsideProofs.** *Broker:* an entry never counts from later than the retirement of its value, because
the instant is taken before the secret is asked for; the two lifetimes of the property are the time to
live and the stale-if-error window. *Scheduler:* a row is inserted once and its removal is final, so
that a run that looks the row up after the removal returned finds none. *Desktops:* what a request knows
of the file between the lock and the sidecar stays true, because only the holder of the lock changes the
file while requests run, and rehydrate only runs before them (`Knows`); the table agrees with the file
except for the one desktop its holder is releasing (`Kept`). *Sessions:* the counter is the size of the
table, and what nobody refers to is dead. *Workspaces:* operations that do not overlap, and that leave
no container behind, work on the newest row, and only its container runs (`NewestRuns`); the newest row
is the one found because rows are numbered as they are made (`Greatest`). *Page:* whenever the page is on
a plan, it has drawn the latest version or something will tell it, a notice, a timer, an event on its
way or an answer (`Heard`). *Daemon:* parts are down only behind the point stop has reached, and who uses
a part comes before it in that order (`UsersComeFirst`).

**ProgressProofs.** *Control socket:* a line whose handler has not come to its end has written no last line, and
one that has, at most one, although another line may end or break the socket under it (`LineInv`); the
streams of a rpc all end in one step (`LinesAfter`). *Turns:* where a handler stands says what
became of its reply, and the gate's count is the number of closed replies: a reply is open only
while the handler that will close it is at work, which is the half of `StreamIsClosed` that needs no
fairness. *HTTP:* once the server stops, only requests upgraded before are at work, which is why
`http_stop` can be held up by those and nothing else.

Only model-checked: the liveness properties (`CallsSettle`, `CrashIsResolved`, `OpsSettle`,
`EveryRequestSettles`, `StopReturns`, `EnsureReturns`, `RequestsAnswered`, `StaleIsReaped`, `EmissionEnds`,
`LineIsAnswered`, `StreamIsClosed`), because the prover does not do ENABLED and so not fairness. The theorems
on refinement are about the safety part, which is all the abstract specifications have. HookBus and
Supervision promise nothing else and have no theorem. The counterexamples of the four violation runs are
TLC's.

## 7. Disagreements between code and documentation

Shown by a run (see `findings` in `PROJECT.json`):

- `rpc_error_frame`: `SUBAGENT_BRIEF.md:168` says an error frame of no request is surfaced as an event and
  the child stays alive; nobody listens, so it ends the daemon.
- `identity_single_use`: a link code can be redeemed twice by overlapping calls.
- `plans_block_lost`: `store.js:206` and the reconcile of `plans_server.js:379-390` rewrite the events
  file without the lock of appendEvent; a block whose author was told it is stored is gone.
- `http_stop`: `closeAllConnections` leaves upgraded sockets alone, so stop() waits for the viewer
  (`scp-http-server.js:403-405`).

Stated in the modules and refuted by the code, without a run of their own:

- `RestartKeepsModel` (`session-router.js:318`): a restart starts with the default model and then
  overwrites the recorded one.
- `RedemptionBinds` (`identity-router.js:252-253`): redeeming from an account that has spoken before
  consumes the code, reports ok and binds nothing; `identity-router.test.js:743` says it "rebinds the channel
  identity to the new user", which its mock repository does and `upsertExternal` does not.
- `OneServer` without `lockless` and `strays` (`server_lifecycle.js:2`, "at-most-one-plans-server-per-repo"):
  two waiters past their deadline (`:185`) each break a lock, the second one the first's. A `writeRecord`
  that throws (`:219`) leaves a server listening in no record and not in `HOSTED`, and `:224` frees the lock:
  the next ensure starts a second one. `:133-139`: the signal handler removes the record although it may
  name another process's server; `stopServer` and `reapStale` do so too.
- `IndexesUnite` without `indexed` (`channel-identity-repo.js:95`, "the unique index protects us";
  `db/connect.js:28` says `autoIndex: false` and nothing outside the tests builds an index): two first
  messages of one account both miss, both create a user and both insert a row, and what a later message
  finds is either's (`identity-router.js:107`). Two calls for one new web account get a user each (`:142`).
- `OneChildPerKey` (bridge README.md:4-5): a restart and a creation for one key can overlap; the later one
  takes the key and the other child runs on. The same with a creation that outlives `stop()`.
- `SessionIsKept` with `ReadFaults = TRUE`: `session-store.js:83` answers any failed read with an empty
  map, so a conversation is started without `--continue` and the next save drops the other records.
- `ChunksInOrder` (SUBAGENT_BRIEF.md:147): `toolcall_input` and `subagent_update` do not flush first
  (`streaming-proxy.js:366`, `:459`), so in the inline mode their chunk precedes earlier text.
- `ClosedAfterAppends`: a flush by length or timer is awaited by nobody (`streaming-proxy.js:284`), and the
  stream may be closed before it returns (`stream-handle.js:7-8`). `OpenedBeforeAppends`: the proxy
  listens before the stream is open (`stream-handle.js:53`).
- `NamespaceIsOwn`: another call can read a user between its insert and the write of its namespace
  (`user-repo.js:38`: "always consistent"). `UnlinkedIsBound`: two racing first messages create two
  users; the loser is told of a user its account is not bound to (`identity-router.js:80`).
- `UnitsApart` (`guest-agent/src/desktop/ports.rs:3`, "unique X11 display number"): stop() stops the unit
  (`kasmvnc.rs:1198`) before it takes the lock (`:1204`). A start of the same desktop in between starts the
  unit again, the stop then releases its slot, and the next desktop gets the display of a unit that runs.
- `LiveKeepsSlot` (`kasmvnc.rs:1224`, "Stale allocations (unit no longer active) are released"): the desktop of
  an instance whose sidecar was not written yet, or could not be, is looked up as `kasmvnc@<key>`
  (`:1252-1256`); its unit runs on and its slot is released. So does an error of systemctl (`:1257`).
- `OneProcess` (`guest-agent/src/api/sessions.rs:103`, "Duplicate session guard"): two starts of one session
  both pass the check (`:104`), both launch, and the second insert (`:234`) kills the first process.
- `ReverseOrder` (`index.js:1143`, "reverse order"): the HTTP server with its MCP calls is stopped after the
  router, MongoDB before what still writes to it: the last beat goes to a connection that is closed.

Read off the code while modelling it:

*Workspaces and supervision.* `workspace-manager.js:74-75` says "Idempotent"; two concurrent ensures create
two containers (`overlapped`). A container that exited by itself makes docker answer its stop with 304,
which is thrown, and the row stays. As wired, WorkspaceManager has no `stopWorkspace` or
`markReaped` (`reaper.js:223`, `:233`) and `rpcKiller` is undefined (`index.js:745`), so nothing is reaped
(bridge README.md:914). `heartbeat_emit` accepts the component `agent` (`control-socket.js:514`), which the
schema refuses (`synaps-heartbeat.js:53`). A beat of the emitter under way at stop can overwrite the
final unhealthy one.

*Scheduler.* `agenda.every` keys a repeated job by its name, which all tasks share, so they share one job;
`cancel` is given a string id; the default factory passes no agenda and the dispatcher is a stub
(`index.js:1103`), so no task is dispatched as wired.

*Hooks.* The timer of a post is cleared (`hook-bus.js:296`) before the body is read (`:303`), so
that an endpoint which stalls after its head holds emit() for ever. `_makeHookRepo` passes `{model}`
where HookRepo takes `{Hook}` (`index.js:216-218`), and nothing calls `HookBus.emit`. `hook_remove`
checks no owner.

*Gateway.* `mcp-tool-acl-repo.js:136` lets an exact row win where the resolver lets a wildcard deny win. An
answer given up by one chat is heard by the next one of the user (`Abandoned`). An agent that reports an
error while `rpc.prompt()` is awaited rejects a promise nobody has raced yet (`mcp-tool-registry.js:364-409`):
an unhandled rejection, for which `bin/synaps-bridge.js:151-160` stops the daemon with all its children.

*Sources.* `bot-gate.js:94` counts a turn after failures too. Two attachments of one name are written to one
path. Every Discord download throws: `discord/index.js:444-451` passes `fileMeta` where
`discord/file-store.js:87-100` takes `attachment`. Downloads are not timed. The memory namespace is
prefixed twice (`u_u_...`). Overlapping messages of a thread hear each other's text and end, and a proxy
may be stopped by the acknowledgement of its prompt before `agent_end`.

*Router.* Nothing times the wait for the ready frame of a child in a container
(`synaps-rpc-docker.js:270-287`; `synaps-rpc.js` has a spawn timeout): the call that creates it, those that
joined it and every later call for the key wait for as long as it is silent.

*Control socket and daemon.* `control-socket.js:196-197` says "read one JSON line, write one JSON line, then
destroy the socket"; each chunk that completes a line dispatches it (`:209-218`) whether or not one is being
answered, and the first answer ends the socket: those of the others are written after the end. Of two
lines in one chunk the second waits for another chunk. `control-socket.js:1106` calls
`sendUserPrompt`, which SynapsRpc does not have. A line that is JSON `null` becomes an unhandled
rejection, which stops the daemon. `synaps-rpc-docker.js:321`: shutdown waits for an exit that
nothing enforces, and for ever when it is called after the exit.

*HTTP.* An upgrade's socket has no 'error' listener until the workspace is looked up
(`vnc-proxy.js:177-200`); an upstream that fails after its head leaves the response open, and so does one
that never answers.

*Plans.* An events file that cannot be read, or parsed, is read as empty (`store.js:106-112`), and
the next append or reconcile writes that over what was there (`forgotten`). The second `unlink` of a
failed append can remove another's lock, after which two appends overlap (`robbed`;
`specs/html-plan-ecosystem.impl-plan.md:744`: "no lost update"). A crash with the lock held makes
every later append time out. A second reconcile of a plan with a block throws. A reconcile by the
CLI is not announced to open streams. A plans server that is ensured while the session ends runs
until the process exits.

*Plan page.* A change between the fetch and the subscription is missed (`site.js:278-284`; `missed`). Going
from A to B while A's answer is under way leaves A's stream open and can show A on B's route; answers can
overtake each other (`late`). A stream that reconnects fetches nothing, a refused one is not tried again,
a visit that fails does not subscribe. Events of notes refresh only the sidebar (`site.js:306`).

*Guest agent.* `sessions.rs:95` says "Remove a session (on close/exit)"; nothing removes one on exit, so
the entry of a process that ended refuses the next start and is counted until a close. A send to a process
that does not read holds the lock that cancel and close need (`launcher.rs:470`). After a restart of the
agent the table of sessions is empty and the processes it launched run on.

## 8. What is not modelled

Formatting, rendering of chunks, logging, wording, configuration (`bridge/config.js` validates one file
once) and the content of prompts. Time is a step that may happen or a small clock. Of the database,
replication and the loss of acknowledged writes. Of synaps-rpc, events that belong to no request: they
are the input of StreamingProxy and McpChat. Of streaming-proxy, one tool and one subagent stand for
all. Of identity-router, the no-op implementation used without SCP mode. Of memory-gateway, the text of
commands and their output. Of plans-server, static files, themes, the list of plans and the agent roster,
whose reads and writes are single synchronous calls.

| Component | Why not |
|---|---|
| subagent-tracker | a map from subagent to its last status, read only to render |
| metrics, web-stream-bridge | counters and formats |
| compaction-control | pure decisions and a state file of one process; nothing in the source drives them |
| engineering-tools | registries, tmux commands, themes, a parser: nothing interleaves |
| guest-agent, the rest | users and groups (commands of the system), the file monitor and its relay, policy, signing and usage (checks and callbacks of one request); the heartbeat only reads |
| axel-memory-manager, pria-session-context | single-threaded stdio extensions around an external store |
| pria-fsmon, local-voice | kernel and device I/O |
| plugin-maker, web-tools, small plugins | single-process scripts |
