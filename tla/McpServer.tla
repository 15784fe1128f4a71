---- MODULE McpServer ----
(***************************************************************************)
(* bridge/core/mcp: one request of the MCP gateway from the HTTP branch    *)
(* POST /mcp/v1 to its answer: rate limit, envelope, token, approval       *)
(* policy, access list with its cache, dispatch, audit.  The limiter's     *)
(* verdict (module McpRateLimiter), the outcome of a tool call (module     *)
(* McpChat for synaps_chat) and the policy row, which another program      *)
(* writes, are choices here.                                               *)
(*                                                                         *)
(* An administrator revokes tokens and changes access rules at any time.   *)
(* Time is a bounded clock, in units of which a decision is kept CacheMs.  *)
(***************************************************************************)
EXTENDS Naturals

CONSTANTS
    Requests,
    Users,
    Tools,
    CacheMs,    \* how long the access resolver keeps a decision
    MaxNow,     \* bound: the last instant
    None

Star == "*"                       \* the wildcard row of a user
Rules == Tools \cup {Star}
Never == MaxNow + CacheMs + 1     \* later than every instant

VARIABLES
    now,
    active,      \* users whose token is neither revoked nor expired
    rules,       \* [Users -> [Rules -> the row's policy, or "none"]]
    cache,       \* [Users -> [Tools -> the kept decision, or None]]
    written,     \* rows an administrator wrote and whose decisions are still kept
    req,         \* [Requests -> the request's progress]
    deniedSince  \* history: [Users -> [Rules -> when the row began to deny, or Never]]

mcpVars == <<now, active, rules, cache, written, req, deniedSince>>
admin == <<active, rules, deniedSince, written>>

Answers == {"pending", "limited", "refused", "accepted", "denied", "error", "ok"}
Steps == {"reading", "auth", "list", "gate", "acl", "rows", "call", "stream", "done"}
Request == [pc : Steps, user : Users, tool : Tools, began : 0..MaxNow, saw : [Rules -> {"none", "allow", "deny", "unread"}],
            granted : BOOLEAN, answer : Answers, audits : 0..2]

Unread == [k \in Rules |-> "unread"]
NewRequest(u, t) == [pc |-> "reading", user |-> u, tool |-> t, began |-> 0, saw |-> Unread,
                      granted |-> FALSE, answer |-> "pending", audits |-> 0]

Init ==
    /\ now = 0
    /\ active = Users
    /\ rules = [u \in Users |-> [k \in Rules |-> "none"]]
    /\ cache = [u \in Users |-> [t \in Tools |-> None]]
    /\ written = {}
    /\ req \in [Requests -> {NewRequest(u, t) : u \in Users, t \in Tools}]
    /\ deniedSince = [u \in Users |-> [k \in Rules |-> Never]]

At(r, pc) == req[r].pc = pc
Me(r) == req[r].user
Goto(r, pc) == req' = [req EXCEPT ![r].pc = pc]
\* An answer that is audited, and one that is not; the rest is forgotten.
Answer(r, answer, audits) ==
    req' = [req EXCEPT ![r] = [NewRequest(Me(r), @.tool) EXCEPT
               !.pc = "done", !.answer = answer, !.audits = audits]]
Audited(r, answer) == Answer(r, answer, req[r].audits + 1)
Unaudited(r, answer) == Answer(r, answer, req[r].audits)

-----------------------------------------------------------------------------
(* The HTTP branch *)

\* _readJsonBody: too long, not JSON, or not there within five seconds.  What
\* a request asks is chosen where it matters.
BodyRefused(r) ==
    /\ At(r, "reading")
    /\ Unaudited(r, "refused")
    /\ UNCHANGED <<now, admin, cache>>

-----------------------------------------------------------------------------
(* handle, up to its first await *)

\* The limiter is asked before anything else, so malformed requests count.
RateLimited(r) ==
    /\ At(r, "reading")
    /\ Unaudited(r, "limited")
    /\ UNCHANGED <<now, admin, cache>>

\* No body, not JSON-RPC 2.0, or no method.
Malformed(r) ==
    /\ At(r, "reading")
    /\ Audited(r, "refused")
    /\ UNCHANGED <<now, admin, cache>>

\* A notification, or a request without an id, is accepted and dropped.
Notification(r) ==
    /\ At(r, "reading")
    /\ Unaudited(r, "accepted")
    /\ UNCHANGED <<now, admin, cache>>

\* initialize is the one method that needs no token.
Initialize(r) ==
    /\ At(r, "reading")
    /\ Audited(r, "ok")
    /\ UNCHANGED <<now, admin, cache>>

NeedsToken(r) ==
    /\ At(r, "reading")
    /\ Goto(r, "auth")
    /\ UNCHANGED <<now, admin, cache>>

-----------------------------------------------------------------------------
(* After the token *)

\* McpTokenResolver.resolve: a read that fails is a token nobody has.
TokenRefused(r) ==
    /\ At(r, "auth")
    /\ Audited(r, "denied")
    /\ UNCHANGED <<now, admin, cache>>

Dispatch(r) ==
    \/ Goto(r, "list")
    \/ Goto(r, "gate")
    \/ Audited(r, "ok")      \* ping
    \/ Audited(r, "error")   \* a method there is none of

\* McpTokenRepo.findActive: a row that is not revoked and not expired.
TokenAccepted(r) ==
    /\ At(r, "auth")
    /\ Me(r) \in active
    /\ Dispatch(r)
    /\ UNCHANGED <<now, admin, cache>>

\* McpToolRegistry.listTools over SynapsRpcSessionRouter.listTools, filtered by
\* the policy: a probe that fails is an empty list, never an error.
ListTools(r) ==
    /\ At(r, "list")
    /\ Audited(r, "ok")
    /\ UNCHANGED <<now, admin, cache>>

\* McpApprovalGate.filterTools or the registry throws.
ListFails(r) ==
    /\ At(r, "list")
    /\ Audited(r, "error")
    /\ UNCHANGED <<now, admin, cache>>

\* isToolAllowed with _isAllowedByPolicy; a call without a name, and a gate
\* that throws, end here too.
GateRefuses(r) ==
    /\ At(r, "gate")
    /\ \E a \in {"denied", "error"} : Audited(r, a)
    /\ UNCHANGED <<now, admin, cache>>

GatePasses(r) ==
    /\ At(r, "gate")
    /\ Goto(r, "acl")
    /\ UNCHANGED <<now, admin, cache>>

-----------------------------------------------------------------------------
(* McpToolAclResolver *)

\* _resolve: a wildcard that denies wins over everything, then the row of the
\* tool, then a wildcard that allows; without a row the tool is allowed.
Allowed(exact, wildcard) == wildcard # "deny" /\ exact # "deny"

Fresh(c, t) == c # None /\ t < c.at + CacheMs

Decide(r, ok, began) ==
    IF ok THEN req' = [req EXCEPT ![r].pc = "call", ![r].granted = TRUE,
                                  ![r].saw = Unread, ![r].began = began]
          ELSE Audited(r, "denied")

\* check: a kept decision is used while it is young enough ...
CheckCached(r) ==
    LET c == cache[Me(r)][req[r].tool] IN
    /\ At(r, "acl")
    /\ Fresh(c, now)
    /\ Decide(r, c.allowed, now)
    /\ UNCHANGED <<now, admin, cache>>

\* ... otherwise both rows are read; the instant is taken before the reads.
CheckMiss(r) ==
    /\ At(r, "acl")
    /\ ~Fresh(cache[Me(r)][req[r].tool], now)
    /\ req' = [req EXCEPT ![r].pc = "rows", ![r].began = now]
    /\ UNCHANGED <<now, admin, cache>>

ReadRow(r, k) ==
    /\ At(r, "rows")
    /\ k \in {req[r].tool, Star}
    /\ req[r].saw[k] = "unread"
    /\ req' = [req EXCEPT ![r].saw[k] = rules[Me(r)][k]]
    /\ UNCHANGED <<now, admin, cache>>

\* Fault: the decision is kept from when the rows have come.
KeptAtArrival(r) == now

KeptAt(r) == req[r].began

RowsRead(r) ==
    LET ok == Allowed(req[r].saw[req[r].tool], req[r].saw[Star]) IN
    /\ At(r, "rows")
    /\ \A k \in {req[r].tool, Star} : req[r].saw[k] # "unread"
    /\ cache' = [cache EXCEPT ![Me(r)][req[r].tool] = [allowed |-> ok, at |-> KeptAt(r)]]
    /\ Decide(r, ok, req[r].began)
    /\ UNCHANGED <<now, admin>>

\* A resolver that throws lets the call through.
AclFailsOpen(r) ==
    /\ At(r, "rows")
    /\ req' = [req EXCEPT ![r].pc = "call", ![r].saw = Unread]
    /\ UNCHANGED <<now, admin, cache>>

-----------------------------------------------------------------------------
(* Dispatch *)

\* What callTool throws becomes an error envelope.
CallOutcomes == {"ok", "error"}

\* Fault: the stream is audited where it is opened as well.
BeginStreamAudited(r) ==
    /\ At(r, "call")
    /\ req' = [req EXCEPT ![r].pc = "stream", ![r].audits = @ + 1]
    /\ UNCHANGED <<now, admin, cache>>

\* With Accept: text/event-stream the HTTP layer runs the dispatcher itself.
BeginStream(r) ==
    /\ At(r, "call")
    /\ Goto(r, "stream")
    /\ UNCHANGED <<now, admin, cache>>

\* The transport writes the final frame unless the peer is gone; the
\* dispatcher's finally audits either way.
StreamEnds(r) ==
    /\ At(r, "stream")
    /\ \E a \in CallOutcomes : Audited(r, a)
    /\ UNCHANGED <<now, admin, cache>>

\* McpToolRegistry.callTool: synaps_chat, or a name the registry does not know.
CallEnds(r) ==
    /\ At(r, "call")
    /\ \E a \in CallOutcomes : Audited(r, a)
    /\ UNCHANGED <<now, admin, cache>>

\* SynapsRpcSessionRouter.callTool: a workspace tool that fails, or does not
\* answer in time, is a result that says so.
WorkspaceToolEnds(r) ==
    /\ At(r, "call")
    /\ Audited(r, "ok")
    /\ UNCHANGED <<now, admin, cache>>

-----------------------------------------------------------------------------
(* Administration and time *)

\* The admin's mcp_acl_set and mcp_acl_delete ("none") write the row ...
SetRule(u, k, p) ==
    /\ written = {}      \* bound: one such call at a time
    /\ rules[u][k] # p
    /\ rules' = [rules EXCEPT ![u][k] = p]
    /\ deniedSince' = [deniedSince EXCEPT ![u][k] = IF p = "deny" THEN now ELSE Never]
    /\ written' = written \cup {<<u, k>>}
    /\ UNCHANGED <<now, active, cache, req>>

\* ... and then forget the decisions it touches: all of the user's for a
\* wildcard.  A check that is reading keeps the decision it makes from the old
\* row nevertheless.
Invalidate(u, k) ==
    /\ <<u, k>> \in written
    /\ written' = written \ {<<u, k>>}
    /\ cache' = [cache EXCEPT ![u] = [t \in Tools |-> IF k \in {t, Star} THEN None ELSE @[t]]]
    /\ UNCHANGED <<now, active, rules, deniedSince, req>>

\* A row expires: nothing is forgotten.
RuleExpires(u, k) ==
    /\ rules[u][k] # "none"
    /\ rules' = [rules EXCEPT ![u][k] = "none"]
    /\ deniedSince' = [deniedSince EXCEPT ![u][k] = Never]
    /\ UNCHANGED <<now, active, written, cache, req>>

\* McpTokenRepo.revoke, or the token's expiry: there is no way back.
Revoke(u) ==
    /\ u \in active
    /\ active' = active \ {u}
    /\ UNCHANGED <<now, rules, deniedSince, written, cache, req>>

Tick ==
    /\ now < MaxNow
    /\ now' = now + 1
    /\ UNCHANGED <<admin, cache, req>>

Handle(r) ==
    \/ BodyRefused(r) \/ RateLimited(r) \/ Malformed(r) \/ Notification(r)
    \/ Initialize(r) \/ NeedsToken(r)
    \/ TokenRefused(r) \/ TokenAccepted(r)
    \/ ListTools(r) \/ ListFails(r) \/ GateRefuses(r) \/ GatePasses(r)
    \/ CheckCached(r) \/ CheckMiss(r) \/ \E k \in Rules : ReadRow(r, k)
    \/ RowsRead(r) \/ AclFailsOpen(r)
    \/ BeginStream(r) \/ StreamEnds(r) \/ CallEnds(r) \/ WorkspaceToolEnds(r)

Next ==
    \/ \E r \in Requests : Handle(r)
    \/ \E u \in Users : \/ \E k \in Rules, p \in {"none", "allow", "deny"} : SetRule(u, k, p)
                        \/ \E k \in Rules : Invalidate(u, k) \/ RuleExpires(u, k)
                        \/ Revoke(u)
    \/ Tick

-----------------------------------------------------------------------------

\* No row has denied a call the access list let through for a whole CacheMs
\* when its check began: a decision is stale for no longer than it is kept,
\* whatever was written while its rows were being read.
DenyHeldBack ==
    \A r \in Requests : req[r].granted =>
        \A k \in {req[r].tool, Star} : deniedSince[Me(r)][k] + CacheMs > req[r].began

\* Every answer but a refusal to read, a 429 and a 202 has one audit row, and
\* only one, streamed answers included.
AuditedOnce ==
    \A r \in Requests :
        /\ req[r].audits <= 1
        /\ req[r].answer \in {"denied", "error", "ok"} => req[r].audits = 1
====
