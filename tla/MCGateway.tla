---- MODULE MCGateway ----
(***************************************************************************)
(* The four parts of the MCP gateway.  They share no state but the verdict *)
(* one gives the other, which each models as a choice, so a behaviour      *)
(* follows one of them (focus) and leaves the others where they started.   *)
(***************************************************************************)
EXTENDS Naturals, Sequences

CONSTANTS
    Users, None,
    Requests, Tools, CacheMs, MaxNow,
    Calls,
    Tokens, Ips, Capacity, IdleAge, PruneEvery, MaxTime,
    Visits, Posts, Exchanges

\* Whose call it is: some map, no matter which.
UserOf == CHOOSE f \in [Calls -> Users] : TRUE

ASSUME ClockAssumption == {CacheMs, MaxNow, MaxTime, IdleAge} \subseteq Nat /\ CacheMs > 0
ASSUME LimiterAssumption ==
    /\ Capacity \in Nat \ {0} /\ PruneEvery \in Nat \ {0}
    /\ None \notin [tokens : Nat, last : Nat]
ASSUME NoneAssumption == None \notin Calls \cup Visits \cup Posts
ASSUME UsersAssumption == Users # {}
ASSUME StarAssumption == "*" \notin Tools

VARIABLES
    focus,
    now, active, rules, cache, written, req, deniedSince,
    chat, lock, frame, turns, hears, text, watched, crashed,
    time, bucket, calls, eager,
    csrf, post, code, exchange

Server == INSTANCE McpServer
Chat == INSTANCE McpChat
Limiter == INSTANCE McpRateLimiter
OAuth == INSTANCE McpOAuth

serverVars == <<now, active, rules, cache, written, req, deniedSince>>
chatVars == <<chat, lock, frame, turns, hears, text, watched, crashed>>
limiterVars == <<time, bucket, calls, eager>>
oauthVars == <<csrf, post, code, exchange>>
vars == <<focus, serverVars, chatVars, limiterVars, oauthVars>>

Init ==
    /\ focus \in {"server", "chat", "limiter", "oauth"}
    /\ Server!Init /\ Chat!Init /\ Limiter!Init /\ OAuth!Init

Next ==
    \/ /\ focus = "server" /\ Server!Next
       /\ UNCHANGED <<focus, chatVars, limiterVars, oauthVars>>
    \/ /\ focus = "chat" /\ Chat!Next
       /\ UNCHANGED <<focus, serverVars, limiterVars, oauthVars>>
    \/ /\ focus = "limiter" /\ Limiter!Next
       /\ UNCHANGED <<focus, serverVars, chatVars, oauthVars>>
    \/ /\ focus = "oauth" /\ OAuth!Next
       /\ UNCHANGED <<focus, serverVars, chatVars, limiterVars>>

Spec == Init /\ [][Next]_vars

DenyHeldBack == Server!DenyHeldBack
AuditedOnce == Server!AuditedOnce
ReplyIsOwn == Chat!ReplyIsOwn
LazyIsEager == Limiter!LazyIsEager
OneTokenPerConsent == OAuth!OneTokenPerConsent
====
