---- MODULE CredBroker ----
(***************************************************************************)
(* bridge/core/cred-broker.js over cred-broker/infisical-client.js: the    *)
(* uses of one secret of one user.  The secret is rotated at the server;   *)
(* its versions are numbers.  The broker keeps the last version it read,   *)
(* for Ttl fresh and for as long again when a fetch fails; any number of   *)
(* uses are under way at once, and a fetch takes its time.                 *)
(***************************************************************************)
EXTENDS Naturals

CONSTANTS
    Uses,
    Ttl,
    MaxClock,    \* bound: the last instant
    MaxVersion,  \* bound: rotations of the secret
    None

Versions == 0..MaxVersion
Later == MaxClock + 2 * Ttl + 1

VARIABLES
    clock,
    secret,      \* the version the server holds
    retired,     \* history: [Versions -> when it was replaced, or Later]
    kept,        \* the cache entry [value, at], or None
    use          \* [Uses -> the use's step, start, cache entry and token]

credVars == <<clock, secret, retired, kept, use>>
server == <<secret, retired>>

Steps == {"idle", "asked", "answered", "signed", "returned", "refused", "unavailable"}
NewUse == [pc |-> "idle", began |-> 0, entry |-> None, token |-> None]
Over(pc) == [NewUse EXCEPT !.pc = pc]

Init ==
    /\ clock = 0
    /\ secret = 0
    /\ retired = [v \in Versions |-> Later]
    /\ kept = None
    /\ use = [u \in Uses |-> NewUse]

\* _validate: a wrong request is refused before anything is read.
Refuse(u) ==
    /\ use[u].pc = "idle"
    /\ use' = [use EXCEPT ![u] = Over("refused")]
    /\ UNCHANGED <<clock, server, kept>>

Younger(entry, age) == entry # None /\ clock < entry.at + age

\* _resolveToken: the entry and the instant are read once, here.
FreshHit(u) ==
    /\ use[u].pc = "idle"
    /\ Younger(kept, Ttl)
    /\ use' = [use EXCEPT ![u] = [pc |-> "signed", began |-> clock, entry |-> None, token |-> kept.value]]
    /\ UNCHANGED <<clock, server, kept>>

Ask(u) ==
    /\ use[u].pc = "idle"
    /\ ~Younger(kept, Ttl)
    /\ use' = [use EXCEPT ![u] = [pc |-> "asked", began |-> clock, entry |-> kept, token |-> None]]
    /\ UNCHANGED <<clock, server, kept>>

\* getSecret: the server reads the secret.
ServerAnswers(u) ==
    /\ use[u].pc = "asked"
    /\ use' = [use EXCEPT ![u].pc = "answered", ![u].token = secret]
    /\ UNCHANGED <<clock, server, kept>>

\* Fault: the entry's age counts from the arrival.
KeptFromArrival(u) == clock

KeptFrom(u) == use[u].began

\* The answer arrives and replaces the entry, a newer one included.
Arrive(u) ==
    /\ use[u].pc = "answered"
    /\ kept' = [value |-> use[u].token, at |-> KeptFrom(u)]
    /\ use' = [use EXCEPT ![u].pc = "signed", ![u].entry = None]
    /\ UNCHANGED <<clock, server>>

\* The fetch fails: the network, a status, the service token's file, a body
\* without a value; a secret that is gone and one that is refused count alike.
\* The entry read at the start serves for twice its time.
Degrade(u) ==
    /\ use[u].pc \in {"asked", "answered"}
    /\ LET e == use[u].entry IN
       use' = [use EXCEPT ![u] =
          IF e # None /\ use[u].began < e.at + 2 * Ttl
          THEN [@ EXCEPT !.pc = "signed", !.entry = None, !.token = e.value]
          ELSE Over("unavailable")]
    /\ UNCHANGED <<clock, server, kept>>

\* The request is sent with the token; what it fails with leaves the entry.
Forward(u) ==
    /\ use[u].pc = "signed"
    /\ \E pc \in {"returned", "unavailable"} : use' = [use EXCEPT ![u] = Over(pc)]
    /\ UNCHANGED <<clock, server, kept>>

UseAgain(u) ==
    /\ use[u].pc \in {"returned", "refused", "unavailable"}
    /\ use' = [use EXCEPT ![u] = NewUse]
    /\ UNCHANGED <<clock, server, kept>>

\* clear, when the daemon stops: a fetch under way fills the cache again.
Clear ==
    /\ kept # None
    /\ kept' = None
    /\ UNCHANGED <<clock, server, use>>

Rotate ==
    /\ secret < MaxVersion
    /\ secret' = secret + 1
    /\ retired' = [retired EXCEPT ![secret] = clock]
    /\ UNCHANGED <<clock, kept, use>>

Tick ==
    /\ clock < MaxClock
    /\ clock' = clock + 1
    /\ UNCHANGED <<server, kept, use>>

Next ==
    \/ \E u \in Uses :
          \/ Refuse(u) \/ FreshHit(u) \/ Ask(u) \/ ServerAnswers(u) \/ Arrive(u)
          \/ Degrade(u) \/ Forward(u) \/ UseAgain(u)
    \/ Clear \/ Rotate \/ Tick

-----------------------------------------------------------------------------

\* A use that begins two lifetimes or more after a version was replaced does
\* not sign with it, whatever fetches were under way then, fail or arrive late
\* and out of order.
RetiredTokenUnused ==
    \A u \in Uses : use[u].pc = "signed" => use[u].began < retired[use[u].token] + 2 * Ttl
====
