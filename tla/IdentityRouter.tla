--------------------------- MODULE IdentityRouter ---------------------------
(***************************************************************************)
(* bridge/core/identity-router.js over the repositories of bridge/core/db: *)
(* who a chat account is.  Slack messages, web requests and link codes     *)
(* call it concurrently; every query is an await, and what a call found in *)
(* one query may have changed by the next.  The schemas declare two unique *)
(* indexes, on the web account of a user and on the key of a channel       *)
(* identity.  The bridge connects with autoIndex false (db/connect.js:28)  *)
(* and builds neither: a database has them when somebody else built them.  *)
(*                                                                         *)
(* A call creates at most one user, one identity and one code, so they are *)
(* named by the call that created them.  The identity row of the web       *)
(* channel is keyed by the web account itself.  Where several rows match,  *)
(* a query may find any of them.                                           *)
(***************************************************************************)
EXTENDS Naturals

CONSTANTS
    MaxCalls,    \* a bound on the calls of the router
    Externals,   \* chat accounts: (channel, external_id, external_team_id)
    Prias,       \* web accounts: pria_user_id
    None

Calls == 1 .. MaxCalls
Keys == Externals \cup Prias

User == [pria : Prias \cup {None}, ns : {"temp", "own"}]
Ident == [key : Keys, user : Calls, method : {"inferred", "oauth", "magic_code"}]
Code == [user : Calls, expired : BOOLEAN, redeemedBy : Externals \cup {None}]
Operation == [name : {"resolve", "web", "issue", "redeem"}, key : Keys \cup {None},
              pria : Prias \cup {None}, code : Calls \cup {None}]

ASSUME IdentityAssumption ==
    /\ MaxCalls \in Nat
    /\ Externals \cap Prias = {}
    /\ None \notin Keys \cup Calls
    /\ None \notin User \cup Ident \cup Code \cup Operation

VARIABLES
    indexed,  \* the unique indexes of the schemas are there; it never changes
    users,    \* synaps_users
    idents,   \* synaps_channel_identities
    codes,    \* synaps_link_codes
    pc,       \* call -> the query it awaits, or how it settled
    op,       \* call -> the operation, its key, its web account and its code
    user,     \* call -> the user document it holds
    ns,       \* call -> the memory_namespace in that document
    hit,      \* call -> TRUE when it found an identity of the key
    late      \* call -> TRUE when its code was redeemed before it was called

vars == <<indexed, users, idents, codes, pc, op, user, ns, hit, late>>

Refusals == {"unknown", "already_redeemed", "expired"}
Settled == Refusals \cup {"ok", "error"}
Queries == {"findIdentity", "loadUser", "findPria", "createUser", "nameUser", "upsert",
            "insert", "createCode", "findCode", "findExisting", "markRedeemed"}

Op(name, key, pria, code) == [name |-> name, key |-> key, pria |-> pria, code |-> code]

Init ==
    /\ indexed \in BOOLEAN
    /\ users = [c \in Calls |-> None]
    /\ idents = [c \in Calls |-> None]
    /\ codes = [c \in Calls |-> None]
    /\ pc = [c \in Calls |-> "idle"]
    /\ op = [c \in Calls |-> None]
    /\ user = [c \in Calls |-> None]
    /\ ns = [c \in Calls |-> None]
    /\ hit = [c \in Calls |-> FALSE]
    /\ late = [c \in Calls |-> FALSE]

\* The accounts that have an identity, and the users an account is bound to.
Rows == {i \in Calls : idents[i] # None}
Known == {idents[i].key : i \in Rows}
Bound(k) == {idents[i].user : i \in {j \in Rows : idents[j].key = k}}

\* The users of a web account.
UsersOf(p) == {u \in Calls : users[u] # None /\ users[u].pria = p}

-----------------------------------------------------------------------------
\* Calls are numbered in the order they are made.
Begin(c, o, query) ==
    /\ pc[c] = "idle" /\ \A d \in Calls : d < c => pc[d] # "idle"
    /\ pc' = [pc EXCEPT ![c] = query]
    /\ op' = [op EXCEPT ![c] = o]
    /\ UNCHANGED <<users, idents, codes, user, ns, hit>>

Resolve(c) ==
    /\ \E k \in Externals : Begin(c, Op("resolve", k, None, None), "findIdentity")
    /\ UNCHANGED late

ResolveWebUser(c) ==
    /\ \E p \in Prias : Begin(c, Op("web", p, p, None), "findPria")
    /\ UNCHANGED late

IssueLinkCode(c) ==
    /\ \E p \in Prias : Begin(c, Op("issue", None, p, None), "findPria")
    /\ UNCHANGED late

\* /synaps link <code>, or the link_code_redeem op of the control socket.
RedeemLinkCode(c) ==
    \E k \in Externals, d \in Calls :
        /\ d < c
        /\ Begin(c, Op("redeem", k, None, d), "findCode")
        /\ late' = [late EXCEPT ![c] = codes[d] # None /\ codes[d].redeemedBy # None]

-----------------------------------------------------------------------------
Goto(c, query) == pc' = [pc EXCEPT ![c] = query]
Hold(c, u) ==
    /\ user' = [user EXCEPT ![c] = u]
    /\ ns' = [ns EXCEPT ![c] = users[u].ns]

\* Fault: the lookup leaves the team out, so that any chat account matches.
FindAnyIdentity(c) ==
    /\ pc[c] = "findIdentity"
    /\ \/ /\ Known \cap Externals = {}
          /\ Goto(c, "createUser")
          /\ UNCHANGED <<user, hit>>
       \/ \E u \in UNION {Bound(k) : k \in Externals} :
             /\ Goto(c, "loadUser")
             /\ user' = [user EXCEPT ![c] = u]
             /\ hit' = [hit EXCEPT ![c] = TRUE]
    /\ UNCHANGED <<users, idents, codes, op, ns, late>>

\* resolve: channelIdentityRepo.findByChannelId.
FindIdentity(c) ==
    /\ pc[c] = "findIdentity"
    /\ \/ /\ op[c].key \notin Known
          /\ Goto(c, "createUser")
          /\ UNCHANGED <<user, hit>>
       \/ \E u \in Bound(op[c].key) :
             /\ Goto(c, "loadUser")
             /\ user' = [user EXCEPT ![c] = u]
             /\ hit' = [hit EXCEPT ![c] = TRUE]
    /\ UNCHANGED <<users, idents, codes, op, ns, late>>

\* resolve, on a hit: userRepo.findById.
LoadUser(c) ==
    /\ pc[c] = "loadUser"
    /\ Hold(c, user[c])
    /\ Goto(c, "ok")
    /\ UNCHANGED <<users, idents, codes, op, hit, late>>

\* resolveWebUser and issueLinkCode: userRepo.findByPriaUserId.
FindPria(c) ==
    /\ pc[c] = "findPria"
    /\ IF UsersOf(op[c].pria) # {}
       THEN /\ \E u \in UsersOf(op[c].pria) : Hold(c, u)
            /\ Goto(c, IF op[c].name = "web" THEN "upsert" ELSE "createCode")
       ELSE /\ Goto(c, "createUser")
            /\ UNCHANGED <<user, ns>>
    /\ UNCHANGED <<users, idents, codes, op, hit, late>>

\* userRepo.create, first step: insert under a placeholder namespace.  The
\* unique index, where it is, refuses a second user of a web account.
CreateUser(c) ==
    /\ pc[c] = "createUser"
    /\ IF indexed /\ op[c].pria # None /\ UsersOf(op[c].pria) # {}
       THEN /\ Goto(c, "error")
            /\ UNCHANGED <<users, user>>
       ELSE /\ users' = [users EXCEPT ![c] = [pria |-> op[c].pria, ns |-> "temp"]]
            /\ user' = [user EXCEPT ![c] = c]
            /\ Goto(c, "nameUser")
    /\ UNCHANGED <<idents, codes, op, ns, hit, late>>

\* userRepo.create, second step: memory_namespace = u_<_id>.
NameUser(c) ==
    /\ pc[c] = "nameUser"
    /\ users' = [users EXCEPT ![c].ns = "own"]
    /\ ns' = [ns EXCEPT ![c] = "own"]
    /\ Goto(c, IF op[c].name = "issue" THEN "createCode" ELSE "upsert")
    /\ UNCHANGED <<idents, codes, op, user, hit, late>>

AfterUpsert(c) == IF op[c].name = "redeem" THEN "markRedeemed" ELSE "ok"

LinkMethod(c) ==
    CASE op[c].name = "resolve" -> "inferred"
      [] op[c].name = "web" -> "oauth"
      [] OTHER -> "magic_code"

\* Fault: an identity that is there is bound again, its link_method kept.
UpsertRebinds(c) ==
    /\ pc[c] = "upsert"
    /\ IF op[c].key \notin Known
       THEN /\ Goto(c, "insert")
            /\ UNCHANGED idents
       ELSE /\ \E i \in Rows : idents[i].key = op[c].key /\ idents' = [idents EXCEPT ![i].user = user[c]]
            /\ Goto(c, AfterUpsert(c))
    /\ UNCHANGED <<users, codes, op, user, ns, hit, late>>

\* upsertExternal: findOne.  An identity that is there keeps its user and its
\* link_method, only its date and display name are written.
Upsert(c) ==
    /\ pc[c] = "upsert"
    /\ Goto(c, IF op[c].key \notin Known THEN "insert" ELSE AfterUpsert(c))
    /\ UNCHANGED <<users, idents, codes, op, user, ns, hit, late>>

\* upsertExternal: create.  The unique index, where it is, refuses a key that
\* has appeared since the findOne.
Insert(c) ==
    /\ pc[c] = "insert"
    /\ IF indexed /\ op[c].key \in Known
       THEN /\ Goto(c, "error")
            /\ UNCHANGED idents
       ELSE /\ idents' = [idents EXCEPT ![c] = [key |-> op[c].key, user |-> user[c],
                                               method |-> LinkMethod(c)]]
            /\ Goto(c, AfterUpsert(c))
    /\ UNCHANGED <<users, codes, op, user, ns, hit, late>>

\* linkCodeRepo.create.
CreateCode(c) ==
    /\ pc[c] = "createCode"
    /\ codes' = [codes EXCEPT ![c] = [user |-> user[c], expired |-> FALSE, redeemedBy |-> None]]
    /\ Goto(c, "ok")
    /\ UNCHANGED <<users, idents, op, user, ns, hit, late>>

\* Fault: redeemed_at is not looked at.
FindCodeUnchecked(c) ==
    /\ pc[c] = "findCode"
    /\ LET code == codes[op[c].code] IN
       /\ Goto(c, CASE code = None -> "unknown"
                    [] code # None /\ code.expired -> "expired"
                    [] OTHER -> "findExisting")
       /\ user' = [user EXCEPT ![c] = IF code = None THEN None ELSE code.user]
    /\ UNCHANGED <<users, idents, codes, op, ns, hit, late>>

\* redeemLinkCode: linkCodeRepo.findByCode and the three refusals.
FindCode(c) ==
    /\ pc[c] = "findCode"
    /\ LET code == codes[op[c].code] IN
       /\ Goto(c, CASE code = None -> "unknown"
                    [] code # None /\ code.redeemedBy # None -> "already_redeemed"
                    [] code # None /\ code.redeemedBy = None /\ code.expired -> "expired"
                    [] OTHER -> "findExisting")
       /\ user' = [user EXCEPT ![c] = IF code = None THEN None ELSE code.user]
    /\ UNCHANGED <<users, idents, codes, op, ns, hit, late>>

\* redeemLinkCode: the identity the key has now, for was_relinked.
FindExisting(c) ==
    /\ pc[c] = "findExisting"
    /\ hit' = [hit EXCEPT ![c] = op[c].key \in Known]
    /\ Goto(c, "upsert")
    /\ UNCHANGED <<users, idents, codes, op, user, ns, late>>

\* linkCodeRepo.markRedeemed: findOneAndUpdate({ code }), whatever its state.
MarkRedeemed(c) ==
    /\ pc[c] = "markRedeemed"
    /\ codes' = IF codes[op[c].code] = None THEN codes
                ELSE [codes EXCEPT ![op[c].code].redeemedBy = op[c].key]
    /\ Goto(c, "ok")
    /\ UNCHANGED <<users, idents, op, user, ns, hit, late>>

\* The query a call awaits is rejected, and the call with it.
QueryFails(c) ==
    /\ pc[c] \in Queries
    /\ Goto(c, "error")
    /\ UNCHANGED <<users, idents, codes, op, user, ns, hit, late>>

\* Time passes expires_at, and the TTL index removes the code some time later.
Expire(d) ==
    /\ codes[d] # None /\ ~codes[d].expired
    /\ codes' = [codes EXCEPT ![d].expired = TRUE]
    /\ UNCHANGED <<users, idents, pc, op, user, ns, hit, late>>

RemoveExpired(d) ==
    /\ codes[d] # None /\ codes[d].expired
    /\ codes' = [codes EXCEPT ![d] = None]
    /\ UNCHANGED <<users, idents, pc, op, user, ns, hit, late>>

-----------------------------------------------------------------------------
Call(c) == Resolve(c) \/ ResolveWebUser(c) \/ IssueLinkCode(c) \/ RedeemLinkCode(c)

Query(c) ==
    \/ FindIdentity(c) \/ LoadUser(c) \/ FindPria(c) \/ CreateUser(c) \/ NameUser(c)
    \/ Upsert(c) \/ Insert(c) \/ CreateCode(c) \/ FindCode(c) \/ FindExisting(c)
    \/ MarkRedeemed(c) \/ QueryFails(c)

Next ==
    /\ \/ \E c \in Calls : Call(c) \/ Query(c)
       \/ \E d \in Calls : Expire(d) \/ RemoveExpired(d)
    /\ UNCHANGED indexed

Spec == Init /\ [][Next]_vars

-----------------------------------------------------------------------------
TypeOK ==
    /\ indexed \in BOOLEAN
    /\ users \in [Calls -> User \cup {None}]
    /\ idents \in [Calls -> Ident \cup {None}]
    /\ codes \in [Calls -> Code \cup {None}]
    /\ pc \in [Calls -> {"idle"} \cup Queries \cup Settled]
    /\ op \in [Calls -> Operation \cup {None}]
    /\ user \in [Calls -> Calls \cup {None}]
    /\ ns \in [Calls -> {"temp", "own", None}]
    /\ hit \in [Calls -> BOOLEAN]
    /\ late \in [Calls -> BOOLEAN]

Is(c, name) == op[c] # None /\ op[c].name = name

\* "never overwrites synaps_user_id or link_method" (channel-identity-repo.js:91):
\* whoever races whom, no row changes, and an account loses no user it is bound
\* to; nor does it get a second one where the index is.
BindingIsKept ==
    [][/\ \A i \in Rows : idents'[i] = idents[i]
       /\ \A k \in Keys : indexed /\ Bound(k) # {} => Bound(k)' = Bound(k)]_vars

\* An inferred identity belongs to a synthetic user, one bound by OAuth or a
\* link code to the owner of a web account, and the web identity of an account
\* to its own user (identity-router.js:108, :155, :253).
MethodMatchesUser ==
    \A i \in Rows :
       LET u == users[idents[i].user] IN
       /\ u # None
       /\ idents[i].method = "inferred" <=> u.pria = None
       /\ idents[i].key \in Prias => u.pria = idents[i].key

\* A web account has let a chat account in: it issued a code that the chat
\* account has presented.
LetIn(k, p) ==
    \E d \in Calls : Is(d, "redeem") /\ op[d].key = k /\ op[op[d].code] # None
                     /\ Is(op[d].code, "issue") /\ op[op[d].code].pria = p

\* The user a call works with is the caller's own, whichever rows its queries
\* find, whoever has made rows for the same account meanwhile and whether or not
\* the database refuses them: a web call's is a user of its web account (:126,
\* :181), a redemption's is one of the account that issued the code (:238), and a
\* message's is a synthetic one or that of a web account that let the chat
\* account in (:92), bound to the chat account when the message is linked.
ActsForItsOwn ==
    \A c \in Calls : op[c] # None /\ user[c] # None =>
       LET owner == users[user[c]].pria IN
       /\ op[c].name \in {"web", "issue"} => owner = op[c].pria
       /\ op[c].name = "redeem" => owner # None /\ LetIn(op[c].key, owner)
       /\ op[c].name = "resolve" =>
             /\ owner = None \/ LetIn(op[c].key, owner)
             /\ hit[c] => user[c] \in Bound(op[c].key)

\* Calls for one web account that found or created its user, resolveWebUser and
\* issueLinkCode alike, hold the same one (:142, :183).
WebUsersAgree ==
    \A c, d \in Calls :
       /\ op[c] # None /\ op[d] # None
       /\ op[c].pria # None /\ op[c].pria = op[d].pria
       /\ user[c] # None /\ user[d] # None
       => user[c] = user[d]

\* "The synapsUser is the authoritative account for this channel+id" (:79): what
\* a resolve that reports isLinked returns is the only user of the key, also
\* after whatever is redeemed for it later (no redemption binds it again, see
\* RedemptionBinds).
LinkedIsAuthoritative ==
    \A c \in Calls : Is(c, "resolve") /\ pc[c] = "ok" /\ hit[c] => Bound(op[c].key) = {user[c]}

\* "the unique index protects us" (channel-identity-repo.js:95), in a database
\* that has the two indexes: whichever calls miss and create at once, an account
\* is a single user's.
IndexesUnite == indexed => WebUsersAgree /\ LinkedIsAuthoritative

\* A redemption that begins after another of the same code is over never
\* succeeds (:230).
LateRedemptionRefused ==
    \A c \in Calls : late[c] => pc[c] \notin {"findExisting", "upsert", "insert", "markRedeemed", "ok"}

\* A code is marked redeemed by an account that has an identity, maybe another
\* than its own (see RedemptionBinds): a redemption that fails half way leaves the
\* code usable, not consumed (:252, :262).
SpentOnABinding ==
    \A d \in Calls : codes[d] # None /\ codes[d].redeemedBy # None
                      => codes[d].redeemedBy \in Known

\* What a code is good for: it is spent by an account that has an identity, and
\* is refused to one that asks for it afterwards, whichever call fails or
\* overtakes another.
CodesAreSpent == LateRedemptionRefused /\ SpentOnABinding

(***************************************************************************)
(* The inductive invariant: which operation can be at which query, and     *)
(* what is known of the user document it holds there.                      *)
(***************************************************************************)
OpShape(o) ==
    \/ o.name = "resolve" /\ o.key \in Externals /\ o.pria = None
    \/ o.name = "web" /\ o.key = o.pria /\ o.pria \in Prias
    \/ o.name = "issue" /\ o.pria \in Prias
    \/ o.name = "redeem" /\ o.key \in Externals /\ o.code \in Calls /\ o.pria = None

Route(name) ==
    CASE name = "resolve" -> {"findIdentity", "loadUser", "createUser", "nameUser", "upsert", "insert"}
      [] name = "web" -> {"findPria", "createUser", "nameUser", "upsert", "insert"}
      [] name = "issue" -> {"findPria", "createUser", "nameUser", "createCode"}
      [] OTHER -> {"findCode", "findExisting", "upsert", "insert", "markRedeemed"}

Shape ==
    \A c \in Calls :
       /\ op[c] = None <=> pc[c] = "idle"
       /\ op[c] # None => OpShape(op[c]) /\ pc[c] \in Route(op[c].name) \cup Settled

UserRows ==
    /\ \A c \in Calls : pc[c] \in {"idle", "findIdentity", "findPria", "createUser"}
                         => users[c] = None
    /\ indexed => \A c, d \in Calls :
          users[c] # None /\ users[d] # None /\ users[c].pria # None
          /\ users[c].pria = users[d].pria => c = d

Holds ==
    \A c \in Calls :
       /\ pc[c] \in {"nameUser", "upsert", "insert", "createCode", "loadUser", "findExisting"}
             => user[c] \in Calls
       /\ pc[c] \in {"idle", "findIdentity"} => ~hit[c]
       /\ pc[c] = "nameUser" => user[c] = c
       /\ pc[c] \in {"createUser", "nameUser", "upsert", "insert"} /\ Is(c, "resolve") => ~hit[c]
       /\ user[c] # None =>
            /\ op[c] # None
            /\ users[user[c]] # None
            /\ op[c].pria # None => users[user[c]].pria = op[c].pria
            /\ op[c].name = "redeem" => users[user[c]].pria # None
            /\ op[c].name = "resolve" /\ ~hit[c] => users[user[c]].pria = None

CodeRows ==
    \A d \in Calls : codes[d] # None =>
       /\ Is(d, "issue") /\ users[codes[d].user] # None
       /\ users[codes[d].user].pria = op[d].pria

IdentRows ==
    /\ \A i \in Rows : pc[i] \in {"markRedeemed"} \cup Settled
    /\ indexed => \A i, j \in Rows : idents[i].key = idents[j].key => i = j

\* Who works with a user of a web account has been let in by it.
Entitled ==
    \A k \in Externals, p \in Prias :
       /\ \A c \in Calls : Is(c, "redeem") /\ op[c].key = k /\ user[c] # None
                           /\ users[user[c]].pria = p => LetIn(k, p)
       /\ \A i \in Rows : idents[i].key = k /\ users[idents[i].user].pria = p => LetIn(k, p)

Linked ==
    \A c \in Calls : Is(c, "resolve") /\ hit[c] =>
       \E i \in Rows : idents[i].key = op[c].key /\ idents[i].user = user[c]

\* A code is there only once the call that issues it is over, so none comes back;
\* a late redemption finds its code spent or gone; one about to spend its code
\* has bound its key.
CodeUse ==
    /\ \A d \in Calls : codes[d] # None => pc[d] = "ok"
    /\ \A c \in Calls : late[c] =>
          /\ Is(c, "redeem") /\ pc[op[c].code] = "ok"
          /\ pc[c] \in {"findCode", "error"} \cup Refusals
          /\ pc[c] = "findCode" => \/ codes[op[c].code] = None
                                  \/ codes[op[c].code].redeemedBy # None
    /\ \A c \in Calls : pc[c] = "markRedeemed" => op[c].key \in Known

IInv == TypeOK /\ Shape /\ UserRows /\ Holds /\ CodeRows /\ MethodMatchesUser /\ IdentRows
        /\ Entitled /\ Linked /\ CodeUse /\ SpentOnABinding

-----------------------------------------------------------------------------
\* "Link code is single-use" (docs/plans/2026-05-10-phase-3-summary.md:98).
SingleUse ==
    \A c, d \in Calls :
       /\ Is(c, "redeem") /\ Is(d, "redeem") /\ c # d
       /\ pc[c] = "ok" /\ pc[d] = "ok"
       => op[c].code # op[d].code

(***************************************************************************)
(* Three more promises the code does not keep, indexed or not.  No run of  *)
(* the project checks them; README.md gives the schedules.                 *)
(***************************************************************************)

\* "Upsert the channel_identity to bind to the code's SynapsUser" (:252); a test
\* against a mock repository says that it "rebinds the channel identity to the
\* new user after relinking" (identity-router.test.js:743).
RedemptionBinds ==
    \A c \in Calls : Is(c, "redeem") /\ pc[c] = "ok" => user[c] \in Bound(op[c].key)

\* memory_namespace "is always consistent with the stored `_id`"
\* (user-repo.js:38) in the document a caller is given.
NamespaceIsOwn ==
    \A c \in Calls : op[c] # None /\ op[c].name \in {"resolve", "web"} /\ pc[c] = "ok"
                      => ns[c] = "own"

\* isLinked false: "we just created a synthetic SynapsUser AND an 'inferred'
\* channel_identity" (:80).
UnlinkedIsBound ==
    \A c \in Calls : Is(c, "resolve") /\ pc[c] = "ok" /\ ~hit[c] => user[c] \in Bound(op[c].key)
=============================================================================
