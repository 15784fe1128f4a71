---- MODULE McpOAuth ----
(***************************************************************************)
(* bridge/core/mcp/oauth and mcp-dcr.js: how a bearer token of the gateway *)
(* comes to be.  A visit (GET /authorize) shows the consent page under a   *)
(* CSRF token kept in memory; a post of the form turns it into a code in   *)
(* the database; an exchange at the token endpoint turns the code into a   *)
(* token row.  Pages are posted twice, codes are exchanged twice, with the *)
(* right client, address and verifier or not, and the daemon restarts.     *)
(*                                                                         *)
(* The CSRF token of a visit and the code of a post are as unique as the   *)
(* random values they stand for, so each is named by where it comes from.  *)
(***************************************************************************)
EXTENDS Naturals

CONSTANTS Visits, Posts, Exchanges, None

VARIABLES
    csrf,      \* [Visits -> the _csrf entry of the page]
    post,      \* [Posts -> POST /authorize]
    code,      \* [Posts -> the code row the post made]
    exchange   \* [Exchanges -> POST /token]

oauthVars == <<csrf, post, code, exchange>>

CsrfStates == {"none", "kept", "late", "gone"}     \* late: past its expires_at
PostRecord == [pc : {"idle", "body", "create", "done"}, of : Visits \cup {None}]
CodeStates == {"none", "fresh", "late", "redeemed"}
ExchangeRecord == [pc : {"idle", "redeem", "check", "mint", "done"},
                   of : Posts \cup {None}, token : BOOLEAN]

Init ==
    /\ csrf = [v \in Visits |-> "none"]
    /\ post = [p \in Posts |-> [pc |-> "idle", of |-> None]]
    /\ code = [p \in Posts |-> "none"]
    /\ exchange = [x \in Exchanges |-> [pc |-> "idle", of |-> None, token |-> FALSE]]

-----------------------------------------------------------------------------
(* GET /authorize *)

\* A visit with a parameter that is missing or not allowed, a method that is
\* not S256, or nobody logged in, leaves nothing behind.  The others keep an
\* entry bound to the user of the session.
Consent(v) ==
    /\ csrf[v] = "none"
    /\ csrf' = [csrf EXCEPT ![v] = "kept"]
    /\ UNCHANGED <<post, code, exchange>>

\* The entry's expires_at passes; only a post finds out.
CsrfExpires(v) ==
    /\ csrf[v] = "kept"
    /\ csrf' = [csrf EXCEPT ![v] = "late"]
    /\ UNCHANGED <<post, code, exchange>>

-----------------------------------------------------------------------------
(* POST /authorize *)

Submit(p, v) ==
    /\ post[p].pc = "idle"
    /\ csrf[v] # "none"
    /\ post' = [post EXCEPT ![p] = [pc |-> "body", of |-> v]]
    /\ UNCHANGED <<csrf, code, exchange>>

Spent(v) == csrf' = [csrf EXCEPT ![v] = "gone"]

\* readBody: too long, or not there within five seconds.
PostUnread(p) ==
    /\ post[p].pc = "body"
    /\ post' = [post EXCEPT ![p].pc = "done"]
    /\ UNCHANGED <<csrf, code, exchange>>

\* A body without the token of an entry changes nothing; an entry that is
\* late, or whose user says no, is gone.
PostRefused(p) ==
    /\ post[p].pc = "body"
    /\ post' = [post EXCEPT ![p].pc = "done"]
    /\ UNCHANGED csrf \/ Spent(post[p].of)
    /\ UNCHANGED <<code, exchange>>

\* The entry is consumed before the code is made.
PostAllowed(p) ==
    /\ post[p].pc = "body"
    /\ csrf[post[p].of] = "kept"
    /\ Spent(post[p].of)
    /\ post' = [post EXCEPT ![p].pc = "create"]
    /\ UNCHANGED <<code, exchange>>

\* OauthCodeRepo.create, then the redirect with the code.
CreateCode(p) ==
    /\ post[p].pc = "create"
    /\ code' = [code EXCEPT ![p] = "fresh"]
    /\ post' = [post EXCEPT ![p].pc = "done"]
    /\ UNCHANGED <<csrf, exchange>>

\* The insert throws: an error page, and the entry is gone all the same.
CreateFails(p) ==
    /\ post[p].pc = "create"
    /\ post' = [post EXCEPT ![p].pc = "done"]
    /\ UNCHANGED <<csrf, code, exchange>>

CodeExpires(p) ==
    /\ code[p] = "fresh"
    /\ code' = [code EXCEPT ![p] = "late"]
    /\ UNCHANGED <<csrf, post, exchange>>

-----------------------------------------------------------------------------
(* POST /token *)

Goto(x, pc) == exchange' = [exchange EXCEPT ![x].pc = pc]

Exchange(x, p) ==
    /\ exchange[x].pc = "idle"
    /\ code[p] # "none"
    /\ exchange' = [exchange EXCEPT ![x] = [pc |-> "redeem", of |-> p, token |-> FALSE]]
    /\ UNCHANGED <<csrf, post, code>>

\* readBody fails, a field that is missing, another grant type.
ExchangeRefused(x) ==
    /\ exchange[x].pc = "redeem"
    /\ Goto(x, "done")
    /\ UNCHANGED <<csrf, post, code>>

\* Fault: the filter on redeemed_at is gone.
RedeemableTwice(p) == code[p] \in {"fresh", "redeemed"}

\* redeem: one findOneAndUpdate on a row that is not redeemed and not late.
Redeemable(p) == code[p] = "fresh"

Redeem(x) ==
    LET p == exchange[x].of IN
    /\ exchange[x].pc = "redeem"
    /\ IF Redeemable(p)
       THEN code' = [code EXCEPT ![p] = "redeemed"] /\ Goto(x, "check")
       ELSE UNCHANGED code /\ Goto(x, "done")
    /\ UNCHANGED <<csrf, post>>

\* verifyChallenge: the verifier's digest is the challenge, or it is not; a
\* verifier it cannot take counts as one that is not.
Fits == BOOLEAN

\* The client, the address and the verifier are compared after the code was
\* redeemed: one that does not fit has burnt it.
CheckBinding(x) ==
    /\ exchange[x].pc = "check"
    /\ \E fits \in Fits : Goto(x, IF fits THEN "mint" ELSE "done")
    /\ UNCHANGED <<csrf, post, code>>

\* McpTokenRepo.create inserts the row, or throws.
Made == BOOLEAN

\* The token is for the user the code was made for.
MintToken(x) ==
    /\ exchange[x].pc = "mint"
    /\ \E made \in Made :
           exchange' = [exchange EXCEPT ![x].pc = "done", ![x].token = made]
    /\ UNCHANGED <<csrf, post, code>>

\* McpDcrHandler.register: a token row without a code, for who knows the
\* registration secret and names a user there is.
Register(x) ==
    /\ exchange[x].pc = "idle"
    /\ \E made \in Made :
           exchange' = [exchange EXCEPT ![x].pc = "done", ![x].token = made]
    /\ UNCHANGED <<csrf, post, code>>

-----------------------------------------------------------------------------

\* The daemon restarts: the pages' entries and all handlers are gone.
Restart ==
    /\ csrf' = [v \in Visits |-> IF csrf[v] = "none" THEN "none" ELSE "gone"]
    /\ post' = [p \in Posts |-> [post[p] EXCEPT !.pc = IF @ = "idle" THEN @ ELSE "done"]]
    /\ exchange' = [x \in Exchanges |-> [exchange[x] EXCEPT !.pc = IF @ = "idle" THEN @ ELSE "done"]]
    /\ UNCHANGED code

Next ==
    \/ \E v \in Visits : Consent(v) \/ CsrfExpires(v)
    \/ \E p \in Posts : \/ \E v \in Visits : Submit(p, v)
                        \/ PostUnread(p) \/ PostRefused(p) \/ PostAllowed(p) \/ CreateCode(p)
                        \/ CreateFails(p) \/ CodeExpires(p)
    \/ \E x \in Exchanges : \/ \E p \in Posts : Exchange(x, p)
                            \/ ExchangeRefused(x) \/ Redeem(x)
                            \/ CheckBinding(x) \/ MintToken(x) \/ Register(x)
    \/ Restart

-----------------------------------------------------------------------------

TokensOf(v) ==
    {x \in Exchanges : exchange[x].token /\ exchange[x].of # None /\ post[exchange[x].of].of = v}

\* One page a user said yes on never becomes two tokens, however often the
\* form is posted, the code is exchanged, and the daemon restarts between.
OneTokenPerConsent == \A v \in Visits : \A x, y \in TokensOf(v) : x = y
====
