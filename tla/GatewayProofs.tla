--------------------------- MODULE GatewayProofs ---------------------------
(***************************************************************************)
(* Theorems about the parts of MCGateway, for every value of the constants *)
(* and over its specification: a step of another part leaves the variables *)
(* of this one alone.                                                      *)
(***************************************************************************)
EXTENDS MCGateway, TLAPS

(* The rate limiter *)

LEMMA LimiterNumbers ==
    /\ Capacity \in Nat /\ Capacity > 0
    /\ IdleAge \in Nat
    /\ None \notin [tokens : Nat, last : Nat]
  BY LimiterAssumption, ClockAssumption

Bucket == [tokens : 0 .. Capacity, last : 0 .. time]

LimiterInv ==
    /\ time \in Nat
    /\ bucket \in [Limiter!Keys -> Bucket \cup {None}]
    /\ eager \in [Limiter!Keys -> 0 .. Capacity]
    /\ LazyIsEager

\* A bucket that is looked at holds what it would hold without the look.
LEMMA LookedAt ==
  ASSUME time \in Nat, NEW b \in Bucket \cup {None}
  PROVE  /\ Limiter!Refilled(b) \in Bucket
         /\ Limiter!Refilled(Limiter!Refilled(b)).tokens = Limiter!Refilled(b).tokens
         /\ Limiter!Refilled(b).last = time
<1>1. CASE b = None
  BY <1>1, LimiterNumbers DEF Bucket, Limiter!Refilled, Limiter!Least
<1>2. CASE b # None
  BY <1>2, LimiterNumbers DEF Bucket, Limiter!Refilled, Limiter!Least
<1> QED
  BY <1>1, <1>2

LEMMA OneTaken ==
  ASSUME time \in Nat, NEW b \in Bucket, b.last = time, b.tokens >= 1
  PROVE  /\ [b EXCEPT !.tokens = @ - 1] \in Bucket
         /\ Limiter!Refilled([b EXCEPT !.tokens = @ - 1]).tokens = b.tokens - 1
<1>1. [b EXCEPT !.tokens = @ - 1] = [tokens |-> b.tokens - 1, last |-> time]
  BY DEF Bucket
<1>2. [tokens |-> b.tokens - 1, last |-> time] \in Bucket
  BY LimiterNumbers DEF Bucket
<1>3. Limiter!Refilled([tokens |-> b.tokens - 1, last |-> time]).tokens = b.tokens - 1
  BY <1>2, LimiterNumbers DEF Bucket, Limiter!Refilled, Limiter!Least
<1> QED
  BY <1>1, <1>2, <1>3

\* A pruned bucket was full.
LEMMA PrunedIsFull ==
  ASSUME time \in Nat, NEW b \in Bucket \cup {None}, Limiter!Prunable(b)
  PROVE  Limiter!Refilled(None).tokens = Limiter!Refilled(b).tokens
  BY LimiterNumbers DEF Bucket, Limiter!Prunable, Limiter!Refilled, Limiter!Least

LEMMA InstantPasses ==
  ASSUME time \in Nat, NEW b \in Bucket \cup {None}, time' = time + 1
  PROVE  b \in Bucket' \cup {None}
         /\ Limiter!Refilled(b)'.tokens = Limiter!Least(Capacity, Limiter!Refilled(b).tokens + 1)
<1>1. CASE b = None
  BY <1>1, LimiterNumbers DEF Bucket, Limiter!Refilled, Limiter!Least
<1>2. CASE b # None
  BY <1>2, LimiterNumbers DEF Bucket, Limiter!Refilled, Limiter!Least
<1> QED
  BY <1>1, <1>2

LEMMA LimiterCheck ==
  ASSUME LimiterInv, NEW ks \in SUBSET Limiter!Keys, Limiter!Check(ks)
  PROVE  LimiterInv'
<1> DEFINE looked == [k \in Limiter!Keys |-> IF k \in ks THEN Limiter!Refilled(bucket[k])
                                                         ELSE bucket[k]]
           ok == \A k \in ks : looked[k].tokens >= 1
           taken == [k \in Limiter!Keys |-> IF k \in ks THEN [looked[k] EXCEPT !.tokens = @ - 1]
                                                        ELSE looked[k]]
<1>1. /\ time' = time /\ time \in Nat
      /\ \A k \in Limiter!Keys : bucket[k] \in Bucket \cup {None}
      /\ \A k \in Limiter!Keys : eager[k] \in 0 .. Capacity /\ Limiter!Refilled(bucket[k]).tokens = eager[k]
  BY DEF Limiter!Check, LimiterInv, LazyIsEager, Limiter!LazyIsEager
<1>2. ASSUME NEW k \in Limiter!Keys
      PROVE  looked[k] \in Bucket \cup {None} /\ Limiter!Refilled(looked[k]).tokens = eager[k]
             /\ (k \in ks => looked[k] \in Bucket /\ looked[k].last = time /\ looked[k].tokens = eager[k])
  BY <1>1, LookedAt
<1>3. CASE ~ok
  <2>1. bucket' = looked /\ UNCHANGED eager
    BY <1>3 DEF Limiter!Check
  <2> HIDE DEF looked
  <2>2. ASSUME NEW k \in Limiter!Keys
        PROVE  bucket'[k] \in Bucket' \cup {None} /\ Limiter!Refilled(bucket[k])'.tokens = eager'[k]
    BY <1>1, <1>2, <2>1 DEF Bucket, Limiter!Refilled
  <2>3. bucket' = [k \in Limiter!Keys |-> bucket'[k]]
    BY <2>1 DEF looked
  <2> QED
    BY <1>1, <2>1, <2>2, <2>3 DEF LimiterInv, LazyIsEager, Limiter!LazyIsEager
<1>4. CASE ok
  <2>1. /\ bucket' = Limiter!Pruned(taken)
        /\ eager' = [k \in Limiter!Keys |-> IF k \in ks THEN eager[k] - 1 ELSE eager[k]]
    BY <1>4 DEF Limiter!Check
  <2>2. ASSUME NEW k \in Limiter!Keys
        PROVE  /\ taken[k] \in Bucket \cup {None}
               /\ Limiter!Refilled(taken[k]).tokens = eager'[k]
               /\ eager'[k] \in 0 .. Capacity
    <3>1. CASE k \in ks
      <4>1. looked[k] \in Bucket /\ looked[k].last = time /\ looked[k].tokens = eager[k]
            /\ looked[k].tokens >= 1
        BY <1>2, <1>4, <3>1
      <4>2. taken[k] = [looked[k] EXCEPT !.tokens = @ - 1]
        BY <3>1
      <4> HIDE DEF looked, taken
      <4> QED
        BY <1>1, <2>1, <3>1, <4>1, <4>2, OneTaken, LimiterNumbers
    <3>2. CASE k \notin ks
      BY <1>1, <1>2, <2>1, <3>2
    <3> QED
      BY <3>1, <3>2
  <2> HIDE DEF taken, looked
  <2>3. ASSUME NEW k \in Limiter!Keys PROVE bucket'[k] \in {taken[k], None}
                                         /\ (bucket'[k] # taken[k] => Limiter!Prunable(taken[k]))
    BY <2>1 DEF Limiter!Pruned
  <2>4. ASSUME NEW k \in Limiter!Keys
        PROVE  bucket'[k] \in Bucket' \cup {None} /\ Limiter!Refilled(bucket[k])'.tokens = eager'[k]
    <3>1. Limiter!Refilled(bucket'[k]).tokens = eager'[k]
      BY <1>1, <2>2, <2>3, PrunedIsFull
    <3> QED
      BY <1>1, <2>2, <2>3, <3>1 DEF Bucket, Limiter!Refilled
  <2>5. bucket' = [k \in Limiter!Keys |-> bucket'[k]]
    BY <2>1 DEF Limiter!Pruned, taken
  <2> QED
    BY <1>1, <2>1, <2>2, <2>4, <2>5 DEF LimiterInv, LazyIsEager, Limiter!LazyIsEager
<1> QED
  BY <1>3, <1>4

LEMMA LimiterStep == LimiterInv /\ [Limiter!Next]_limiterVars => LimiterInv'
<1> SUFFICES ASSUME LimiterInv, [Limiter!Next]_limiterVars PROVE LimiterInv'
  OBVIOUS
<1>1. ASSUME NEW ts \in Limiter!AtMostOne(Tokens), NEW is \in Limiter!AtMostOne(Ips),
             Limiter!Check(ts \cup is)
      PROVE  LimiterInv'
  <2>1. ts \cup is \in SUBSET Limiter!Keys
    BY DEF Limiter!AtMostOne, Limiter!Keys
  <2> QED
    BY <1>1, <2>1, LimiterCheck
<1>2. CASE Limiter!Pass
  <2>1. /\ time' = time + 1 /\ time \in Nat /\ UNCHANGED bucket
        /\ eager' = [k \in Limiter!Keys |-> Limiter!Least(Capacity, eager[k] + 1)]
    BY <1>2 DEF Limiter!Pass, LimiterInv
  <2>2. ASSUME NEW k \in Limiter!Keys
        PROVE  /\ bucket'[k] \in Bucket' \cup {None}
               /\ Limiter!Refilled(bucket[k])'.tokens = eager'[k]
               /\ eager'[k] \in 0 .. Capacity
    <3>1. bucket[k] \in Bucket \cup {None} /\ Limiter!Refilled(bucket[k]).tokens = eager[k]
          /\ eager[k] \in 0 .. Capacity
      BY DEF LimiterInv, LazyIsEager, Limiter!LazyIsEager
    <3>2. eager'[k] \in 0 .. Capacity
      BY <2>1, <3>1, LimiterNumbers DEF Limiter!Least
    <3> QED
      BY <2>1, <3>1, <3>2, InstantPasses DEF Bucket, Limiter!Refilled
  <2> QED
    BY <2>1, <2>2 DEF LimiterInv, LazyIsEager, Limiter!LazyIsEager
<1>3. CASE UNCHANGED limiterVars
  BY <1>3 DEF limiterVars, LimiterInv, LazyIsEager, Limiter!LazyIsEager, Limiter!Refilled, Bucket
<1> QED
  BY <1>1, <1>2, <1>3 DEF Limiter!Next

\* For every capacity, idle age, interval and set of keys, lazily refilled and
\* pruned buckets admit what buckets refilled at every instant would.
THEOREM LazyBucketsAreEager == Spec => []LazyIsEager
<1>1. Init => LimiterInv
  BY LimiterNumbers DEF Init, Limiter!Init, LimiterInv, LazyIsEager, Limiter!LazyIsEager,
     Limiter!Refilled, Bucket
<1>2. [Next]_vars => [Limiter!Next]_limiterVars
  BY DEF Next, vars
<1>3. LimiterInv => LazyIsEager
  BY DEF LimiterInv
<1> QED
  BY <1>1, <1>2, <1>3, LimiterStep, PTL DEF Spec
-----------------------------------------------------------------------------
(* Consents, codes and tokens *)

\* A post that was let through: it makes a code, or has made one.
Allowed(p) == post[p].pc = "create" \/ code[p] # "none"

\* An exchange that redeemed a code: it makes a token, or has made one.
Redeemed(x) ==
    \/ exchange[x].pc \in {"check", "mint"}
    \/ exchange[x].token /\ exchange[x].of # None

OAuthType ==
    /\ csrf \in [Visits -> OAuth!CsrfStates]
    /\ post \in [Posts -> OAuth!PostRecord]
    /\ code \in [Posts -> OAuth!CodeStates]
    /\ exchange \in [Exchanges -> OAuth!ExchangeRecord]

\* The entry of a page is gone once a post was let through, so only one is.
PostsAreApart ==
    /\ \A p \in Posts :
          /\ post[p].pc = "body" => post[p].of \in Visits
          /\ code[p] # "none" => post[p].pc = "done"
          /\ Allowed(p) => post[p].of \in Visits /\ csrf[post[p].of] = "gone"
    /\ \A p, q \in Posts : p # q /\ Allowed(p) /\ Allowed(q) => post[p].of # post[q].of

\* A code is redeemed once and stays so.
ExchangesAreApart ==
    /\ \A x \in Exchanges :
          /\ exchange[x].token => exchange[x].pc = "done"
          /\ exchange[x].pc = "idle" => exchange[x].of = None
          /\ exchange[x].pc = "redeem" => exchange[x].of \in Posts
          /\ Redeemed(x) => exchange[x].of \in Posts /\ code[exchange[x].of] = "redeemed"
    /\ \A x, y \in Exchanges :
          x # y /\ Redeemed(x) /\ Redeemed(y) => exchange[x].of # exchange[y].of

OAuthInv == OAuthType /\ PostsAreApart /\ ExchangesAreApart

LEMMA OAuthInit == OAuth!Init => OAuthInv
<1> SUFFICES ASSUME OAuth!Init PROVE OAuthInv
  OBVIOUS
<1>1. OAuthType
  BY DEF OAuth!Init, OAuthType, OAuth!CsrfStates, OAuth!PostRecord, OAuth!CodeStates,
         OAuth!ExchangeRecord
<1>2. PostsAreApart
  BY DEF OAuth!Init, PostsAreApart, Allowed
<1>3. ExchangesAreApart
  BY DEF OAuth!Init, ExchangesAreApart, Redeemed
<1> QED
  BY <1>1, <1>2, <1>3 DEF OAuthInv

\* A step of a page or of a post; the codes it makes are new.
LEMMA PostStep ==
  ASSUME OAuthInv, UNCHANGED exchange,
         \/ \E v \in Visits : OAuth!Consent(v) \/ OAuth!CsrfExpires(v)
         \/ \E p \in Posts : \/ \E v \in Visits : OAuth!Submit(p, v)
                             \/ OAuth!PostUnread(p) \/ OAuth!PostRefused(p)
                             \/ OAuth!PostAllowed(p) \/ OAuth!CreateCode(p)
                             \/ OAuth!CreateFails(p) \/ OAuth!CodeExpires(p)
  PROVE  OAuthInv'
<1> USE DEF OAuth!CsrfStates, OAuth!PostRecord, OAuth!CodeStates
<1>t. OAuthType /\ PostsAreApart /\ ExchangesAreApart
  BY DEF OAuthInv
<1>x. ASSUME \A p \in Posts : code[p] = "redeemed" => code'[p] = "redeemed"
      PROVE  ExchangesAreApart'
  BY <1>t, <1>x DEF ExchangesAreApart, Redeemed
<1>1. ASSUME NEW v \in Visits, OAuth!Consent(v) \/ OAuth!CsrfExpires(v) PROVE OAuthInv'
  <2>1. OAuthType'
    BY <1>t, <1>1 DEF OAuthType, OAuth!Consent, OAuth!CsrfExpires
  <2>2. PostsAreApart'
    BY <1>t, <1>1 DEF OAuthType, PostsAreApart, Allowed, OAuth!Consent, OAuth!CsrfExpires
  <2>3. ExchangesAreApart'
    BY <1>x, <1>1 DEF OAuth!Consent, OAuth!CsrfExpires
  <2> QED
    BY <2>1, <2>2, <2>3 DEF OAuthInv
<1>2. ASSUME NEW p \in Posts, NEW v \in Visits, OAuth!Submit(p, v) PROVE OAuthInv'
  <2>1. OAuthType'
    BY <1>t, <1>2 DEF OAuthType, OAuth!Submit
  <2>2. PostsAreApart'
    BY <1>t, <1>2 DEF OAuthType, PostsAreApart, Allowed, OAuth!Submit
  <2>3. ExchangesAreApart'
    BY <1>x, <1>2 DEF OAuth!Submit
  <2> QED
    BY <2>1, <2>2, <2>3 DEF OAuthInv
<1>3. ASSUME NEW p \in Posts, OAuth!PostUnread(p) \/ OAuth!PostRefused(p) \/ OAuth!CreateFails(p)
      PROVE  OAuthInv'
  <2>1. /\ post' = [post EXCEPT ![p].pc = "done"] /\ UNCHANGED code
        /\ post[p].pc \in {"body", "create"}
        /\ UNCHANGED csrf \/ (csrf' = [csrf EXCEPT ![post[p].of] = "gone"] /\ post[p].of \in Visits)
    BY <1>t, <1>3 DEF PostsAreApart, OAuth!PostUnread, OAuth!PostRefused, OAuth!CreateFails, OAuth!Spent
  <2>2. OAuthType'
    BY <1>t, <2>1 DEF OAuthType
  <2>3. PostsAreApart'
    BY <1>t, <2>1 DEF OAuthType, PostsAreApart, Allowed
  <2>4. ExchangesAreApart'
    BY <1>x, <2>1
  <2> QED
    BY <2>2, <2>3, <2>4 DEF OAuthInv
<1>4. ASSUME NEW p \in Posts, OAuth!PostAllowed(p) PROVE OAuthInv'
  <2>1. /\ post' = [post EXCEPT ![p].pc = "create"] /\ UNCHANGED code
        /\ post[p].pc = "body" /\ post[p].of \in Visits /\ csrf[post[p].of] = "kept"
        /\ csrf' = [csrf EXCEPT ![post[p].of] = "gone"]
    BY <1>t, <1>4 DEF PostsAreApart, OAuth!PostAllowed, OAuth!Spent
  <2>2. OAuthType'
    BY <1>t, <2>1 DEF OAuthType
  <2>3. \A q \in Posts \ {p} : Allowed(q) => post[q].of # post[p].of
    BY <1>t, <2>1 DEF PostsAreApart
  <2>4. PostsAreApart'
    BY <1>t, <2>1, <2>3 DEF OAuthType, PostsAreApart, Allowed
  <2>5. ExchangesAreApart'
    BY <1>x, <2>1
  <2> QED
    BY <2>2, <2>4, <2>5 DEF OAuthInv
<1>5. ASSUME NEW p \in Posts, OAuth!CreateCode(p) PROVE OAuthInv'
  <2>1. /\ post' = [post EXCEPT ![p].pc = "done"] /\ code' = [code EXCEPT ![p] = "fresh"]
        /\ post[p].pc = "create" /\ UNCHANGED csrf
    BY <1>5 DEF OAuth!CreateCode
  <2>2. OAuthType'
    BY <1>t, <2>1 DEF OAuthType
  <2>3. PostsAreApart'
    BY <1>t, <2>1 DEF OAuthType, PostsAreApart, Allowed
  <2>4. code[p] = "none"
    BY <1>t, <2>1 DEF PostsAreApart
  <2>5. ExchangesAreApart'
    BY <1>x, <1>t, <2>1, <2>4 DEF OAuthType
  <2> QED
    BY <2>2, <2>3, <2>5 DEF OAuthInv
<1>6. ASSUME NEW p \in Posts, OAuth!CodeExpires(p) PROVE OAuthInv'
  <2>1. code' = [code EXCEPT ![p] = "late"] /\ code[p] = "fresh" /\ UNCHANGED <<csrf, post>>
    BY <1>6 DEF OAuth!CodeExpires
  <2>2. OAuthType'
    BY <1>t, <2>1 DEF OAuthType
  <2>3. PostsAreApart'
    BY <1>t, <2>1 DEF OAuthType, PostsAreApart, Allowed
  <2>4. ExchangesAreApart'
    BY <1>x, <1>t, <2>1 DEF OAuthType
  <2> QED
    BY <2>2, <2>3, <2>4 DEF OAuthInv
<1> QED
  BY <1>1, <1>2, <1>3, <1>4, <1>5, <1>6

LEMMA ExchangeStep ==
  ASSUME OAuthInv, NEW x \in Exchanges, UNCHANGED <<csrf, post>>,
         \/ \E p \in Posts : OAuth!Exchange(x, p)
         \/ OAuth!ExchangeRefused(x) \/ OAuth!Redeem(x) \/ OAuth!CheckBinding(x)
         \/ OAuth!MintToken(x) \/ OAuth!Register(x)
  PROVE  OAuthInv'
<1> USE DEF OAuth!CsrfStates, OAuth!PostRecord, OAuth!CodeStates, OAuth!Goto
<1>t. OAuthType /\ PostsAreApart /\ ExchangesAreApart
  BY DEF OAuthInv
\* No new claim on a code.
<1>x. ASSUME NEW new \in OAuth!ExchangeRecord, exchange' = [exchange EXCEPT ![x] = new],
             UNCHANGED code,
             new.token => new.pc = "done",
             new.pc = "idle" => new.of = None,
             new.pc = "redeem" => new.of \in Posts,
             new.pc \in {"check", "mint"} \/ (new.token /\ new.of # None)
                => Redeemed(x) /\ new.of = exchange[x].of
      PROVE  OAuthInv'
  <2>1. OAuthType'
    BY <1>t, <1>x DEF OAuthType
  <2>2. PostsAreApart'
    BY <1>t, <1>x DEF PostsAreApart, Allowed
  <2>3. exchange'[x] = new /\ \A y \in Exchanges \ {x} : exchange'[y] = exchange[y]
    BY <1>t, <1>x DEF OAuthType
  <2>4. \A y \in Exchanges : Redeemed(y)' => Redeemed(y) /\ exchange'[y].of = exchange[y].of
    BY <1>x, <2>3 DEF Redeemed
  <2>5. ExchangesAreApart'
    BY <1>t, <1>x, <2>3, <2>4 DEF ExchangesAreApart
  <2> QED
    BY <2>1, <2>2, <2>5 DEF OAuthInv
<1>e. exchange[x] \in OAuth!ExchangeRecord /\ exchange \in [Exchanges -> OAuth!ExchangeRecord]
  BY <1>t DEF OAuthType
<1>1. ASSUME NEW p \in Posts, OAuth!Exchange(x, p) PROVE OAuthInv'
  <2> DEFINE new == [pc |-> "redeem", of |-> p, token |-> FALSE]
  <2>1. new \in OAuth!ExchangeRecord
    BY DEF OAuth!ExchangeRecord
  <2> QED
    BY <1>1, <2>1, <1>x DEF OAuth!Exchange
<1>2. CASE OAuth!ExchangeRefused(x)
  <2> DEFINE new == [exchange[x] EXCEPT !.pc = "done"]
  <2>1. new \in OAuth!ExchangeRecord /\ new.pc = "done" /\ new.of = exchange[x].of
        /\ new.token = exchange[x].token
    BY <1>e DEF OAuth!ExchangeRecord
  <2>2. exchange' = [exchange EXCEPT ![x] = new] /\ UNCHANGED code
    BY <1>2, <1>e DEF OAuth!ExchangeRefused
  <2> HIDE DEF new
  <2> QED
    BY <2>1, <2>2, <1>x DEF Redeemed
<1>3. CASE OAuth!Redeem(x)
  <2> DEFINE p == exchange[x].of
  <2>0. exchange[x].pc = "redeem" /\ p \in Posts /\ ~exchange[x].token
    BY <1>3, <1>t DEF OAuth!Redeem, ExchangesAreApart
  <2>1. CASE code[p] = "fresh"
    <3> DEFINE new == [exchange[x] EXCEPT !.pc = "check"]
    <3>1. exchange' = [exchange EXCEPT ![x] = new] /\ code' = [code EXCEPT ![p] = "redeemed"]
      BY <1>3, <1>e, <2>1 DEF OAuth!Redeem, OAuth!Redeemable
    <3>2. new \in OAuth!ExchangeRecord /\ new.pc = "check" /\ new.of = p
          /\ new.token = exchange[x].token
      BY <1>e DEF OAuth!ExchangeRecord
    <3> HIDE DEF new
    <3>3. exchange'[x] = new /\ \A y \in Exchanges \ {x} : exchange'[y] = exchange[y]
      BY <1>e, <3>1
    <3>4. OAuthType'
      BY <1>t, <2>0, <3>1, <3>2 DEF OAuthType
    <3>5. PostsAreApart'
      BY <1>t, <2>0, <2>1, <3>1 DEF OAuthType, PostsAreApart, Allowed
    <3>6. \A q \in Posts : code[q] = "redeemed" => code'[q] = "redeemed"
      BY <1>t, <2>0, <3>1 DEF OAuthType
    <3>7. \A y \in Exchanges \ {x} : Redeemed(y) => exchange[y].of # p
      BY <1>t, <2>1 DEF ExchangesAreApart
    <3>8. \A y \in Exchanges \ {x} : Redeemed(y)' => Redeemed(y)
      BY <3>3 DEF Redeemed
    <3>9. code'[p] = "redeemed"
      BY <1>t, <2>0, <3>1 DEF OAuthType
    <3>10. ExchangesAreApart'
      <4>1. \A y \in Exchanges :
              /\ exchange'[y].token => exchange'[y].pc = "done"
              /\ exchange'[y].pc = "idle" => exchange'[y].of = None
              /\ exchange'[y].pc = "redeem" => exchange'[y].of \in Posts
        BY <1>t, <2>0, <3>2, <3>3 DEF ExchangesAreApart
      <4>2. \A y \in Exchanges :
              Redeemed(y)' => exchange'[y].of \in Posts /\ code'[exchange'[y].of] = "redeemed"
        BY <1>t, <2>0, <3>2, <3>3, <3>6, <3>8, <3>9 DEF ExchangesAreApart
      <4>3. \A y, z \in Exchanges :
              y # z /\ Redeemed(y)' /\ Redeemed(z)' => exchange'[y].of # exchange'[z].of
        BY <1>t, <3>2, <3>3, <3>7, <3>8 DEF ExchangesAreApart
      <4> QED
        BY <4>1, <4>2, <4>3 DEF ExchangesAreApart
    <3> QED
      BY <3>4, <3>5, <3>10 DEF OAuthInv
  <2>2. CASE code[p] # "fresh"
    <3> DEFINE new == [exchange[x] EXCEPT !.pc = "done"]
    <3>1. new \in OAuth!ExchangeRecord /\ new.pc = "done" /\ new.of = p
          /\ new.token = exchange[x].token
      BY <1>e DEF OAuth!ExchangeRecord
    <3>2. exchange' = [exchange EXCEPT ![x] = new] /\ UNCHANGED code
      BY <1>3, <1>e, <2>2 DEF OAuth!Redeem, OAuth!Redeemable
    <3> HIDE DEF new
    <3> QED
      BY <2>0, <3>1, <3>2, <1>x DEF Redeemed
  <2> QED
    BY <2>1, <2>2
<1>4. CASE OAuth!CheckBinding(x)
  <2>1. PICK step \in {"mint", "done"} :
           exchange' = [exchange EXCEPT ![x].pc = step] /\ UNCHANGED code /\ exchange[x].pc = "check"
    BY <1>4 DEF OAuth!CheckBinding
  <2> DEFINE new == [exchange[x] EXCEPT !.pc = step]
  <2>2. new \in OAuth!ExchangeRecord /\ new.pc = step /\ new.of = exchange[x].of
        /\ new.token = exchange[x].token
    BY <1>e DEF OAuth!ExchangeRecord
  <2>3. exchange' = [exchange EXCEPT ![x] = new] /\ ~exchange[x].token
    BY <2>1, <1>e, <1>t DEF ExchangesAreApart
  <2> HIDE DEF new
  <2> QED
    BY <2>1, <2>2, <2>3, <1>x DEF Redeemed
<1>5. CASE OAuth!MintToken(x)
  <2>1. PICK made \in BOOLEAN :
           /\ exchange' = [exchange EXCEPT ![x].pc = "done", ![x].token = made]
           /\ UNCHANGED code /\ exchange[x].pc = "mint"
    BY <1>5 DEF OAuth!MintToken, OAuth!Made
  <2> DEFINE new == [exchange[x] EXCEPT !.pc = "done", !.token = made]
  <2>2. new \in OAuth!ExchangeRecord /\ new.pc = "done" /\ new.of = exchange[x].of
    BY <1>e DEF OAuth!ExchangeRecord
  <2>3. exchange' = [exchange EXCEPT ![x] = new]
    BY <2>1, <1>e
  <2> HIDE DEF new
  <2> QED
    BY <2>1, <2>2, <2>3, <1>x DEF Redeemed
<1>6. CASE OAuth!Register(x)
  <2>1. PICK made \in BOOLEAN :
           /\ exchange' = [exchange EXCEPT ![x].pc = "done", ![x].token = made]
           /\ UNCHANGED code /\ exchange[x].pc = "idle"
    BY <1>6 DEF OAuth!Register, OAuth!Made
  <2> DEFINE new == [exchange[x] EXCEPT !.pc = "done", !.token = made]
  <2>2. new \in OAuth!ExchangeRecord /\ new.pc = "done" /\ new.of = None
    BY <1>e, <1>t, <2>1 DEF OAuth!ExchangeRecord, ExchangesAreApart
  <2>3. exchange' = [exchange EXCEPT ![x] = new]
    BY <2>1, <1>e
  <2> HIDE DEF new
  <2> QED
    BY <2>1, <2>2, <2>3, <1>x
<1> QED
  BY <1>1, <1>2, <1>3, <1>4, <1>5, <1>6

LEMMA RestartStep == OAuthInv /\ OAuth!Restart => OAuthInv'
<1> SUFFICES ASSUME OAuthInv, OAuth!Restart PROVE OAuthInv'
  OBVIOUS
<1>t. OAuthType /\ PostsAreApart /\ ExchangesAreApart
  BY DEF OAuthInv
<1>1. /\ UNCHANGED code
      /\ \A v \in Visits : csrf'[v] = IF csrf[v] = "none" THEN "none" ELSE "gone"
      /\ \A p \in Posts : post'[p].of = post[p].of
                          /\ post'[p].pc = IF post[p].pc = "idle" THEN "idle" ELSE "done"
      /\ \A x \in Exchanges : /\ exchange'[x].of = exchange[x].of
                               /\ exchange'[x].token = exchange[x].token
                               /\ exchange'[x].pc = IF exchange[x].pc = "idle" THEN "idle" ELSE "done"
  BY <1>t DEF OAuth!Restart, OAuthType, OAuth!PostRecord, OAuth!ExchangeRecord
<1>2. OAuthType'
  <2>1. csrf' \in [Visits -> OAuth!CsrfStates]
    BY DEF OAuth!Restart, OAuth!CsrfStates
  <2>2. post' \in [Posts -> OAuth!PostRecord]
    BY <1>t DEF OAuth!Restart, OAuthType, OAuth!PostRecord
  <2>3. exchange' \in [Exchanges -> OAuth!ExchangeRecord]
    BY <1>t DEF OAuth!Restart, OAuthType, OAuth!ExchangeRecord
  <2> QED
    BY <1>1, <1>t, <2>1, <2>2, <2>3 DEF OAuthType
<1>3. \A p \in Posts : Allowed(p)' => Allowed(p)
  BY <1>1 DEF Allowed
<1>4. PostsAreApart'
  BY <1>t, <1>1, <1>3 DEF PostsAreApart, Allowed
<1>5. \A x \in Exchanges : Redeemed(x)' => Redeemed(x)
  BY <1>1 DEF Redeemed
<1>6. ExchangesAreApart'
  BY <1>t, <1>1, <1>5 DEF ExchangesAreApart, Redeemed
<1> QED
  BY <1>2, <1>4, <1>6 DEF OAuthInv

LEMMA ConsentsAreSpent == OAuthInv => OneTokenPerConsent
<1> SUFFICES ASSUME OAuthInv, NEW v \in Visits,
                    NEW x \in OAuth!TokensOf(v), NEW y \in OAuth!TokensOf(v)
             PROVE  x = y
  BY DEF OneTokenPerConsent, OAuth!OneTokenPerConsent
<1>1. /\ x \in Exchanges /\ y \in Exchanges /\ Redeemed(x) /\ Redeemed(y)
      /\ post[exchange[x].of].of = v /\ post[exchange[y].of].of = v
  BY DEF OAuth!TokensOf, Redeemed
<1>2. /\ exchange[x].of \in Posts /\ exchange[y].of \in Posts
      /\ Allowed(exchange[x].of) /\ Allowed(exchange[y].of)
  BY <1>1 DEF OAuthInv, ExchangesAreApart, Allowed
<1>3. exchange[x].of = exchange[y].of
  BY <1>1, <1>2 DEF OAuthInv, PostsAreApart
<1> QED
  BY <1>1, <1>3 DEF OAuthInv, ExchangesAreApart

\* One page a user said yes on never becomes two tokens, for any number of
\* posts and exchanges of it, restarts between included.
THEOREM ConsentsAreSpentOnce == Spec => []OneTokenPerConsent
<1>1. Init => OAuthInv
  BY OAuthInit DEF Init
<1>2. [Next]_vars => [OAuth!Next]_oauthVars
  BY DEF Next, vars
<1>3. OAuthInv /\ [OAuth!Next]_oauthVars => OAuthInv'
  <2> SUFFICES ASSUME OAuthInv, [OAuth!Next]_oauthVars PROVE OAuthInv'
    OBVIOUS
  <2>1. CASE UNCHANGED oauthVars
    BY <2>1 DEF oauthVars, OAuthInv, OAuthType, PostsAreApart, ExchangesAreApart, Allowed, Redeemed
  <2>2. ASSUME NEW v \in Visits, OAuth!Consent(v) \/ OAuth!CsrfExpires(v) PROVE OAuthInv'
    BY <2>2, PostStep DEF OAuth!Consent, OAuth!CsrfExpires
  <2>3. ASSUME NEW p \in Posts, NEW v \in Visits, OAuth!Submit(p, v) PROVE OAuthInv'
    BY <2>3, PostStep DEF OAuth!Submit
  <2>4. ASSUME NEW p \in Posts,
               \/ OAuth!PostUnread(p) \/ OAuth!PostRefused(p) \/ OAuth!PostAllowed(p)
               \/ OAuth!CreateCode(p) \/ OAuth!CreateFails(p) \/ OAuth!CodeExpires(p)
        PROVE  OAuthInv'
    <3>1. UNCHANGED exchange
      BY <2>4 DEF OAuth!PostUnread, OAuth!PostRefused, OAuth!PostAllowed, OAuth!CreateCode,
                  OAuth!CreateFails, OAuth!CodeExpires
    <3> QED
      BY <2>4, <3>1, PostStep
  <2>5. ASSUME NEW x \in Exchanges,
               \/ \E p \in Posts : OAuth!Exchange(x, p)
               \/ OAuth!ExchangeRefused(x) \/ OAuth!Redeem(x) \/ OAuth!CheckBinding(x)
               \/ OAuth!MintToken(x) \/ OAuth!Register(x)
        PROVE  OAuthInv'
    <3>1. UNCHANGED <<csrf, post>>
      BY <2>5 DEF OAuth!Exchange, OAuth!ExchangeRefused, OAuth!Redeem, OAuth!CheckBinding,
                  OAuth!MintToken, OAuth!Register
    <3> QED
      BY <2>5, <3>1, ExchangeStep
  <2> QED
    BY <2>1, <2>2, <2>3, <2>4, <2>5, RestartStep DEF OAuth!Next
<1> QED
  BY <1>1, <1>2, <1>3, ConsentsAreSpent, PTL DEF Spec
-----------------------------------------------------------------------------
(* Requests and decisions of the server *)

LEMMA ServerNumbers == CacheMs \in Nat /\ CacheMs > 0 /\ MaxNow \in Nat /\ "*" \notin Tools
  BY ClockAssumption, StarAssumption

\* A decision is kept from an instant at which no row denied what it allows.
KeptOk(u, t) ==
    LET c == cache[u][t] IN
    c # None => /\ c \in [allowed : BOOLEAN, at : 0 .. now]
                /\ c.allowed => \A k \in {t, "*"} : deniedSince[u][k] >= c.at

\* What a request has read, and been granted, was true when its check began.
RequestOk(q) ==
    /\ q \in Server!Request
    /\ q.began <= now
    /\ q.pc # "rows" => q.saw = Server!Unread
    /\ q.pc = "rows" => \A k \in Server!Rules :
          q.saw[k] \in {"none", "allow"} => deniedSince[q.user][k] >= q.began
    /\ q.granted => /\ q.pc \in {"call", "stream"}
                    /\ \A k \in {q.tool, "*"} : deniedSince[q.user][k] + CacheMs > q.began
    /\ q.pc # "done" => q.audits = 0 /\ q.answer = "pending"
    /\ q.audits <= 1
    /\ q.answer \in {"denied", "error", "ok"} => q.audits = 1

Rows ==
    /\ now \in 0 .. MaxNow
    /\ rules \in [Users -> [Server!Rules -> {"none", "allow", "deny"}]]
    /\ deniedSince \in [Users -> [Server!Rules -> Nat]]
    /\ \A u \in Users, k \in Server!Rules :
          rules[u][k] # "deny" => deniedSince[u][k] = Server!Never

ServerInv ==
    /\ Rows
    /\ cache \in [Users -> [Tools -> [allowed : BOOLEAN, at : Nat] \cup {None}]]
    /\ \A u \in Users, t \in Tools : KeptOk(u, t)
    /\ DOMAIN req = Requests /\ req = [r \in Requests |-> req[r]]
    /\ \A r \in Requests : RequestOk(req[r])

LEMMA RulesOf == Server!Rules = Tools \cup {"*"} /\ Server!Star = "*"
  BY DEF Server!Rules, Server!Star

LEMMA NewIsOk ==
  ASSUME ServerInv, NEW u \in Users, NEW t \in Tools
  PROVE  RequestOk(Server!NewRequest(u, t))
  BY ServerNumbers DEF ServerInv, Rows, RequestOk, Server!NewRequest, Server!Request, Server!Steps,
     Server!Answers, Server!Unread

\* A step that only moves one request on.
LEMMA MovesOn ==
  ASSUME ServerInv, NEW r \in Requests, NEW q, RequestOk(q),
         req' = [req EXCEPT ![r] = q],
         UNCHANGED <<now, active, rules, cache, written, deniedSince>>
  PROVE  ServerInv'
<1>1. \A x \in Requests : req'[x] = (IF x = r THEN q ELSE req[x])
  BY DEF ServerInv
<1>2. \A x \in Requests : RequestOk(req'[x])
  BY <1>1 DEF ServerInv
<1>3. Rows' /\ \A u \in Users, t \in Tools : KeptOk(u, t)'
  BY DEF ServerInv, Rows, KeptOk
<1>4. \A x \in Requests : RequestOk(req[x])'
  BY <1>2 DEF RequestOk
<1>5. DOMAIN req' = Requests /\ req' = [x \in Requests |-> req'[x]]
  BY DEF ServerInv
<1> QED
  BY <1>3, <1>4, <1>5 DEF ServerInv

LEMMA AnsweredOk ==
  ASSUME ServerInv, NEW r \in Requests, req[r].pc # "done",
         NEW a \in Server!Answers, NEW n \in {0, 1},
         a \in {"denied", "error", "ok"} => n = 1
  PROVE  RequestOk([Server!NewRequest(req[r].user, req[r].tool) EXCEPT
                      !.pc = "done", !.answer = a, !.audits = n])
<1>1. RequestOk(req[r]) /\ req[r].user \in Users /\ req[r].tool \in Tools
  BY DEF ServerInv, RequestOk, Server!Request
<1> DEFINE new == Server!NewRequest(req[r].user, req[r].tool)
<1>2. RequestOk(new)
  BY <1>1, NewIsOk
<1>3. new.began = 0 /\ ~new.granted /\ new.saw = Server!Unread
  BY DEF Server!NewRequest
<1> HIDE DEF new
<1> DEFINE answered == [new EXCEPT !.pc = "done", !.answer = a, !.audits = n]
<1>0. n \in 0 .. 2 /\ "done" \in Server!Steps /\ new \in Server!Request
  BY <1>2 DEF Server!Steps, RequestOk
<1>4. /\ answered \in Server!Request /\ answered.pc = "done" /\ answered.answer = a
      /\ answered.audits = n /\ answered.began = new.began /\ answered.saw = new.saw
      /\ answered.granted = new.granted
  BY <1>0 DEF Server!Request
<1>5. 0 <= now /\ n <= 1
  BY DEF ServerInv, Rows
<1> HIDE DEF answered
<1>6. RequestOk(answered)
  BY <1>3, <1>4, <1>5 DEF RequestOk
<1> QED
  BY <1>6 DEF answered, new

\* An answer, audited or not.
LEMMA Answers ==
  ASSUME ServerInv, NEW r \in Requests, req[r].pc # "done",
         UNCHANGED <<now, active, rules, cache, written, deniedSince>>,
         \/ \E a \in {"refused", "accepted", "limited"} : Server!Unaudited(r, a)
         \/ \E a \in {"denied", "error", "ok", "refused"} : Server!Audited(r, a)
  PROVE  ServerInv'
<1>1. req[r].audits = 0
  BY DEF ServerInv, RequestOk
<1>2. PICK a \in Server!Answers, n \in {0, 1} :
        /\ a \in {"denied", "error", "ok"} => n = 1
        /\ Server!Answer(r, a, n)
  BY <1>1 DEF Server!Unaudited, Server!Audited, Server!Answers
<1> DEFINE new == [Server!NewRequest(req[r].user, req[r].tool) EXCEPT
                      !.pc = "done", !.answer = a, !.audits = n]
<1>3. req' = [req EXCEPT ![r] = new]
  BY <1>2 DEF Server!Answer, Server!Me, ServerInv
<1>4. RequestOk(new)
  BY <1>2, AnsweredOk
<1> HIDE DEF new
<1> QED
  BY <1>3, <1>4, MovesOn

\* A request that goes to a step where it has no claim yet, or keeps its own.
LEMMA Goes ==
  ASSUME ServerInv, NEW r \in Requests, NEW pc,
         (pc \in {"auth", "list", "gate", "acl"} /\ req[r].pc # "call") \/ (pc = "stream" /\ req[r].pc = "call"),
         req[r].pc \in {"reading", "auth", "gate", "call"}, Server!Goto(r, pc),
         UNCHANGED <<now, active, rules, cache, written, deniedSince>>
  PROVE  ServerInv'
<1> DEFINE new == [req[r] EXCEPT !.pc = pc]
<1>1. req' = [req EXCEPT ![r] = new]
  BY DEF Server!Goto, ServerInv
<1>2. RequestOk(req[r])
  BY DEF ServerInv
<1>3. pc \in Server!Steps \ {"rows", "done"} /\ (req[r].granted => pc = "stream")
  BY <1>2 DEF RequestOk, Server!Steps
<1>4. /\ new \in Server!Request /\ new.pc = pc /\ new.user = req[r].user /\ new.tool = req[r].tool
      /\ new.began = req[r].began /\ new.saw = req[r].saw /\ new.granted = req[r].granted
      /\ new.answer = req[r].answer /\ new.audits = req[r].audits
  BY <1>2, <1>3 DEF RequestOk, Server!Request
<1> HIDE DEF new
<1>5. RequestOk(new)
  BY <1>2, <1>3, <1>4 DEF RequestOk
<1> QED
  BY <1>1, <1>5, MovesOn

LEMMA CachedStep ==
  ASSUME ServerInv, NEW r \in Requests, Server!CheckCached(r)
  PROVE  ServerInv'
<1> DEFINE u == req[r].user
           t == req[r].tool
           c == cache[u][t]
<1>1. /\ RequestOk(req[r]) /\ u \in Users /\ t \in Tools
      /\ req[r].pc = "acl" /\ c # None /\ now < c.at + CacheMs
      /\ Server!Decide(r, c.allowed, now)
      /\ UNCHANGED <<now, active, rules, cache, written, deniedSince>>
  BY DEF Server!CheckCached, Server!At, Server!Me, Server!Fresh, Server!admin, ServerInv, RequestOk,
     Server!Request
<1>2. KeptOk(u, t)
  BY <1>1 DEF ServerInv
<1>3. CASE c.allowed
  <2> DEFINE new == [req[r] EXCEPT !.pc = "call", !.granted = TRUE, !.saw = Server!Unread, !.began = now]
  <2>1. req' = [req EXCEPT ![r] = new]
    BY <1>1, <1>3 DEF Server!Decide, ServerInv
  <2>2. \A k \in {t, "*"} : deniedSince[u][k] + CacheMs > now
    <3>1. \A k \in {t, "*"} : deniedSince[u][k] \in Nat
      BY <1>1, RulesOf DEF ServerInv, Rows
    <3>0. now \in Nat
      BY DEF ServerInv, Rows
    <3>3. c \in [allowed : BOOLEAN, at : 0 .. now]
      BY <1>1, <1>2 DEF KeptOk
    <3>2. c.at \in Nat /\ now \in Nat /\ \A k \in {t, "*"} : deniedSince[u][k] >= c.at
      BY SMTT(30), <1>1, <1>2, <1>3, <3>0, <3>3 DEF KeptOk
    <3> QED
      BY SMTT(30), <1>1, <3>1, <3>2, ServerNumbers
  <2>3. /\ new \in Server!Request /\ new.user = u /\ new.tool = t /\ new.pc = "call"
        /\ new.saw = Server!Unread /\ new.began = now
        /\ new.audits = req[r].audits /\ new.answer = req[r].answer
    BY <1>1, ServerNumbers DEF RequestOk, Server!Request, Server!Steps, Server!Unread, ServerInv, Rows
  <2> HIDE DEF new
  <2>4. RequestOk(new)
    <3>1. now \in Nat /\ now <= now
      BY DEF ServerInv, Rows
    <3>2. req[r].audits = 0 /\ req[r].answer = "pending"
      BY <1>1 DEF RequestOk
    <3>3. \A k \in {new.tool, "*"} : deniedSince[new.user][k] + CacheMs > new.began
      BY <2>2, <2>3
    <3>q. QED
      BY <2>3, <3>1, <3>2, <3>3 DEF RequestOk
  <2> QED
    BY <1>1, <2>1, <2>4, MovesOn
<1>4. CASE ~c.allowed
  BY <1>1, <1>4, Answers DEF Server!Decide
<1> QED
  BY <1>3, <1>4

LEMMA MissStep ==
  ASSUME ServerInv, NEW r \in Requests, Server!CheckMiss(r)
  PROVE  ServerInv'
<1> DEFINE new == [req[r] EXCEPT !.pc = "rows", !.began = now]
<1>1. /\ RequestOk(req[r]) /\ req[r].pc = "acl"
      /\ req' = [req EXCEPT ![r] = new]
      /\ UNCHANGED <<now, active, rules, cache, written, deniedSince>>
  BY DEF Server!CheckMiss, Server!At, Server!admin, ServerInv
<1>2. /\ new \in Server!Request /\ new.pc = "rows" /\ new.saw = Server!Unread /\ new.began = now
      /\ ~new.granted /\ new.audits = 0 /\ new.answer = "pending"
  BY <1>1, ServerNumbers DEF RequestOk, Server!Request, Server!Steps, ServerInv, Rows
<1> HIDE DEF new
<1>3. RequestOk(new)
  BY <1>2, ServerNumbers DEF RequestOk, Server!Unread, ServerInv, Rows
<1> QED
  BY <1>1, <1>3, MovesOn

LEMMA ReadStep ==
  ASSUME ServerInv, NEW r \in Requests, NEW k \in Server!Rules, Server!ReadRow(r, k)
  PROVE  ServerInv'
<1> DEFINE u == req[r].user
           saw == [req[r].saw EXCEPT ![k] = rules[u][k]]
           new == [req[r] EXCEPT !.saw = saw]
<1>1. /\ RequestOk(req[r]) /\ req[r].pc = "rows" /\ u \in Users
      /\ req' = [req EXCEPT ![r] = new]
      /\ UNCHANGED <<now, active, rules, cache, written, deniedSince>>
  BY DEF Server!ReadRow, Server!At, Server!Me, Server!admin, ServerInv, RequestOk, Server!Request
<1>2. saw \in [Server!Rules -> {"none", "allow", "deny", "unread"}]
  BY <1>1 DEF RequestOk, Server!Request, ServerInv, Rows
<1>3. \A j \in Server!Rules : saw[j] \in {"none", "allow"} => deniedSince[u][j] >= req[r].began
  <2>1. \A j \in Server!Rules : saw[j] = IF j = k THEN rules[u][k] ELSE req[r].saw[j]
    BY <1>1 DEF RequestOk, Server!Request
  <2>2. rules[u][k] # "deny" => deniedSince[u][k] >= req[r].began
    BY <1>1, ServerNumbers DEF RequestOk, Server!Request, Server!Never, ServerInv, Rows
  <2> QED
    BY <1>1, <2>1, <2>2 DEF RequestOk
<1> HIDE DEF saw
<1>4. RequestOk(new)
  BY <1>1, <1>2, <1>3 DEF RequestOk, Server!Request
<1> HIDE DEF new
<1> QED
  BY <1>1, <1>4, MovesOn

LEMMA RowsStep ==
  ASSUME ServerInv, NEW r \in Requests, Server!RowsRead(r)
  PROVE  ServerInv'
<1> DEFINE u == req[r].user
           t == req[r].tool
           ok == Server!Allowed(req[r].saw[t], req[r].saw["*"])
           c == [allowed |-> ok, at |-> req[r].began]
<1>1. /\ RequestOk(req[r]) /\ req[r].pc = "rows" /\ u \in Users /\ t \in Tools
      /\ \A k \in {t, "*"} : req[r].saw[k] # "unread"
      /\ cache' = [cache EXCEPT ![u][t] = c]
      /\ Server!Decide(r, ok, req[r].began)
      /\ UNCHANGED <<now, active, rules, written, deniedSince>>
  BY RulesOf DEF Server!RowsRead, Server!At, Server!Me, Server!KeptAt, Server!admin, ServerInv, RequestOk,
     Server!Request
<1>2. ok => \A k \in {t, "*"} : deniedSince[u][k] >= req[r].began
  BY <1>1, RulesOf DEF RequestOk, Server!Request, Server!Allowed
<1>3. c \in [allowed : BOOLEAN, at : Nat] /\ c.at \in 0 .. now /\ c.allowed = ok /\ c.at = req[r].began
  BY <1>1, ServerNumbers DEF RequestOk, Server!Request, Server!Allowed, ServerInv, Rows
<1> HIDE DEF c
<1>4. cache' \in [Users -> [Tools -> [allowed : BOOLEAN, at : Nat] \cup {None}]]
  BY <1>1, <1>3 DEF ServerInv
<1>5. ASSUME NEW v \in Users, NEW s \in Tools PROVE KeptOk(v, s)'
  <2>1. CASE v = u /\ s = t
    <3>1. cache'[v][s] = c
      BY <1>1, <2>1 DEF ServerInv
    <3> QED
      BY <1>1, <1>2, <1>3, <2>1, <3>1 DEF KeptOk
  <2>2. CASE ~(v = u /\ s = t)
    <3>1. cache'[v][s] = cache[v][s]
      BY <1>1, <2>2 DEF ServerInv
    <3> QED
      BY <1>1, <3>1 DEF KeptOk, ServerInv
  <2> QED
    BY <2>1, <2>2
<1>6. PICK new : req' = [req EXCEPT ![r] = new] /\ RequestOk(new)
  <2>1. CASE ok
    <3> DEFINE new == [req[r] EXCEPT !.pc = "call", !.granted = TRUE, !.saw = Server!Unread]
    <3>1. req' = [req EXCEPT ![r] = new]
      <4> DEFINE full == [req[r] EXCEPT !.pc = "call", !.granted = TRUE, !.saw = Server!Unread,
                                        !.began = req[r].began]
      <4>1. req' = [req EXCEPT ![r] = full]
        BY <1>1, <2>1 DEF Server!Decide, ServerInv
      <4>2. full = new
        BY <1>1 DEF RequestOk, Server!Request
      <4> QED
        BY <4>1, <4>2
    <3>2. /\ new \in Server!Request /\ new.user = u /\ new.tool = t /\ new.pc = "call"
          /\ new.saw = Server!Unread /\ new.began = req[r].began
          /\ new.audits = req[r].audits /\ new.answer = req[r].answer
      BY <1>1 DEF RequestOk, Server!Request, Server!Steps, Server!Unread
    <3>3. \A k \in {t, "*"} : deniedSince[u][k] \in Nat
      BY <1>1, RulesOf DEF ServerInv, Rows
    <3>4. req[r].began \in Nat
      BY <1>1, ServerNumbers DEF RequestOk, Server!Request
    <3> HIDE DEF new
    <3>5. RequestOk(new)
      BY <1>1, <1>2, <2>1, <3>2, <3>3, <3>4, ServerNumbers DEF RequestOk
    <3> QED
      BY <3>1, <3>5
  <2>2. CASE ~ok
    <3> DEFINE new == [Server!NewRequest(u, t) EXCEPT !.pc = "done", !.answer = "denied", !.audits = 1]
    <3>1. Server!Answer(r, "denied", 1)
      BY <1>1, <2>2 DEF Server!Decide, Server!Audited, RequestOk
    <3>2. req' = [req EXCEPT ![r] = new]
      BY <3>1 DEF Server!Answer, Server!Me, ServerInv
    <3>3. RequestOk(new)
      BY <1>1, AnsweredOk DEF Server!Answers
    <3> HIDE DEF new
    <3> QED
      BY <3>2, <3>3
  <2> QED
    BY <2>1, <2>2
<1>7. \A x \in Requests : req'[x] = (IF x = r THEN new ELSE req[x])
  BY <1>6 DEF ServerInv
<1>8. \A x \in Requests : RequestOk(req[x])'
  BY SMTT(30), <1>1, <1>6, <1>7 DEF RequestOk, ServerInv
<1>9. DOMAIN req' = Requests /\ req' = [x \in Requests |-> req'[x]]
  BY <1>6 DEF ServerInv
<1>10. Rows'
  BY <1>1 DEF Rows, ServerInv
<1> QED
  BY <1>4, <1>5, <1>8, <1>9, <1>10 DEF ServerInv

LEMMA FailsOpenStep ==
  ASSUME ServerInv, NEW r \in Requests, Server!AclFailsOpen(r)
  PROVE  ServerInv'
<1> DEFINE new == [req[r] EXCEPT !.pc = "call", !.saw = Server!Unread]
<1>1. /\ RequestOk(req[r]) /\ req[r].pc = "rows"
      /\ req' = [req EXCEPT ![r] = new]
      /\ UNCHANGED <<now, active, rules, cache, written, deniedSince>>
  BY DEF Server!AclFailsOpen, Server!At, Server!admin, ServerInv
<1>2. RequestOk(new)
  BY <1>1 DEF RequestOk, Server!Request, Server!Steps, Server!Unread
<1> HIDE DEF new
<1> QED
  BY <1>1, <1>2, MovesOn

\* When a row comes to deny, it has denied nothing before now.
LEMMA RuleStep ==
  ASSUME ServerInv, NEW u \in Users, NEW k \in Server!Rules,
         NEW p \in {"none", "allow", "deny"}, rules[u][k] # p,
         rules' = [rules EXCEPT ![u][k] = p],
         deniedSince' = [deniedSince EXCEPT ![u][k] = IF p = "deny" THEN now ELSE Server!Never],
         UNCHANGED <<now, active, cache, req>>
  PROVE  ServerInv'
<1> DEFINE since == IF p = "deny" THEN now ELSE Server!Never
<1>1. since \in Nat /\ since >= now /\ Server!Never \in Nat
  BY ServerNumbers DEF Server!Never, ServerInv, Rows
<1>2. deniedSince' = [deniedSince EXCEPT ![u][k] = since]
  OBVIOUS
<1> HIDE DEF since
<1>3. \A v \in Users, j \in Server!Rules :
        /\ deniedSince'[v][j] = (IF v = u /\ j = k THEN since ELSE deniedSince[v][j])
        /\ rules'[v][j] = (IF v = u /\ j = k THEN p ELSE rules[v][j])
  BY <1>2 DEF ServerInv, Rows
<1>4. Rows'
  <2>1. p # "deny" => since = Server!Never
    BY DEF since
  <2>2. /\ rules' \in [Users -> [Server!Rules -> {"none", "allow", "deny"}]]
        /\ deniedSince' \in [Users -> [Server!Rules -> Nat]]
    BY <1>1, <1>2 DEF ServerInv, Rows
  <2> QED
    BY <1>3, <2>1, <2>2 DEF ServerInv, Rows, Server!Never
<1>5. \A v \in Users, j \in Server!Rules :
        /\ deniedSince[v][j] \in Nat
        /\ deniedSince'[v][j] = deniedSince[v][j] \/ (deniedSince'[v][j] \in Nat /\ deniedSince'[v][j] >= now)
  BY <1>1, <1>3 DEF ServerInv, Rows
<1>6. now \in Nat
  BY DEF ServerInv, Rows
<1>7. ASSUME NEW v \in Users, NEW s \in Tools PROVE KeptOk(v, s)'
  <2>1. KeptOk(v, s) /\ s \in Server!Rules /\ "*" \in Server!Rules
    BY RulesOf DEF ServerInv
  <2> QED
    BY <1>5, <1>6, <2>1 DEF KeptOk
<1>8. ASSUME NEW r \in Requests PROVE RequestOk(req[r])'
  <2>1. /\ RequestOk(req[r]) /\ req[r].user \in Users /\ req[r].tool \in Server!Rules
        /\ "*" \in Server!Rules /\ req[r].began \in Nat /\ req[r].began <= now
    <3>1. RequestOk(req[r]) /\ req[r] \in Server!Request
      BY DEF ServerInv, RequestOk
    <3>2. req[r].user \in Users /\ req[r].tool \in Tools /\ req[r].began \in 0 .. MaxNow
      BY <3>1 DEF Server!Request
    <3> QED
      BY <3>1, <3>2, RulesOf, ServerNumbers DEF RequestOk
  <2>2. ASSUME NEW j \in Server!Rules
        PROVE  /\ deniedSince[req[r].user][j] >= req[r].began => deniedSince'[req[r].user][j] >= req[r].began
               /\ deniedSince[req[r].user][j] + CacheMs > req[r].began
                    => deniedSince'[req[r].user][j] + CacheMs > req[r].began
    BY <1>5, <1>6, <2>1, ServerNumbers
  <2> QED
    BY <2>1, <2>2 DEF RequestOk
<1> QED
  BY <1>4, <1>7, <1>8 DEF ServerInv

LEMMA ServerStep == ServerInv /\ [Server!Next]_serverVars => ServerInv'
<1> SUFFICES ASSUME ServerInv, [Server!Next]_serverVars PROVE ServerInv'
  OBVIOUS
<1>1. ASSUME NEW r \in Requests, Server!Handle(r) PROVE ServerInv'
  <2>1. CASE \/ Server!BodyRefused(r) \/ Server!RateLimited(r) \/ Server!Malformed(r)
             \/ Server!Notification(r) \/ Server!Initialize(r) \/ Server!TokenRefused(r)
             \/ Server!ListTools(r) \/ Server!ListFails(r) \/ Server!GateRefuses(r)
    BY <2>1, Answers DEF Server!BodyRefused, Server!RateLimited, Server!Malformed, Server!Notification,
       Server!Initialize, Server!TokenRefused, Server!ListTools, Server!ListFails, Server!GateRefuses,
       Server!At, Server!admin
  <2>2. CASE Server!StreamEnds(r) \/ Server!CallEnds(r) \/ Server!WorkspaceToolEnds(r)
    BY <2>2, Answers DEF Server!StreamEnds, Server!CallEnds, Server!WorkspaceToolEnds,
       Server!CallOutcomes, Server!At, Server!admin
  <2>3. CASE Server!NeedsToken(r) \/ Server!GatePasses(r) \/ Server!BeginStream(r)
    BY <2>3, Goes DEF Server!NeedsToken, Server!GatePasses, Server!BeginStream, Server!At, Server!admin
  <2>4. CASE Server!TokenAccepted(r)
    BY <2>4, Goes, Answers DEF Server!TokenAccepted, Server!Dispatch, Server!At, Server!admin
  <2>5. CASE Server!CheckCached(r)
    BY <2>5, CachedStep
  <2>6. CASE Server!CheckMiss(r)
    BY <2>6, MissStep
  <2>7. CASE \E k \in Server!Rules : Server!ReadRow(r, k)
    BY <2>7, ReadStep
  <2>8. CASE Server!RowsRead(r)
    BY <2>8, RowsStep
  <2>9. CASE Server!AclFailsOpen(r)
    BY <2>9, FailsOpenStep
  <2> QED
    BY <1>1, <2>1, <2>2, <2>3, <2>4, <2>5, <2>6, <2>7, <2>8, <2>9 DEF Server!Handle
<1>2. ASSUME NEW u \in Users, NEW k \in Server!Rules, NEW p \in {"none", "allow", "deny"},
             Server!SetRule(u, k, p)
      PROVE  ServerInv'
  BY <1>2, RuleStep DEF Server!SetRule
<1>3. ASSUME NEW u \in Users, NEW k \in Server!Rules, Server!RuleExpires(u, k) PROVE ServerInv'
  BY <1>3, RuleStep DEF Server!RuleExpires
<1>4. ASSUME NEW u \in Users, NEW k \in Server!Rules, Server!Invalidate(u, k) PROVE ServerInv'
  <2>1. /\ UNCHANGED <<now, active, rules, deniedSince, req>>
        /\ cache' = [cache EXCEPT ![u] = [t \in Tools |-> IF k \in {t, "*"} THEN None ELSE cache[u][t]]]
    BY <1>4, RulesOf DEF Server!Invalidate, ServerInv
  <2>2. cache' \in [Users -> [Tools -> [allowed : BOOLEAN, at : Nat] \cup {None}]]
    BY <2>1 DEF ServerInv
  <2>3. \A v \in Users, t \in Tools : cache'[v][t] \in {cache[v][t], None}
    BY <2>1 DEF ServerInv
  <2>4. ASSUME NEW v \in Users, NEW t \in Tools PROVE KeptOk(v, t)'
    BY <2>1, <2>3 DEF KeptOk, ServerInv
  <2>5. \A r \in Requests : RequestOk(req[r])'
    BY <2>1 DEF RequestOk, ServerInv
  <2>6. Rows'
    BY <2>1 DEF Rows, ServerInv
  <2> QED
    BY <2>1, <2>2, <2>4, <2>5, <2>6 DEF ServerInv
<1>5. ASSUME NEW u \in Users, Server!Revoke(u) PROVE ServerInv'
  BY <1>5 DEF Server!Revoke, ServerInv, Rows, KeptOk, RequestOk
<1>6. CASE Server!Tick
  <2>1. now < MaxNow /\ now' = now + 1 /\ UNCHANGED <<active, rules, written, deniedSince, cache, req>>
    BY <1>6 DEF Server!Tick, Server!admin
  <2>2. Rows' /\ now \in Nat
    BY <2>1, ServerNumbers DEF Rows, ServerInv
  <2>3. ASSUME NEW u \in Users, NEW t \in Tools PROVE KeptOk(u, t)'
    BY <2>1, <2>2 DEF KeptOk, ServerInv
  <2>4. ASSUME NEW r \in Requests PROVE RequestOk(req[r])'
    <3>1. RequestOk(req[r]) /\ req[r].began \in Nat
      BY ServerNumbers DEF ServerInv, RequestOk, Server!Request
    <3> QED
      BY <2>1, <2>2, <3>1 DEF RequestOk
  <2> QED
    BY <2>1, <2>2, <2>3, <2>4 DEF ServerInv
<1>7. CASE UNCHANGED serverVars
  BY <1>7 DEF serverVars, ServerInv, Rows, KeptOk, RequestOk
<1> QED
  BY <1>1, <1>2, <1>3, <1>4, <1>5, <1>6, <1>7 DEF Server!Next

LEMMA ServerInit == Server!Init => ServerInv
<1> SUFFICES ASSUME Server!Init PROVE ServerInv
  OBVIOUS
<1>1. Rows
  BY ServerNumbers DEF Server!Init, Rows, Server!Never
<1>2. /\ cache \in [Users -> [Tools -> [allowed : BOOLEAN, at : Nat] \cup {None}]]
      /\ \A u \in Users, t \in Tools : KeptOk(u, t)
  BY DEF Server!Init, KeptOk
<1>3. ASSUME NEW r \in Requests PROVE RequestOk(req[r])
  <2>1. PICK u \in Users, t \in Tools : req[r] = Server!NewRequest(u, t)
    BY DEF Server!Init
  <2> QED
    BY <1>1, <2>1, ServerNumbers DEF Rows, RequestOk, Server!NewRequest, Server!Request, Server!Steps,
       Server!Answers, Server!Unread
<1>4. DOMAIN req = Requests /\ req = [r \in Requests |-> req[r]]
  BY DEF Server!Init
<1> QED
  BY <1>1, <1>2, <1>3, <1>4 DEF ServerInv

LEMMA ServerAlways == Spec => []ServerInv
<1>1. Init => ServerInv
  BY ServerInit DEF Init
<1>2. [Next]_vars => [Server!Next]_serverVars
  BY DEF Next, vars
<1> QED
  BY <1>1, <1>2, ServerStep, PTL DEF Spec

\* For every set of requests, users and tools and every age at which decisions
\* are dropped: a call the access list let through was not denied for that long.
THEOREM StaleGrantsAreBounded == Spec => []DenyHeldBack
<1>1. ServerInv => DenyHeldBack
  BY DEF ServerInv, RequestOk, DenyHeldBack, Server!DenyHeldBack, Server!Me, Server!Star
<1> QED
  BY <1>1, ServerAlways, PTL

\* Every answer that has to be audited is, once.
THEOREM AnswersAreAuditedOnce == Spec => []AuditedOnce
<1>1. ServerInv => AuditedOnce
  BY DEF ServerInv, RequestOk, AuditedOnce, Server!AuditedOnce
<1> QED
  BY <1>1, ServerAlways, PTL

-----------------------------------------------------------------------------
(* synaps_chat *)

LEMMA UsersOf == UserOf \in [Calls -> Users]
<1>1. PICK u \in Users : TRUE
  BY UsersAssumption
<1>2. [c \in Calls |-> u] \in [Calls -> Users]
  OBVIOUS
<1> QED
  BY <1>2, Zenon DEF UserOf

Chained == {"queued", "session", "prompt", "reply"}
InChain(c) == chat[c].pc \in Chained
Running(c) == chat[c].pc \in {"session", "prompt", "reply"}
\* The call whose turn it is.
First(c) == Running(c) \/ (chat[c].pc = "queued" /\ Chat!MayStart(c))

ChatType ==
    /\ chat \in [Calls -> Chat!ChatRecord]
    /\ lock \in [Users -> Calls \cup {None}]
    /\ frame \in [Calls -> {"none", "sent", "taken", "refused"}]
    /\ turns \in [Users -> Seq(Calls)]
    /\ hears \subseteq Calls
    /\ text \in [Calls -> SUBSET Calls]

\* The calls of a user that are chained follow each other without a fork or a
\* cycle, the last one is the entry of the lock table, and one at most may run.
Chain ==
    /\ \A u \in Users : lock[u] # None => InChain(lock[u]) /\ UserOf[lock[u]] = u
    /\ \A c \in Calls : InChain(c) =>
          /\ lock[UserOf[c]] \notin {None, chat[c].prev}
          /\ chat[c].prev # None =>
                chat[chat[c].prev].pc # "idle" /\ UserOf[chat[c].prev] = UserOf[c]
    /\ \A c, d \in Calls : InChain(c) /\ InChain(d) /\ c # d /\ chat[c].prev # None
                            => chat[c].prev # chat[d].prev
    /\ \A S \in SUBSET Calls : S # {} /\ (\A c \in S : InChain(c))
                            => \E c \in S : chat[c].prev \notin S

OneFirst == \A c, d \in Calls : First(c) /\ First(d) /\ UserOf[c] = UserOf[d] => c = d

\* A call has nothing of the agent before its prompt and a result only at its end.
Fresh(c) ==
    /\ chat[c].pc \in {"idle", "queued", "session"}
          => frame[c] = "none" /\ chat[c].ended = "no" /\ c \notin hears /\ text[c] = {}
    /\ chat[c].pc \in {"prompt", "reply"} => frame[c] # "none"
    /\ chat[c].pc # "done" => chat[c].result = "none"

\* The agent works on one prompt at most: that of the call that runs.
OneTurn(u) ==
    \/ turns[u] = <<>>
    \/ \E c \in Chat!Peers(u) :
          /\ turns[u] = <<c>> /\ chat[c].pc \in {"prompt", "reply"}
          /\ frame[c] = "taken" /\ chat[c].ended # "end"

Words(u) ==
    /\ OneTurn(u)
    /\ \A c \in Chat!Peers(u) : frame[c] = "sent" => chat[c].pc = "prompt" /\ chat[c].ended # "end"
    /\ \A c \in Chat!Peers(u) : text[c] \subseteq {c}

ChatInv ==
    /\ ChatType /\ Chain /\ OneFirst
    /\ \A c \in Calls : Fresh(c)
    /\ \A u \in Users : Words(u) \/ Chat!Abandoned(u)

USE DEF Chained

LEMMA ChatInit == Chat!Init => ChatInv
<1> SUFFICES ASSUME Chat!Init PROVE ChatInv
  OBVIOUS
<1>1. ChatType
  BY UsersOf DEF Chat!Init, ChatType, Chat!ChatRecord, Chat!Steps, Chat!Results
<1>2. \A c \in Calls : chat[c].pc = "idle" /\ ~InChain(c) /\ ~First(c)
  BY DEF Chat!Init, InChain, First, Running
<1>3. Chain /\ OneFirst
  <2>1. \A S \in SUBSET Calls : S # {} => ~\A c \in S : InChain(c)
    BY <1>2
  <2>2. \A u \in Users : lock[u] = None
    BY Zenon DEF Chat!Init
  <2> QED
    BY <1>2, <2>1, <2>2 DEF Chain, OneFirst
<1>4. \A c \in Calls : Fresh(c)
  BY DEF Chat!Init, Fresh
<1>5. ASSUME NEW u \in Users PROVE Words(u)
  <2>1. turns[u] = <<>> /\ \A c \in Calls : frame[c] = "none" /\ text[c] = {}
    BY Zenon DEF Chat!Init
  <2> QED
    BY <2>1 DEF Words, OneTurn, Chat!Peers
<1> QED
  BY <1>1, <1>3, <1>4, <1>5 DEF ChatInv

\* Calls that go on without leaving the chain keep it; one that may run already did.
LEMMA ChainKept ==
  ASSUME ChatInv, lock' = lock,
         \A d \in Calls : /\ chat'[d].prev = chat[d].prev
                          /\ \/ chat'[d].pc = chat[d].pc
                             \/ chat[d].pc = "idle" /\ chat'[d].pc = "done"
                             \/ First(d) /\ chat'[d].pc \in {"session", "prompt", "reply"}
  PROVE  Chain' /\ OneFirst'
<1>t. ChatType /\ Chain /\ OneFirst
  BY DEF ChatInv
<1>p. \A d \in Calls : chat[d].prev \in Calls \cup {None}
  BY <1>t DEF ChatType, Chat!ChatRecord
<1>1. \A d \in Calls : InChain(d)' <=> InChain(d)
  BY DEF InChain, First, Running
<1>2. \A d \in Calls : First(d)' => First(d)
  <2> SUFFICES ASSUME NEW d \in Calls, First(d)' PROVE First(d)
    OBVIOUS
  <2>1. CASE chat'[d].pc # chat[d].pc
    BY <2>1 DEF First, Running
  <2>2. CASE chat'[d].pc = chat[d].pc /\ chat[d].pc # "queued"
    BY <2>2 DEF First, Running
  <2>3. CASE chat'[d].pc = chat[d].pc /\ chat[d].pc = "queued"
    <3>1. chat[d].prev = None \/ chat'[chat[d].prev].pc = "done"
      BY <2>3 DEF First, Running, Chat!MayStart, Chat!Settled
    <3>2. chat[d].prev # None => chat[d].prev \in Calls /\ chat[chat[d].prev].pc # "idle"
      BY <2>3, <1>t, <1>p DEF Chain, InChain
    <3>3. chat[d].prev # None => chat[chat[d].prev].pc = "done"
      BY <3>1, <3>2 DEF First, Running
    <3> QED
      BY <2>3, <3>3 DEF First, Chat!MayStart, Chat!Settled
  <2> QED
    BY <2>1, <2>2, <2>3
<1>3. OneFirst'
  BY <1>2, <1>t DEF OneFirst
<1>4. \A d \in Calls : chat'[d].pc = "idle" => chat[d].pc = "idle"
  OBVIOUS
<1>5. \A u \in Users : lock'[u] # None => chat'[lock'[u]].pc \in Chained /\ UserOf[lock'[u]] = u
  <2> SUFFICES ASSUME NEW u \in Users, lock[u] # None
               PROVE  chat'[lock[u]].pc \in Chained /\ UserOf[lock[u]] = u
    OBVIOUS
  <2>1. lock[u] \in Calls /\ InChain(lock[u]) /\ UserOf[lock[u]] = u
    BY <1>t DEF Chain, ChatType
  <2> QED
    BY <2>1, <1>1 DEF InChain
<1>6. \A c \in Calls : InChain(c)' =>
          /\ lock'[UserOf[c]] \notin {None, chat'[c].prev}
          /\ chat'[c].prev # None =>
                chat'[chat'[c].prev].pc # "idle" /\ UserOf[chat'[c].prev] = UserOf[c]
  BY <1>1, <1>4, <1>p, <1>t DEF Chain
<1>7. \A c, d \in Calls : InChain(c)' /\ InChain(d)' /\ c # d /\ chat'[c].prev # None
                            => chat'[c].prev # chat'[d].prev
  BY <1>1, <1>t DEF Chain
<1>8. \A S \in SUBSET Calls : S # {} /\ (\A c \in S : InChain(c)')
                            => \E c \in S : chat'[c].prev \notin S
  <2> SUFFICES ASSUME NEW S \in SUBSET Calls, S # {}, \A c \in S : InChain(c)'
               PROVE  \E c \in S : chat'[c].prev \notin S
    OBVIOUS
  <2>1. \A c \in S : InChain(c)
    BY <1>1
  <2>2. PICK c \in S : chat[c].prev \notin S
    BY <2>1, <1>t DEF Chain
  <2> QED
    BY <2>2
<1> QED
  BY <1>3, <1>5, <1>6, <1>7, <1>8 DEF Chain, InChain

\* A call joins the chain behind the last.
LEMMA ChainGrows ==
  ASSUME ChatInv, NEW c \in Calls, Chat!Enqueue(c)
  PROVE  Chain' /\ OneFirst'
<1> DEFINE u == UserOf[c]
<1>t. ChatType /\ Chain /\ OneFirst /\ u \in Users
  BY UsersOf DEF ChatInv
<1>p. \A d \in Calls : chat[d].prev \in Calls \cup {None}
  BY <1>t DEF ChatType, Chat!ChatRecord
<1>0. /\ chat[c].pc = "idle" /\ lock' = [lock EXCEPT ![u] = c]
      /\ \A d \in Calls : d # c => chat'[d] = chat[d]
      /\ chat'[c].pc = "queued" /\ chat'[c].prev = lock[u]
  BY <1>t DEF Chat!Enqueue, Chat!At, ChatType, Chat!ChatRecord
<1>n. None \notin Calls
  BY NoneAssumption
<1>1. \A d \in Calls : InChain(d)' <=> InChain(d) \/ d = c
  BY <1>0 DEF InChain
<1>2. ~InChain(c) /\ \A d \in Calls : InChain(d) => chat[d].prev # c
  BY <1>0, <1>n, <1>t DEF InChain, Chain
<1>l. \A v \in Users : lock'[v] = IF v = u THEN c ELSE lock[v]
  BY <1>0, <1>t DEF ChatType
<1>3. lock[u] # None => InChain(lock[u]) /\ UserOf[lock[u]] = u /\ lock[u] \in Calls /\ lock[u] # c
  BY <1>2, <1>t DEF Chain, ChatType
<1>4. \A v \in Users : lock'[v] # None => chat'[lock'[v]].pc \in Chained /\ UserOf[lock'[v]] = v
  <2> SUFFICES ASSUME NEW v \in Users, lock'[v] # None PROVE chat'[lock'[v]].pc \in Chained /\ UserOf[lock'[v]] = v
    OBVIOUS
  <2>1. CASE v = u
    BY <2>1, <1>1, <1>l DEF InChain
  <2>2. CASE v # u
    <3>1. lock'[v] = lock[v] /\ lock[v] \in Calls /\ InChain(lock[v]) /\ UserOf[lock[v]] = v
      BY <2>2, <1>l, <1>t DEF Chain, ChatType
    <3> QED
      BY <3>1, <1>1 DEF InChain
  <2> QED
    BY <2>1, <2>2
<1>5. \A d \in Calls : InChain(d)' =>
          /\ lock'[UserOf[d]] \notin {None, chat'[d].prev}
          /\ chat'[d].prev # None =>
                chat'[chat'[d].prev].pc # "idle" /\ UserOf[chat'[d].prev] = UserOf[d]
  <2> SUFFICES ASSUME NEW d \in Calls, InChain(d)'
               PROVE  /\ lock'[UserOf[d]] \notin {None, chat'[d].prev}
                      /\ chat'[d].prev # None =>
                            chat'[chat'[d].prev].pc # "idle" /\ UserOf[chat'[d].prev] = UserOf[d]
    OBVIOUS
  <2>1. CASE d = c
    <3>1. lock[u] # None => chat'[lock[u]].pc # "idle"
      BY <1>0, <1>3 DEF InChain
    <3> QED
      BY <2>1, <3>1, <1>0, <1>3, <1>l, <1>n, <1>t
  <2>2. CASE d # c
    <3>1. InChain(d) /\ chat'[d] = chat[d] /\ UserOf[d] \in Users /\ chat[d].prev # c
      BY <2>2, <1>0, <1>1, <1>2, UsersOf
    <3>2. chat[d].prev # None => chat'[chat[d].prev].pc # "idle" /\ UserOf[chat[d].prev] = UserOf[d]
      BY <3>1, <1>0, <1>p, <1>t DEF Chain
    <3>3. lock'[UserOf[d]] \notin {None, chat[d].prev}
      BY <3>1, <1>l, <1>n, <1>t DEF Chain
    <3> QED
      BY <3>1, <3>2, <3>3
  <2> QED
    BY <2>1, <2>2
<1>6. \A d, e \in Calls : InChain(d)' /\ InChain(e)' /\ d # e /\ chat'[d].prev # None
                            => chat'[d].prev # chat'[e].prev
  <2> SUFFICES ASSUME NEW d \in Calls, NEW e \in Calls, InChain(d)', InChain(e)', d # e,
                      chat'[d].prev # None, chat'[d].prev = chat'[e].prev
               PROVE  FALSE
    OBVIOUS
  <2>1. \A f \in Calls \ {c} : InChain(f) /\ lock[u] # None => chat[f].prev # lock[u]
    <3> SUFFICES ASSUME NEW f \in Calls \ {c}, InChain(f), lock[u] # None, chat[f].prev = lock[u]
                 PROVE  FALSE
      OBVIOUS
    <3>1. UserOf[f] = u
      BY <1>3, <1>t DEF Chain
    <3> QED
      BY <3>1, <1>t DEF Chain
  <2>2. CASE d = c
    BY <2>1, <2>2, <1>0, <1>1
  <2>3. CASE e = c
    BY <2>1, <2>3, <1>0, <1>1
  <2>4. CASE d # c /\ e # c
    BY <2>4, <1>0, <1>1, <1>t DEF Chain
  <2> QED
    BY <2>2, <2>3, <2>4
<1>7. \A S \in SUBSET Calls : S # {} /\ (\A d \in S : InChain(d)')
                            => \E d \in S : chat'[d].prev \notin S
  <2> SUFFICES ASSUME NEW S \in SUBSET Calls, S # {}, \A d \in S : InChain(d)'
               PROVE  \E d \in S : chat'[d].prev \notin S
    OBVIOUS
  <2>1. CASE S \subseteq {c}
    <3>1. chat'[c].prev # c
      BY <1>0, <1>3, <1>n
    <3> QED
      BY <2>1, <3>1
  <2>2. CASE ~(S \subseteq {c})
    <3>1. \A d \in S \ {c} : InChain(d)
      BY <1>1
    <3>2. PICK d \in S \ {c} : chat[d].prev \notin S \ {c}
      BY <2>2, <3>1, <1>t DEF Chain
    <3>3. chat'[d].prev = chat[d].prev /\ chat[d].prev # c
      BY <3>1, <3>2, <1>0, <1>2
    <3> QED
      BY <3>2, <3>3
  <2> QED
    BY <2>1, <2>2
<1>8. \A d \in Calls \ {c} : First(d)' => First(d)
  <2> SUFFICES ASSUME NEW d \in Calls \ {c}, First(d)' PROVE First(d)
    OBVIOUS
  <2>1. chat'[d] = chat[d]
    BY <1>0
  <2>2. chat[d].pc = "queued" /\ chat[d].prev # None => chat[d].prev \in Calls /\ chat[d].prev # c
    BY <1>2, <1>p DEF InChain
  <2> QED
    BY <2>1, <2>2, <1>0 DEF First, Running, Chat!MayStart, Chat!Settled
<1>9. \A d \in Calls \ {c} : First(c)' /\ UserOf[d] = u => ~First(d)
  <2> SUFFICES ASSUME NEW d \in Calls \ {c}, First(c)', UserOf[d] = u, First(d) PROVE FALSE
    OBVIOUS
  <2>1. lock[u] = None
    BY <1>0, <1>3 DEF First, Running, Chat!MayStart, Chat!Settled, InChain
  <2>2. InChain(d)
    BY DEF First, Running, InChain
  <2> QED
    BY <2>1, <2>2, <1>t DEF Chain
<1>10. OneFirst'
  BY <1>8, <1>9, <1>t DEF OneFirst
<1> QED
  BY <1>4, <1>5, <1>6, <1>7, <1>10 DEF Chain, InChain

\* The call that runs leaves the chain, and the one behind it may start.
LEMMA ChainShrinks ==
  ASSUME ChatInv, NEW c \in Calls, NEW result \in Chat!Results, Running(c), Chat!Settle(c, result)
  PROVE  Chain' /\ OneFirst'
<1> DEFINE u == UserOf[c]
<1>t. ChatType /\ Chain /\ OneFirst /\ u \in Users
  BY UsersOf DEF ChatInv
<1>p. \A d \in Calls : chat[d].prev \in Calls \cup {None}
  BY <1>t DEF ChatType, Chat!ChatRecord
<1>0. /\ lock' = [lock EXCEPT ![u] = IF lock[u] = c THEN None ELSE lock[u]]
      /\ \A d \in Calls : d # c => chat'[d] = chat[d]
      /\ chat'[c].pc = "done" /\ chat'[c].prev = None
  BY <1>t DEF Chat!Settle, Chat!Prune, ChatType
<1>n. None \notin Calls
  BY NoneAssumption
<1>1. \A d \in Calls : InChain(d)' <=> InChain(d) /\ d # c
  BY <1>0 DEF InChain
<1>l. \A v \in Users : lock'[v] = IF v = u /\ lock[u] = c THEN None ELSE lock[v]
  BY <1>0, <1>t DEF ChatType
<1>f. First(c) /\ InChain(c)
  BY DEF First, Running, InChain
\* When it is the last it is the only one: the others would follow each other in a cycle.
<1>2. ASSUME lock[u] = c, NEW d \in Calls, d # c, InChain(d), UserOf[d] = u PROVE FALSE
  <2>0. PICK S \in SUBSET Calls : S = {e \in Calls : e # c /\ InChain(e) /\ UserOf[e] = u}
    OBVIOUS
  <2>1. d \in S
    BY <1>2, <2>0
  <2>2. PICK e \in S : chat[e].prev \notin S
    BY <2>0, <2>1, <1>t DEF Chain
  <2>3. e # c /\ InChain(e) /\ UserOf[e] = u /\ ~First(e)
    BY <2>0, <2>2, <1>f, <1>t DEF OneFirst
  <2>4. chat[e].pc = "queued" /\ chat[e].prev # None /\ chat[chat[e].prev].pc # "done"
    BY <2>3 DEF First, Running, InChain, Chat!MayStart, Chat!Settled
  <2>5. /\ chat[e].prev \in Calls /\ chat[e].prev # c /\ UserOf[chat[e].prev] = u
        /\ chat[chat[e].prev].pc # "idle"
    BY <1>2, <2>3, <2>4, <1>p, <1>t DEF Chain
  <2>6. InChain(chat[e].prev)
    BY <2>4, <2>5, <1>t DEF InChain, ChatType, Chat!ChatRecord, Chat!Steps
  <2> QED
    BY <2>0, <2>2, <2>5, <2>6
<1>4. \A v \in Users : lock'[v] # None => chat'[lock'[v]].pc \in Chained /\ UserOf[lock'[v]] = v
  <2> SUFFICES ASSUME NEW v \in Users, lock'[v] # None PROVE chat'[lock'[v]].pc \in Chained /\ UserOf[lock'[v]] = v
    OBVIOUS
  <2>1. lock'[v] = lock[v] /\ lock[v] \in Calls /\ InChain(lock[v]) /\ UserOf[lock[v]] = v
    BY <1>l, <1>t DEF Chain, ChatType
  <2>2. lock[v] # c
    BY <2>1, <1>l
  <2> QED
    BY <2>1, <2>2, <1>1 DEF InChain
<1>5. \A d \in Calls : InChain(d)' =>
          /\ lock'[UserOf[d]] \notin {None, chat'[d].prev}
          /\ chat'[d].prev # None =>
                chat'[chat'[d].prev].pc # "idle" /\ UserOf[chat'[d].prev] = UserOf[d]
  <2> SUFFICES ASSUME NEW d \in Calls, InChain(d)'
               PROVE  /\ lock'[UserOf[d]] \notin {None, chat'[d].prev}
                      /\ chat'[d].prev # None =>
                            chat'[chat'[d].prev].pc # "idle" /\ UserOf[chat'[d].prev] = UserOf[d]
    OBVIOUS
  <2>1. InChain(d) /\ d # c /\ chat'[d] = chat[d] /\ UserOf[d] \in Users
    BY <1>0, <1>1, UsersOf
  <2>2. lock'[UserOf[d]] = lock[UserOf[d]]
    BY <2>1, <1>2, <1>l
  <2>3. chat[d].prev # None => chat[chat[d].prev].pc # "idle" /\ UserOf[chat[d].prev] = UserOf[d]
    BY <2>1, <1>t DEF Chain
  <2>4. chat[d].prev # None => chat'[chat[d].prev].pc # "idle"
    BY <2>3, <1>0, <1>p
  <2>5. lock[UserOf[d]] \notin {None, chat[d].prev}
    BY <2>1, <1>t DEF Chain
  <2> QED
    BY <2>1, <2>2, <2>3, <2>4, <2>5
<1>6. \A d, e \in Calls : InChain(d)' /\ InChain(e)' /\ d # e /\ chat'[d].prev # None
                            => chat'[d].prev # chat'[e].prev
  BY <1>0, <1>1, <1>t DEF Chain
<1>7. \A S \in SUBSET Calls : S # {} /\ (\A d \in S : InChain(d)')
                            => \E d \in S : chat'[d].prev \notin S
  <2> SUFFICES ASSUME NEW S \in SUBSET Calls, S # {}, \A d \in S : InChain(d)'
               PROVE  \E d \in S : chat'[d].prev \notin S
    OBVIOUS
  <2>1. \A d \in S : InChain(d) /\ d # c
    BY <1>1
  <2>2. PICK d \in S : chat[d].prev \notin S
    BY <2>1, <1>t DEF Chain
  <2> QED
    BY <2>1, <2>2, <1>0
<1>8. \A d \in Calls : First(d)' => d # c /\ InChain(d) /\ (First(d) \/ chat[d].prev = c)
  <2> SUFFICES ASSUME NEW d \in Calls, First(d)'
               PROVE  d # c /\ InChain(d) /\ (First(d) \/ chat[d].prev = c)
    OBVIOUS
  <2>1. d # c /\ chat'[d] = chat[d]
    BY <1>0 DEF First, Running
  <2>2. CASE chat[d].pc = "queued" /\ chat[d].prev \notin {None, c}
    <3>1. chat'[chat[d].prev] = chat[chat[d].prev]
      BY <2>2, <1>0, <1>p
    <3> QED
      BY <2>1, <2>2, <3>1 DEF First, Running, InChain, Chat!MayStart, Chat!Settled
  <2>3. CASE ~(chat[d].pc = "queued" /\ chat[d].prev \notin {None, c})
    BY <2>1, <2>3 DEF First, Running, InChain, Chat!MayStart, Chat!Settled
  <2> QED
    BY <2>2, <2>3
<1>9. OneFirst'
  <2> SUFFICES ASSUME NEW d \in Calls, NEW e \in Calls, First(d)', First(e)', UserOf[d] = UserOf[e], d # e
               PROVE  FALSE
    BY DEF OneFirst
  <2>1. /\ InChain(d) /\ d # c /\ (First(d) \/ chat[d].prev = c)
        /\ InChain(e) /\ e # c /\ (First(e) \/ chat[e].prev = c)
    BY <1>8
  <2>2. \A f \in {d, e} : chat[f].prev = c => UserOf[f] = u
    BY <2>1, <1>n, <1>t DEF Chain
  <2>3. \A f \in {d, e} : First(f) => UserOf[f] # u
    BY <2>1, <1>f, <1>t DEF OneFirst
  <2>4. CASE First(d) /\ First(e)
    BY <2>4, <1>t DEF OneFirst
  <2>5. CASE chat[d].prev = c /\ chat[e].prev = c
    BY <2>1, <2>5, <1>n, <1>t DEF Chain
  <2> QED
    BY <2>1, <2>2, <2>3, <2>4, <2>5
<1> QED
  BY <1>4, <1>5, <1>6, <1>7, <1>9 DEF Chain, InChain

\* The words of a user's calls are untouched by a step that touches none of them.
LEMMA OtherUsers ==
  ASSUME NEW v \in Users, Words(v) \/ Chat!Abandoned(v), turns'[v] = turns[v],
         \A d \in Chat!Peers(v) : chat'[d] = chat[d] /\ frame'[d] = frame[d] /\ text'[d] = text[d]
  PROVE  Words(v)' \/ Chat!Abandoned(v)'
<1>1. Chat!Peers(v)' = Chat!Peers(v)
  BY DEF Chat!Peers
<1>2. CASE Chat!Abandoned(v)
  BY <1>1, <1>2 DEF Chat!Abandoned
<1>3. CASE Words(v)
  <2>1. OneTurn(v)'
    <3>1. CASE turns[v] = <<>>
      BY <3>1 DEF OneTurn
    <3>2. CASE turns[v] # <<>>
      <4>1. PICK c \in Chat!Peers(v) : /\ turns[v] = <<c>> /\ chat[c].pc \in {"prompt", "reply"}
                                       /\ frame[c] = "taken" /\ chat[c].ended # "end"
        BY <1>3, <3>2 DEF Words, OneTurn
      <4> QED
        BY <1>1, <4>1 DEF OneTurn
    <3> QED
      BY <3>1, <3>2
  <2> QED
    BY <1>1, <1>3, <2>1 DEF Words
<1> QED
  BY <1>2, <1>3

\* A step of one call, or of the agent with its frame.
LEMMA OneCall ==
  ASSUME ChatInv, NEW c \in Calls, NEW new \in Chat!ChatRecord,
         chat' = [chat EXCEPT ![c] = new],
         NEW x \in {"none", "sent", "taken", "refused"}, frame' = [frame EXCEPT ![c] = x],
         hears' \in {hears, hears \cup {c}}, text' = text,
         lock' \in [Users -> Calls \cup {None}], turns' \in [Users -> Seq(Calls)],
         \A v \in Users : v # UserOf[c] => turns'[v] = turns[v],
         Chain', OneFirst', Fresh(c)',
         chat[c].pc # "done" \/ (new.result = chat[c].result /\ x # "none"),
         Words(UserOf[c]) => \/ Chat!Abandoned(UserOf[c])'
                             \/ /\ OneTurn(UserOf[c])'
                                /\ x = "sent" => new.pc = "prompt" /\ new.ended # "end"
  PROVE  ChatInv'
<1>t. ChatType
  BY DEF ChatInv
<1>1. ChatType'
  BY <1>t DEF ChatType
<1>0. \A d \in Calls \ {c} : chat'[d] = chat[d] /\ frame'[d] = frame[d] /\ chat'[c] = new /\ frame'[c] = x
  BY <1>t DEF ChatType
<1>2. \A d \in Calls : Fresh(d)'
  <2> SUFFICES ASSUME NEW d \in Calls, d # c PROVE Fresh(d)'
    OBVIOUS
  <2>1. Fresh(d) /\ chat'[d] = chat[d] /\ frame'[d] = frame[d] /\ (d \in hears' <=> d \in hears)
    BY <1>0 DEF ChatInv
  <2> QED
    BY <2>1 DEF Fresh
<1>p. \A v \in Users : Chat!Peers(v)' = Chat!Peers(v)
  BY DEF Chat!Peers
<1>3. ASSUME NEW v \in Users PROVE Words(v)' \/ Chat!Abandoned(v)'
  <2>1. CASE v # UserOf[c]
    <3>1. \A d \in Chat!Peers(v) : d \in Calls \ {c}
      BY <2>1 DEF Chat!Peers
    <3> QED
      BY <2>1, <3>1, <1>0, OtherUsers DEF ChatInv
  <2>2. CASE v = UserOf[c] /\ Chat!Abandoned(v)
    <3>1. PICK d \in Chat!Peers(v) : chat[d].result \in {"timeout", "failed"} /\ frame[d] # "none"
      BY <2>2 DEF Chat!Abandoned
    <3>2. d \in Calls /\ Fresh(d)
      BY DEF Chat!Peers, ChatInv
    <3>3. chat'[d].result \in {"timeout", "failed"} /\ frame'[d] # "none"
      <4>1. CASE d = c
        BY <3>1, <3>2, <4>1, <1>t DEF Fresh, ChatType
      <4>2. CASE d # c
        BY <3>1, <3>2, <4>2, <1>0
      <4> QED
        BY <4>1, <4>2
    <3> QED
      BY <3>1, <3>3, <1>p DEF Chat!Abandoned
  <2>3. CASE v = UserOf[c] /\ Words(v)
    <3>1. CASE Chat!Abandoned(v)'
      BY <3>1
    <3>2. CASE ~Chat!Abandoned(v)'
      <4>1. OneTurn(v)' /\ (x = "sent" => new.pc = "prompt" /\ new.ended # "end")
        BY <2>3, <3>2
      <4>2. ASSUME NEW d \in Chat!Peers(v), frame'[d] = "sent"
            PROVE  chat'[d].pc = "prompt" /\ chat'[d].ended # "end"
        <5>1. d \in Calls
          BY DEF Chat!Peers
        <5> QED
          BY <2>3, <4>1, <4>2, <5>1, <1>0, <1>t DEF Words, ChatType
      <4> QED
        BY <2>3, <4>1, <4>2, <1>p DEF Words
    <3> QED
      BY <3>1, <3>2
  <2> QED
    BY <2>1, <2>2, <2>3 DEF ChatInv
<1> QED
  BY <1>1, <1>2, <1>3 DEF ChatInv

\* While another call has the agent's turn, it stays where it is.
LEMMA TurnKept ==
  ASSUME ChatInv, NEW c \in Calls, OneTurn(UserOf[c]), turns'[UserOf[c]] = turns[UserOf[c]],
         \A d \in Calls \ {c} : chat'[d] = chat[d] /\ frame'[d] = frame[d],
         \/ chat[c].pc \notin {"prompt", "reply"}
         \/ frame[c] # "taken"
         \/ chat'[c].pc \in {"prompt", "reply"} /\ frame'[c] = frame[c] /\ chat'[c].ended = chat[c].ended
  PROVE  OneTurn(UserOf[c])'
<1> DEFINE u == UserOf[c]
<1>1. CASE turns[u] = <<>>
  BY <1>1 DEF OneTurn
<1>2. CASE turns[u] # <<>>
  <2>1. PICK d \in Chat!Peers(u) : /\ turns[u] = <<d>> /\ chat[d].pc \in {"prompt", "reply"}
                                   /\ frame[d] = "taken" /\ chat[d].ended # "end"
    BY <1>2 DEF OneTurn
  <2>2. d \in Calls /\ d \in Chat!Peers(u)'
    BY DEF Chat!Peers
  <2>3. /\ turns'[u] = <<d>> /\ chat'[d].pc \in {"prompt", "reply"}
        /\ frame'[d] = "taken" /\ chat'[d].ended # "end"
    BY <2>1, <2>2
  <2> QED
    BY <2>2, <2>3 DEF OneTurn
<1> QED
  BY <1>1, <1>2

\* Only one call of a user runs.
LEMMA OneRuns ==
  ASSUME ChatInv, NEW c \in Calls, NEW d \in Calls, UserOf[c] = UserOf[d], Running(c), Running(d)
  PROVE  c = d
  BY DEF ChatInv, OneFirst, First

LEMMA CallStep ==
  ASSUME ChatInv, NEW c \in Calls,
         \/ Chat!InvalidArgs(c) \/ Chat!Enqueue(c) \/ Chat!CallStep(c)
         \/ Chat!AgentTakes(c) \/ Chat!AgentRefuses(c)
  PROVE  ChatInv'
<1> DEFINE u == UserOf[c]
           Frames == {"none", "sent", "taken", "refused"}
<1>t. /\ ChatType /\ u \in Users /\ chat[c] \in Chat!ChatRecord /\ frame[c] \in Frames
      /\ frame = [frame EXCEPT ![c] = frame[c]] /\ chat = [chat EXCEPT ![c] = chat[c]]
  BY UsersOf DEF ChatInv, ChatType
<1>f. Fresh(c) /\ c \in Chat!Peers(u)
  BY DEF ChatInv, Chat!Peers
\* The call moves on in the chain, the agent's turn as it is.
<1>m. ASSUME NEW new \in Chat!ChatRecord, chat' = [chat EXCEPT ![c] = new],
             NEW x \in Frames, frame' = [frame EXCEPT ![c] = x], Chain', OneFirst', Fresh(c)',
             hears' \in {hears, hears \cup {c}}, UNCHANGED <<text, turns>>,
             lock' \in [Users -> Calls \cup {None}],
             chat[c].pc \in {"idle", "queued", "session"} \/ (chat[c].pc = "prompt" /\ frame[c] = "taken"),
             x = "sent" => new.pc = "prompt" /\ new.ended # "end",
             \/ chat[c].pc # "prompt"
             \/ new.pc = "reply" /\ x = frame[c] /\ new.ended = chat[c].ended
      PROVE  ChatInv'
  <2>1. /\ \A d \in Calls \ {c} : chat'[d] = chat[d] /\ frame'[d] = frame[d]
        /\ chat'[c] = new /\ frame'[c] = x
    BY <1>m, <1>t DEF ChatType
  <2>2. Words(u) => OneTurn(u)'
    BY <1>m, <2>1, TurnKept DEF Words
  <2>3. turns' \in [Users -> Seq(Calls)]
    BY <1>m, <1>t DEF ChatType
  <2>4. Words(u) => \/ Chat!Abandoned(u)'
                    \/ /\ OneTurn(u)'
                       /\ x = "sent" => new.pc = "prompt" /\ new.ended # "end"
    BY <1>m, <2>2
  <2>5. \A v \in Users : v # u => turns'[v] = turns[v]
    BY <1>m
  <2>6. chat[c].pc # "done" \/ (new.result = chat[c].result /\ x # "none")
    BY <1>m
  <2> QED
    BY <1>m, <2>3, <2>4, <2>5, <2>6, OneCall
\* The call that runs settles.
<1>s. ASSUME NEW result \in {"text", "timeout", "failed"}, Running(c), Chat!Settle(c, result),
             UNCHANGED <<frame, turns, hears, text>>,
             Words(u) => Chat!Abandoned(u)' \/ (OneTurn(u)' /\ frame[c] # "sent")
      PROVE  ChatInv'
  <2> DEFINE new == [pc |-> "done", prev |-> None, result |-> result, ended |-> "no"]
  <2>1. chat' = [chat EXCEPT ![c] = new] /\ new \in Chat!ChatRecord
    BY <1>s DEF Chat!Settle, Chat!ChatRecord, Chat!Steps, Chat!Results
  <2>2. Chain' /\ OneFirst'
    BY <1>s, ChainShrinks DEF Chat!Results
  <2>3. lock' \in [Users -> Calls \cup {None}] /\ turns' \in [Users -> Seq(Calls)]
    BY <1>s, <1>t DEF Chat!Settle, Chat!Prune, ChatType
  <2>4. chat[c].pc # "done"
    BY <1>s DEF Running
  <2>5. Fresh(c)'
    BY <2>1, <1>t DEF Fresh, ChatType
  <2>6. Words(u) => \/ Chat!Abandoned(u)'
                    \/ /\ OneTurn(u)'
                       /\ frame[c] = "sent" => new.pc = "prompt" /\ new.ended # "end"
    BY <1>s
  <2>7. \A v \in Users : v # u => turns'[v] = turns[v]
    BY <1>s
  <2>8. frame' = [frame EXCEPT ![c] = frame[c]]
    BY <1>s, <1>t
  <2> HIDE DEF new
  <2> QED
    BY <1>s, <1>t, <2>1, <2>2, <2>3, <2>4, <2>5, <2>6, <2>7, <2>8, OneCall
\* Given up with its prompt sent.
<1>a. ASSUME NEW result \in {"timeout", "failed"}, Chat!Settle(c, result), frame[c] # "none",
             UNCHANGED frame
      PROVE  Chat!Abandoned(u)'
  <2>1. chat'[c].result = result /\ frame'[c] # "none" /\ c \in Chat!Peers(u)'
    BY <1>a, <1>t DEF Chat!Settle, ChatType, Chat!Peers
  <2> QED
    BY <2>1 DEF Chat!Abandoned
<1>1. CASE Chat!InvalidArgs(c)
  <2> DEFINE new == [chat[c] EXCEPT !.pc = "done", !.result = "failed"]
  <2>1. /\ chat[c].pc = "idle" /\ chat' = [chat EXCEPT ![c] = new] /\ new \in Chat!ChatRecord
        /\ new.pc = "done" /\ new.prev = chat[c].prev
        /\ UNCHANGED <<frame, turns, lock, hears, text>>
    BY <1>1, <1>t DEF Chat!InvalidArgs, Chat!At, Chat!child, Chat!ChatRecord, Chat!Steps, Chat!Results
  <2> HIDE DEF new
  <2>2. \A d \in Calls : chat'[d] = IF d = c THEN new ELSE chat[d]
    BY <2>1, <1>t DEF ChatType
  <2>3. Chain' /\ OneFirst'
    BY <2>1, <2>2, ChainKept
  <2>4. Fresh(c)' /\ frame[c] # "sent"
    BY <2>1, <2>2, <1>f DEF Fresh
  <2> QED
    BY <2>1, <2>3, <2>4, <1>t, <1>m DEF ChatType
<1>2. CASE Chat!Enqueue(c)
  <2> DEFINE new == [chat[c] EXCEPT !.pc = "queued", !.prev = lock[u]]
  <2>a. /\ chat[c].pc = "idle" /\ UNCHANGED <<frame, turns, hears, text>>
        /\ chat' = [chat EXCEPT ![c] = new] /\ lock' = [lock EXCEPT ![u] = c]
    BY <1>2 DEF Chat!Enqueue, Chat!At, Chat!child
  <2>b. lock[u] \in Calls \cup {None}
    BY <1>t DEF ChatType
  <2>c. /\ new \in Chat!ChatRecord /\ new.pc = "queued"
        /\ new.ended = chat[c].ended /\ new.result = chat[c].result
    BY <2>b, <1>t DEF Chat!ChatRecord, Chat!Steps
  <2>1. /\ chat[c].pc = "idle" /\ chat' = [chat EXCEPT ![c] = new] /\ new \in Chat!ChatRecord
        /\ new.pc = "queued" /\ new.ended = chat[c].ended /\ new.result = chat[c].result
        /\ UNCHANGED <<frame, turns, hears, text>> /\ lock' = [lock EXCEPT ![u] = c]
    BY <2>a, <2>c
  <2> HIDE DEF new
  <2>2. chat'[c] = new /\ lock' \in [Users -> Calls \cup {None}]
    BY <2>1, <1>t DEF ChatType
  <2>3. Chain' /\ OneFirst'
    BY <1>2, ChainGrows
  <2>4. Fresh(c)' /\ frame[c] # "sent"
    BY <2>1, <2>2, <1>f DEF Fresh
  <2> QED
    BY <2>1, <2>2, <2>3, <2>4, <1>t, <1>m
<1>3. CASE Chat!Start(c)
  <2> DEFINE new == [chat[c] EXCEPT !.pc = "session"]
  <2>1. /\ chat[c].pc = "queued" /\ chat' = [chat EXCEPT ![c] = new] /\ new \in Chat!ChatRecord
        /\ new.pc = "session" /\ new.ended = chat[c].ended /\ new.result = chat[c].result
        /\ new.prev = chat[c].prev /\ UNCHANGED <<frame, turns, lock, hears, text>> /\ First(c)
    BY <1>3, <1>t DEF Chat!Start, Chat!At, Chat!child, Chat!ChatRecord, Chat!Steps, First
  <2> HIDE DEF new
  <2>2. \A d \in Calls : chat'[d] = IF d = c THEN new ELSE chat[d]
    BY <2>1, <1>t DEF ChatType
  <2>3. Chain' /\ OneFirst'
    BY <2>1, <2>2, ChainKept
  <2>4. Fresh(c)' /\ frame[c] # "sent"
    BY <2>1, <2>2, <1>f DEF Fresh
  <2> QED
    BY <2>1, <2>3, <2>4, <1>t, <1>m DEF ChatType
<1>4. CASE Chat!Prompt(c)
  <2> DEFINE new == [chat[c] EXCEPT !.pc = "prompt"]
  <2>1. /\ chat[c].pc = "session" /\ chat' = [chat EXCEPT ![c] = new] /\ new \in Chat!ChatRecord
        /\ new.pc = "prompt" /\ new.ended = chat[c].ended /\ new.result = chat[c].result
        /\ new.prev = chat[c].prev /\ UNCHANGED <<turns, lock, text>> /\ First(c)
        /\ frame' = [frame EXCEPT ![c] = "sent"] /\ hears' = hears \cup {c}
    BY <1>4, <1>t DEF Chat!Prompt, Chat!At, Chat!ChatRecord, Chat!Steps, First, Running
  <2> HIDE DEF new
  <2>2. \A d \in Calls : chat'[d] = IF d = c THEN new ELSE chat[d]
    BY <2>1, <1>t DEF ChatType
  <2>3. Chain' /\ OneFirst'
    BY <2>1, <2>2, ChainKept
  <2>4. Fresh(c)' /\ new.ended = "no"
    BY <2>1, <2>2, <1>f, <1>t DEF Fresh, ChatType
  <2> QED
    BY <2>1, <2>3, <2>4, <1>t, <1>m DEF ChatType
<1>5. CASE Chat!Taken(c)
  <2> DEFINE new == [chat[c] EXCEPT !.pc = "reply"]
  <2>1. /\ chat[c].pc = "prompt" /\ chat' = [chat EXCEPT ![c] = new] /\ new \in Chat!ChatRecord
        /\ new.pc = "reply" /\ new.ended = chat[c].ended /\ new.result = chat[c].result
        /\ new.prev = chat[c].prev /\ UNCHANGED <<frame, turns, lock, hears, text>> /\ First(c)
        /\ frame[c] = "taken"
    BY <1>5, <1>t DEF Chat!Taken, Chat!At, Chat!child, Chat!ChatRecord, Chat!Steps, First, Running
  <2> HIDE DEF new
  <2>2. \A d \in Calls : chat'[d] = IF d = c THEN new ELSE chat[d]
    BY <2>1, <1>t DEF ChatType
  <2>3. Chain' /\ OneFirst'
    BY <2>1, <2>2, ChainKept
  <2>4. Fresh(c)'
    BY <2>1, <2>2, <1>f DEF Fresh
  <2> QED
    BY <2>1, <2>3, <2>4, <1>t, <1>m DEF ChatType
<1>6. CASE Chat!NoSession(c)
  <2>1. /\ chat[c].pc = "session" /\ Chat!Settle(c, "failed") /\ UNCHANGED <<frame, turns, hears, text>>
        /\ Running(c) /\ frame[c] = "none"
    BY <1>6, <1>f DEF Chat!NoSession, Chat!At, Chat!child, Running, Fresh
  <2>2. \A d \in Calls \ {c} : chat'[d] = chat[d] /\ frame'[d] = frame[d]
    BY <2>1, <1>t DEF Chat!Settle, ChatType
  <2>3. Words(u) => OneTurn(u)'
    BY <2>1, <2>2, TurnKept DEF Words
  <2> QED
    BY <2>1, <2>3, <1>s
<1>7. CASE Chat!Refused(c)
  BY <1>7, <1>a, <1>s DEF Chat!Refused, Chat!At, Chat!child, Running
<1>8. CASE Chat!TimeOut(c)
  BY <1>8, <1>a, <1>f, <1>s DEF Chat!TimeOut, Chat!child, Running, Fresh
<1>9. CASE Chat!Reply(c)
  <2>1. /\ chat[c].pc = "reply" /\ chat[c].ended # "no" /\ UNCHANGED <<frame, turns, hears, text>>
        /\ Running(c) /\ frame[c] # "none"
    BY <1>9, <1>f DEF Chat!Reply, Chat!At, Chat!child, Running, Fresh
  <2>2. CASE chat[c].ended = "end"
    <3>1. ASSUME Words(u) PROVE turns[u] = <<>> /\ frame[c] # "sent"
      <4>1. ASSUME NEW d \in Chat!Peers(u), turns[u] = <<d>>, chat[d].pc \in {"prompt", "reply"},
                   chat[d].ended # "end"
            PROVE  FALSE
        <5>1. d \in Calls /\ UserOf[d] = u /\ Running(d)
          BY <4>1 DEF Chat!Peers, Running
        <5>2. d = c
          BY <2>1, <5>1, OneRuns
        <5> QED
          BY <2>2, <4>1, <5>2
      <4> QED
        BY <2>1, <3>1, <4>1, <1>f DEF Words, OneTurn
    <3>2. Words(u) => OneTurn(u)' /\ frame[c] # "sent"
      BY <2>1, <3>1 DEF OneTurn
    <3> QED
      BY <1>9, <2>1, <2>2, <3>2, <1>s DEF Chat!Reply
  <2>3. CASE chat[c].ended # "end"
    <3>1. Chat!Settle(c, "failed")
      BY <1>9, <2>3 DEF Chat!Reply
    <3> QED
      BY <2>1, <3>1, <1>a, <1>s
  <2> QED
    BY <2>2, <2>3
<1>10. CASE Chat!AgentTakes(c)
  <2>1. /\ frame[c] = "sent" /\ frame' = [frame EXCEPT ![c] = "taken"]
        /\ turns' = [turns EXCEPT ![u] = Append(turns[u], c)]
        /\ UNCHANGED <<chat, lock, hears, text>>
    BY <1>10 DEF Chat!AgentTakes
  <2>2. chat' = [chat EXCEPT ![c] = chat[c]] /\ frame'[c] = "taken"
    BY <2>1, <1>t DEF ChatType
  <2>3. Chain' /\ OneFirst'
    BY <2>1, ChainKept
  <2>4. Fresh(c)'
    BY <2>1, <2>2, <1>f DEF Fresh
  <2>5. ASSUME Words(u) PROVE OneTurn(u)'
    <3>1. chat[c].pc = "prompt" /\ chat[c].ended # "end"
      BY <2>1, <2>5, <1>f DEF Words
    <3>2. ASSUME NEW d \in Chat!Peers(u), turns[u] = <<d>>, chat[d].pc \in {"prompt", "reply"},
                 frame[d] = "taken"
          PROVE  FALSE
      <4>1. d \in Calls /\ UserOf[d] = u /\ Running(d) /\ Running(c)
        BY <3>1, <3>2 DEF Chat!Peers, Running
      <4>2. d = c
        BY <4>1, OneRuns
      <4> QED
        BY <2>1, <3>2, <4>2
    <3>3. turns[u] = <<>>
      BY <2>5, <3>2 DEF Words, OneTurn
    <3>4. turns'[u] = <<c>>
      BY <2>1, <3>3, <1>t DEF ChatType
    <3>5. c \in Chat!Peers(u)'
      BY <1>t DEF Chat!Peers
    <3> QED
      BY <2>1, <2>2, <3>1, <3>4, <3>5 DEF OneTurn
  <2>6. turns' \in [Users -> Seq(Calls)] /\ \A v \in Users : v # u => turns'[v] = turns[v]
    BY <2>1, <1>t DEF ChatType
  <2>7. lock' \in [Users -> Calls \cup {None}]
    BY <2>1, <1>t DEF ChatType
  <2> QED
    BY <2>1, <2>2, <2>3, <2>4, <2>5, <2>6, <2>7, <1>t, OneCall
<1>11. CASE Chat!AgentRefuses(c)
  <2>1. /\ frame[c] = "sent" /\ frame' = [frame EXCEPT ![c] = "refused"]
        /\ UNCHANGED <<chat, lock, turns, hears, text>>
    BY <1>11 DEF Chat!AgentRefuses
  <2>2. /\ chat' = [chat EXCEPT ![c] = chat[c]] /\ frame'[c] = "refused"
        /\ \A d \in Calls \ {c} : chat'[d] = chat[d] /\ frame'[d] = frame[d]
    BY <2>1, <1>t DEF ChatType
  <2>3. Chain' /\ OneFirst'
    BY <2>1, ChainKept
  <2>4. Fresh(c)'
    BY <2>1, <2>2, <1>f DEF Fresh
  <2>5. Words(u) => OneTurn(u)'
    BY <2>1, <2>2, TurnKept DEF Words
  <2>6. turns' \in [Users -> Seq(Calls)] /\ lock' \in [Users -> Calls \cup {None}]
    BY <2>1, <1>t DEF ChatType
  <2> QED
    BY <2>1, <2>2, <2>3, <2>4, <2>5, <2>6, <1>t, OneCall
<1> QED
  BY <1>1, <1>2, <1>3, <1>4, <1>5, <1>6, <1>7, <1>8, <1>9, <1>10, <1>11 DEF Chat!CallStep

\* A listener that waits is that of the call with the agent's turn.
LEMMA WaitingRuns ==
  ASSUME ChatInv, NEW u \in Users, NEW c \in Chat!Waiting(u)
  PROVE  c \in Calls /\ UserOf[c] = u /\ chat[c].pc \in {"prompt", "reply"}
<1>1. c \in Calls /\ UserOf[c] = u /\ c \in hears /\ chat[c].pc # "done" /\ Fresh(c)
  BY DEF Chat!Waiting, Chat!Peers, ChatInv
<1> QED
  BY <1>1 DEF Fresh, ChatInv, ChatType, Chat!ChatRecord, Chat!Steps

\* What the agent of a user says or does to all its listeners.
LEMMA AgentStep ==
  ASSUME ChatInv, NEW u \in Users,
         Chat!Delta(u) \/ Chat!AgentEnd(u) \/ Chat!AgentErrs(u) \/ Chat!AgentDies(u)
  PROVE  ChatInv'
<1>t. ChatType /\ turns[u] \in Seq(Calls)
  BY DEF ChatInv, ChatType
<1>p. \A v \in Users : Chat!Peers(v)' = Chat!Peers(v)
  BY DEF Chat!Peers
<1>w. \A v \in Users \ {u} : \A c \in Chat!Peers(v) : c \in Calls /\ c \notin Chat!Waiting(u) /\ c \notin Chat!Peers(u)
  BY DEF Chat!Peers, Chat!Waiting
<1>f. \A c \in Calls : Fresh(c)
  BY DEF ChatInv
<1>1. CASE Chat!Delta(u)
  <2>1. /\ turns[u] # <<>> /\ UNCHANGED <<chat, frame, turns, lock, hears>>
        /\ text' = [c \in Calls |-> IF c \in Chat!Waiting(u) THEN text[c] \cup {Head(turns[u])} ELSE text[c]]
    BY <1>1 DEF Chat!Delta, Chat!child
  <2>2. Head(turns[u]) \in Calls
    BY <2>1, <1>t
  <2>3. ChatType'
    BY <2>1, <2>2, <1>t DEF ChatType
  <2>4. Chain' /\ OneFirst'
    BY <2>1, ChainKept
  <2>5. ASSUME NEW c \in Calls PROVE Fresh(c)'
    <3>1. chat[c].pc \in {"idle", "queued", "session"} => c \notin Chat!Waiting(u)
      BY WaitingRuns
    <3> QED
      BY <2>1, <3>1, <1>f DEF Fresh
  <2>6. ASSUME NEW v \in Users PROVE Words(v)' \/ Chat!Abandoned(v)'
    <3>1. CASE v # u
      BY <2>1, <3>1, <1>w, OtherUsers DEF ChatInv
    <3>2. CASE v = u /\ Chat!Abandoned(u)
      BY <2>1, <3>2, <1>p DEF Chat!Abandoned
    <3>3. CASE v = u /\ Words(u)
      <4>1. PICK c \in Chat!Peers(u) : /\ turns[u] = <<c>> /\ chat[c].pc \in {"prompt", "reply"}
                                       /\ frame[c] = "taken" /\ chat[c].ended # "end"
        BY <2>1, <3>3 DEF Words, OneTurn
      <4>2. OneTurn(u)'
        BY <2>1, <4>1, <1>p DEF OneTurn
      <4>3. \A d \in Chat!Waiting(u) : d = c
        BY <4>1, WaitingRuns, OneRuns DEF Running, Chat!Peers
      <4>4. Head(turns[u]) = c
        BY <4>1
      <4>5. ASSUME NEW d \in Chat!Peers(u) PROVE text'[d] \subseteq {d}
        <5>1. d \in Calls /\ text[d] \subseteq {d}
          BY <3>3 DEF Words, Chat!Peers
        <5> QED
          BY <2>1, <4>3, <4>4, <5>1
      <4> QED
        BY <2>1, <3>3, <4>2, <4>5, <1>p DEF Words
    <3> QED
      BY <3>1, <3>2, <3>3 DEF ChatInv
  <2> QED
    BY <2>3, <2>4, <2>5, <2>6 DEF ChatInv
\* The listeners are told, or lose their rpc; the turn may be over with it.
<1>b. ASSUME NEW how \in {"no", "end", "error"}, Chat!Broadcast(u, how),
             NEW rest \in Seq(Calls), turns' = [turns EXCEPT ![u] = rest],
             Words(u) => /\ OneTurn(u)'
                         /\ \A c \in Chat!Peers(u) : frame'[c] = "sent" =>
                               chat'[c].pc = "prompt" /\ chat'[c].ended # "end",
             DOMAIN frame' = Calls, frame' = [c \in Calls |-> frame'[c]],
             \A c \in Calls : \/ frame'[c] = frame[c]
                              \/ c \in Chat!Peers(u) /\ frame[c] = "sent" /\ frame'[c] = "refused"
      PROVE  ChatInv'
  <2>1. /\ UNCHANGED <<lock, text>> /\ hears' \subseteq hears
        /\ chat' = [c \in Calls |-> IF c \in Chat!Waiting(u) THEN [chat[c] EXCEPT !.ended = how] ELSE chat[c]]
    BY <1>b DEF Chat!Broadcast
  <2>2. ASSUME NEW c \in Calls
        PROVE  /\ chat'[c] \in Chat!ChatRecord /\ chat'[c].pc = chat[c].pc
               /\ chat'[c].prev = chat[c].prev /\ chat'[c].result = chat[c].result
               /\ c \notin Chat!Waiting(u) => chat'[c] = chat[c]
    <3>1. chat[c] \in Chat!ChatRecord
      BY <1>t DEF ChatType
    <3>2. CASE c \in Chat!Waiting(u)
      <4>1. chat'[c] = [chat[c] EXCEPT !.ended = how]
        BY <2>1, <3>2
      <4> QED
        BY <1>b, <3>1, <3>2, <4>1 DEF Chat!ChatRecord
    <3>3. CASE c \notin Chat!Waiting(u)
      BY <2>1, <3>1, <3>3
    <3> QED
      BY <3>2, <3>3
  <2>3. ChatType'
    <3>1. chat' \in [Calls -> Chat!ChatRecord]
      BY <2>1, <2>2
    <3>2. frame' \in [Calls -> {"none", "sent", "taken", "refused"}]
      BY <1>b, <1>t DEF ChatType
    <3>3. turns' \in [Users -> Seq(Calls)]
      BY <1>b, <1>t DEF ChatType
    <3> QED
      BY <2>1, <3>1, <3>2, <3>3, <1>t DEF ChatType
  <2>4. Chain' /\ OneFirst'
    BY <2>1, <2>2, ChainKept
  <2>5. ASSUME NEW c \in Calls PROVE Fresh(c)'
    <3>1. chat[c].pc \in {"idle", "queued", "session"} => c \notin Chat!Waiting(u)
      BY WaitingRuns
    <3>2. (frame'[c] = "none" <=> frame[c] = "none") /\ (c \in hears' => c \in hears) /\ text' = text
      BY <1>b, <2>1
    <3> QED
      BY <2>2, <3>1, <3>2, <1>f DEF Fresh
  <2>6. ASSUME NEW v \in Users PROVE Words(v)' \/ Chat!Abandoned(v)'
    <3>1. CASE v # u
      <4>1. turns'[v] = turns[v]
        BY <1>b, <3>1, <1>t DEF ChatType
      <4>2. \A d \in Chat!Peers(v) : chat'[d] = chat[d] /\ frame'[d] = frame[d] /\ text'[d] = text[d]
        BY <1>b, <2>1, <2>2, <3>1, <1>w
      <4> QED
        BY <4>1, <4>2, OtherUsers DEF ChatInv
    <3>2. CASE v = u /\ Chat!Abandoned(u)
      <4>1. PICK d \in Chat!Peers(u) : chat[d].result \in {"timeout", "failed"} /\ frame[d] # "none"
        BY <3>2 DEF Chat!Abandoned
      <4>2. d \in Calls
        BY DEF Chat!Peers
      <4>3. chat'[d].result = chat[d].result /\ frame'[d] # "none"
        BY <1>b, <2>2, <4>1, <4>2
      <4> QED
        BY <3>2, <4>1, <4>3, <1>p DEF Chat!Abandoned
    <3>3. CASE v = u /\ Words(u)
      BY <1>b, <2>1, <3>3, <1>p DEF Words
    <3> QED
      BY <3>1, <3>2, <3>3 DEF ChatInv
  <2> QED
    BY <2>3, <2>4, <2>5, <2>6 DEF ChatInv
<1>2. CASE Chat!AgentEnd(u)
  <2>1. /\ turns[u] # <<>> /\ Chat!Broadcast(u, "end") /\ UNCHANGED frame
        /\ turns' = [turns EXCEPT ![u] = Tail(turns[u])] /\ Tail(turns[u]) \in Seq(Calls)
    BY <1>2, <1>t DEF Chat!AgentEnd
  <2>2. ASSUME Words(u) PROVE Tail(turns[u]) = <<>> /\ \A d \in Chat!Peers(u) : frame'[d] # "sent"
    <3>1. PICK c \in Chat!Peers(u) : /\ turns[u] = <<c>> /\ chat[c].pc \in {"prompt", "reply"}
                                     /\ frame[c] = "taken"
      BY <2>1, <2>2 DEF Words, OneTurn
    <3>2. ASSUME NEW d \in Chat!Peers(u), frame[d] = "sent" PROVE FALSE
      <4>1. d \in Calls /\ c \in Calls /\ UserOf[c] = UserOf[d] /\ Running(c) /\ Running(d)
        BY <2>2, <3>1, <3>2 DEF Words, Running, Chat!Peers
      <4>2. c = d
        BY <4>1, OneRuns
      <4> QED
        BY <3>1, <3>2, <4>2
    <3> QED
      BY <2>1, <3>1, <3>2
  <2>3. DOMAIN frame = Calls /\ frame = [c \in Calls |-> frame[c]]
    BY <1>t DEF ChatType
  <2>4. Words(u) => turns'[u] = <<>> /\ OneTurn(u)'
    BY <2>1, <2>2, <1>t DEF ChatType, OneTurn
  <2> QED
    BY <2>1, <2>2, <2>3, <2>4, <1>b
<1>3. CASE Chat!AgentDies(u)
  <2>1. /\ Chat!Broadcast(u, "no") /\ turns' = [turns EXCEPT ![u] = <<>>]
        /\ frame' = [c \in Calls |-> IF c \in Chat!Peers(u) /\ frame[c] = "sent" THEN "refused" ELSE frame[c]]
    BY <1>3 DEF Chat!AgentDies
  <2>2. /\ <<>> \in Seq(Calls) /\ DOMAIN frame' = Calls /\ frame' = [c \in Calls |-> frame'[c]]
        /\ \A c \in Chat!Peers(u) : frame'[c] # "sent"
    BY <2>1 DEF Chat!Peers
  <2>3. turns'[u] = <<>> /\ OneTurn(u)'
    BY <2>1, <1>t DEF ChatType, OneTurn
  <2> QED
    BY <2>1, <2>2, <2>3, <1>b
<1>4. CASE Chat!AgentErrs(u)
  <2>1. Chat!Broadcast(u, "error") /\ UNCHANGED <<frame, turns>>
    BY <1>4 DEF Chat!AgentErrs, Chat!child
  <2>2. DOMAIN frame = Calls /\ frame = [c \in Calls |-> frame[c]] /\ turns' = [turns EXCEPT ![u] = turns[u]]
    BY <2>1, <1>t DEF ChatType
  <2>3. ASSUME NEW c \in Calls
        PROVE  chat'[c].pc = chat[c].pc /\ chat'[c].ended \in {chat[c].ended, "error"}
    BY <2>1, <1>t DEF Chat!Broadcast, ChatType, Chat!ChatRecord
  <2>4. ASSUME Words(u), NEW c \in Chat!Peers(u), frame[c] = "sent"
        PROVE  chat'[c].pc = "prompt" /\ chat'[c].ended # "end"
    BY <2>3, <2>4 DEF Words, Chat!Peers
  <2>5. ASSUME Words(u) PROVE OneTurn(u)'
    <3>1. CASE turns[u] = <<>>
      BY <2>1, <3>1 DEF OneTurn
    <3>2. ASSUME NEW c \in Chat!Peers(u), turns[u] = <<c>>, chat[c].pc \in {"prompt", "reply"},
                 frame[c] = "taken", chat[c].ended # "end"
          PROVE  OneTurn(u)'
      <4>1. c \in Calls /\ c \in Chat!Peers(u)'
        BY DEF Chat!Peers
      <4> QED
        BY <2>1, <2>3, <3>2, <4>1 DEF OneTurn
    <3> QED
      BY <2>5, <3>1, <3>2 DEF Words, OneTurn
  <2> QED
    BY <2>1, <2>2, <2>4, <2>5, <1>t, <1>b
<1> QED
  BY <1>1, <1>2, <1>3, <1>4

LEMMA ChatStep == ChatInv /\ [Chat!Next]_chatVars => ChatInv'
<1> SUFFICES ASSUME ChatInv, [Chat!Next]_chatVars PROVE ChatInv'
  OBVIOUS
<1>1. CASE UNCHANGED chatVars
  BY <1>1 DEF chatVars, ChatInv, ChatType, Chain, OneFirst, InChain, First, Running, Fresh, Words, OneTurn,
              Chat!Peers, Chat!Abandoned, Chat!MayStart, Chat!Settled
<1> QED
  BY <1>1, CallStep, AgentStep DEF Chat!Next

\* A reply of synaps_chat has the words of its own turn only, as long as no
\* prompt of its user was given up, for any number of users and calls.
THEOREM RepliesAreOwn == Spec => []ReplyIsOwn
<1>1. Init => ChatInv
  BY ChatInit DEF Init
<1>2. [Next]_vars => [Chat!Next]_chatVars
  BY DEF Next, vars
<1>3. ChatInv => ReplyIsOwn
  <2> SUFFICES ASSUME ChatInv, NEW c \in Calls
               PROVE  text[c] \subseteq {c} \/ Chat!Abandoned(UserOf[c])
    BY DEF ReplyIsOwn, Chat!ReplyIsOwn
  <2>1. UserOf[c] \in Users /\ c \in Chat!Peers(UserOf[c])
    BY UsersOf DEF Chat!Peers
  <2> QED
    BY <2>1 DEF ChatInv, Words
<1> QED
  BY <1>1, <1>2, <1>3, ChatStep, PTL DEF Spec
=============================================================================
