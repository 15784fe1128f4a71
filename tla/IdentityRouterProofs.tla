----------------------- MODULE IdentityRouterProofs -----------------------
(***************************************************************************)
(* Proofs about IdentityRouter, for any number of calls, accounts and      *)
(* codes.  With the unique indexes or without: no identity changes hands,  *)
(* its link_method says whose it is, whoever calls works with a user of    *)
(* its own, and a code that was spent is refused to whoever asks for it    *)
(* afterwards.  With the indexes: an account has a single user.            *)
(***************************************************************************)
EXTENDS IdentityRouter, TLAPS

USE IdentityAssumption

LEMMA InitIInv == Init => IInv
BY DEF Init, IInv, TypeOK, Shape, UserRows, Holds, CodeRows, MethodMatchesUser, IdentRows, Entitled,
       Linked, CodeUse, SpentOnABinding, Rows, Known, Is

\* What a call of any of the four operations begins with.
LEMMA CallBegins ==
    ASSUME NEW c \in Calls, Call(c), TypeOK
    PROVE  \E o \in Operation, q \in Queries, b \in BOOLEAN :
              /\ OpShape(o) /\ q \in Route(o.name) \ {"createUser", "nameUser", "upsert", "insert", "createCode", "loadUser", "findExisting"}
              /\ Begin(c, o, q)
              /\ late' = [late EXCEPT ![c] = b]
<1> USE DEF Operation, Keys, Queries, OpShape, Route, Op, TypeOK
<1>1. late = [late EXCEPT ![c] = late[c]] /\ late[c] \in BOOLEAN
  OBVIOUS
<1>2. CASE Resolve(c)
  <2>1. PICK k \in Externals : Begin(c, Op("resolve", k, None, None), "findIdentity")
    BY <1>2 DEF Resolve
  <2>2. Op("resolve", k, None, None) \in Operation /\ OpShape(Op("resolve", k, None, None))
    OBVIOUS
  <2>3. Op("resolve", k, None, None).name = "resolve"
    OBVIOUS
  <2> QED
    BY <1>1, <1>2, <2>1, <2>2, <2>3 DEF Resolve
<1>3. CASE ResolveWebUser(c)
  <2>1. PICK p \in Prias : Begin(c, Op("web", p, p, None), "findPria")
    BY <1>3 DEF ResolveWebUser
  <2>2. Op("web", p, p, None) \in Operation /\ OpShape(Op("web", p, p, None))
    OBVIOUS
  <2>3. Op("web", p, p, None).name = "web"
    OBVIOUS
  <2> QED
    BY <1>1, <1>3, <2>1, <2>2, <2>3 DEF ResolveWebUser
<1>4. CASE IssueLinkCode(c)
  <2>1. PICK p \in Prias : Begin(c, Op("issue", None, p, None), "findPria")
    BY <1>4 DEF IssueLinkCode
  <2>2. Op("issue", None, p, None) \in Operation /\ OpShape(Op("issue", None, p, None))
    OBVIOUS
  <2>3. Op("issue", None, p, None).name = "issue"
    OBVIOUS
  <2> QED
    BY <1>1, <1>4, <2>1, <2>2, <2>3 DEF IssueLinkCode
<1>5. CASE RedeemLinkCode(c)
  <2>1. PICK k \in Externals, d \in Calls :
          /\ Begin(c, Op("redeem", k, None, d), "findCode")
          /\ late' = [late EXCEPT ![c] = codes[d] # None /\ codes[d].redeemedBy # None]
    BY <1>5 DEF RedeemLinkCode
  <2>2. Op("redeem", k, None, d) \in Operation /\ OpShape(Op("redeem", k, None, d))
    OBVIOUS
  <2>3. Op("redeem", k, None, d).name = "redeem"
    OBVIOUS
  <2> QED
    BY <2>1, <2>2, <2>3
<1> QED
  BY <1>2, <1>3, <1>4, <1>5 DEF Call

LEMMA GotoType ==
    ASSUME TypeOK, NEW c \in Calls, NEW q \in Queries \cup Settled, Goto(c, q)
    PROVE  pc' \in [Calls -> {"idle"} \cup Queries \cup Settled]
BY DEF TypeOK, Goto

\* Every step keeps the types.
LEMMA TypeStep == IInv /\ [Next]_vars => TypeOK'
<1> SUFFICES ASSUME IInv, [Next]_vars PROVE TypeOK'
  OBVIOUS
<1>u. UNCHANGED indexed
  BY DEF Next, vars
<1> USE <1>u DEF IInv, TypeOK, User, Ident, Code, Operation, Keys, Queries, Settled, Refusals, Shape, OpShape, Route, Holds, MethodMatchesUser, Is
<1>1. ASSUME NEW c \in Calls, Call(c) PROVE TypeOK'
  <2>1. PICK o \in Operation, q \in Queries, b \in BOOLEAN :
          /\ OpShape(o) /\ q \in Route(o.name) \ {"createUser", "nameUser", "upsert", "insert", "createCode", "loadUser", "findExisting"}
          /\ Begin(c, o, q)
          /\ late' = [late EXCEPT ![c] = b]
    BY <1>1, CallBegins DEF IInv
  <2>2. /\ pc' = [pc EXCEPT ![c] = q] /\ op' = [op EXCEPT ![c] = o] /\ o # None /\ q # "idle"
        /\ UNCHANGED <<users, idents, codes, user, ns, hit>>
    BY <2>1 DEF Begin
  <2> QED
    BY <2>1, <2>2
<1>2. ASSUME NEW c \in Calls, FindIdentity(c) PROVE TypeOK'
  <2>1. pc' \in [Calls -> {"idle"} \cup Queries \cup Settled]
    BY <1>2, GotoType DEF FindIdentity
  <2>4. hit' \in [Calls -> BOOLEAN]
    <3>1. hit \in [Calls -> BOOLEAN]
      OBVIOUS
    <3>2. hit' = hit \/ hit' = [hit EXCEPT ![c] = TRUE]
      BY <1>2, Zenon DEF FindIdentity
    <3> HIDE DEF IInv
    <3> QED
      BY <3>1, <3>2
  <2>2. Bound(op[c].key) \subseteq Calls
    BY DEF Bound, Rows
  <2>3. user' \in [Calls -> Calls \cup {None}]
    BY <1>2, <2>2 DEF FindIdentity
  <2> QED
    BY <1>2, <2>1, <2>3, <2>4 DEF FindIdentity
<1>3. ASSUME NEW c \in Calls, LoadUser(c) PROVE TypeOK'
  <2>1. user[c] \in Calls /\ users[user[c]] # None /\ users[user[c]] \in User
    BY <1>3 DEF LoadUser
  <2> QED
    BY <1>3, <2>1 DEF LoadUser, Goto, Hold
<1>4. ASSUME NEW c \in Calls, FindPria(c) PROVE TypeOK'
  <2>1. pc' \in [Calls -> {"idle"} \cup Queries \cup Settled]
    BY <1>4, GotoType DEF FindPria
  <2>2. user' \in [Calls -> Calls \cup {None}] /\ ns' \in [Calls -> {"temp", "own", None}]
    BY <1>4 DEF FindPria, Hold, UsersOf
  <2> QED
    BY <1>4, <2>1, <2>2 DEF FindPria
<1>5. ASSUME NEW c \in Calls, CreateUser(c) PROVE TypeOK'
  <2>1. [pria |-> op[c].pria, ns |-> "temp"] \in User
    BY <1>5 DEF CreateUser
  <2>2. pc' \in [Calls -> {"idle"} \cup Queries \cup Settled]
    BY <1>5, GotoType DEF CreateUser
  <2>3. users' \in [Calls -> User \cup {None}] /\ user' \in [Calls -> Calls \cup {None}]
    <3> HIDE DEF User
    <3> QED
      BY SMTT(30), <1>5, <2>1 DEF CreateUser
  <2> QED
    BY <1>5, <2>2, <2>3 DEF CreateUser
<1>6. ASSUME NEW c \in Calls, NameUser(c) PROVE TypeOK'
  BY <1>6 DEF NameUser, Goto
<1>7. ASSUME NEW c \in Calls, Upsert(c) PROVE TypeOK'
  BY <1>7 DEF Upsert, Goto, AfterUpsert
<1>8. ASSUME NEW c \in Calls, Insert(c) PROVE TypeOK'
  <2>1. user[c] \in Calls /\ LinkMethod(c) \in {"inferred", "oauth", "magic_code"}
    BY <1>8 DEF Insert, LinkMethod
  <2>2. [key |-> op[c].key, user |-> user[c], method |-> LinkMethod(c)] \in Ident
    BY <1>8, <2>1 DEF Insert
  <2>3. pc' \in [Calls -> {"idle"} \cup Queries \cup Settled]
    BY <1>8, GotoType DEF Insert, AfterUpsert
  <2>4. idents' \in [Calls -> Ident \cup {None}]
    <3> DEFINE new == [key |-> op[c].key, user |-> user[c], method |-> LinkMethod(c)]
    <3>1. idents' = idents \/ idents' = [idents EXCEPT ![c] = new]
      BY <1>8 DEF Insert
    <3>2. new \in Ident
      BY <2>2
    <3> HIDE DEF new, Ident
    <3> QED
      BY <3>1, <3>2
  <2> QED
    BY <1>8, <2>3, <2>4 DEF Insert
<1>9. ASSUME NEW c \in Calls, CreateCode(c) PROVE TypeOK'
  BY <1>9 DEF CreateCode, Goto
<1>10. ASSUME NEW c \in Calls, FindCode(c) PROVE TypeOK'
  BY <1>10 DEF FindCode, Goto
<1>11. ASSUME NEW c \in Calls, FindExisting(c) PROVE TypeOK'
  BY <1>11 DEF FindExisting, Goto
<1>12. ASSUME NEW c \in Calls, MarkRedeemed(c) PROVE TypeOK'
  <2> DEFINE d == op[c].code
             new == [codes[d] EXCEPT !.redeemedBy = op[c].key]
  <2>1. d \in Calls /\ op[c].key \in Externals
    BY <1>12 DEF MarkRedeemed
  <2>2. codes[d] # None => codes[d] \in Code
    BY <2>1 DEF TypeOK
  <2>3. codes[d] # None => new \in Code
    BY <2>1, <2>2
  <2>4. codes' = codes \/ (codes[d] # None /\ codes' = [codes EXCEPT ![d] = new])
    BY <1>12 DEF MarkRedeemed
  <2>5. codes' \in [Calls -> Code \cup {None}]
    <3> HIDE DEF Code, new, d
    <3> QED
      BY <2>1, <2>3, <2>4
  <2> QED
    BY <1>12, <2>5 DEF MarkRedeemed, Goto
<1>13. ASSUME NEW c \in Calls, QueryFails(c) PROVE TypeOK'
  BY <1>13 DEF QueryFails, Goto
<1>14. ASSUME NEW d \in Calls, Expire(d) PROVE TypeOK'
  <2>1. codes[d] \in Code
    BY <1>14 DEF Expire
  <2>2. [codes[d] EXCEPT !.expired = TRUE] \in Code
    BY <2>1
  <2>3. codes' = [codes EXCEPT ![d] = [codes[d] EXCEPT !.expired = TRUE]]
    BY <1>14 DEF Expire
  <2>4. codes' \in [Calls -> Code \cup {None}]
    <3> HIDE DEF Code
    <3> QED
      BY <2>2, <2>3
  <2> QED
    BY <1>14, <2>4 DEF Expire
<1>15. ASSUME NEW d \in Calls, RemoveExpired(d) PROVE TypeOK'
  BY <1>15 DEF RemoveExpired
<1>16. CASE UNCHANGED vars
  BY <1>16 DEF vars
<1> QED
  BY <1>1, <1>2, <1>3, <1>4, <1>5, <1>6, <1>7, <1>8, <1>9, <1>10, <1>11, <1>12, <1>13, <1>14, <1>15, <1>16 DEF Next, Query

\* Every step keeps a call on its route.
LEMMA ShapeStep == IInv /\ [Next]_vars => Shape'
<1> SUFFICES ASSUME IInv, [Next]_vars PROVE Shape'
  OBVIOUS
<1> USE DEF IInv, TypeOK, User, Ident, Code, Operation, Keys, Queries, Settled, Refusals, Shape, Route, Is
<1>1. ASSUME NEW c \in Calls, Call(c) PROVE Shape'
  <2>1. PICK o \in Operation, q \in Queries, b \in BOOLEAN :
          /\ OpShape(o) /\ q \in Route(o.name) \ {"createUser", "nameUser", "upsert", "insert", "createCode", "loadUser", "findExisting"}
          /\ Begin(c, o, q)
          /\ late' = [late EXCEPT ![c] = b]
    BY <1>1, CallBegins DEF IInv
  <2>2. /\ pc' = [pc EXCEPT ![c] = q] /\ op' = [op EXCEPT ![c] = o] /\ o # None /\ q # "idle"
    BY <2>1 DEF Begin
  <2> QED
    BY <2>1, <2>2
<1>2. ASSUME NEW c \in Calls, FindIdentity(c) PROVE Shape'
  BY <1>2 DEF FindIdentity, Goto
<1>3. ASSUME NEW c \in Calls, LoadUser(c) PROVE Shape'
  BY <1>3 DEF LoadUser, Goto, Hold
<1>4. ASSUME NEW c \in Calls, FindPria(c) PROVE Shape'
  BY <1>4 DEF FindPria, Goto, Hold
<1>5. ASSUME NEW c \in Calls, CreateUser(c) PROVE Shape'
  BY <1>5 DEF CreateUser, Goto
<1>6. ASSUME NEW c \in Calls, NameUser(c) PROVE Shape'
  BY <1>6 DEF NameUser, Goto
<1>7. ASSUME NEW c \in Calls, Upsert(c) PROVE Shape'
  BY <1>7 DEF Upsert, Goto, AfterUpsert
<1>8. ASSUME NEW c \in Calls, Insert(c) PROVE Shape'
  BY <1>8 DEF Insert, Goto, AfterUpsert, LinkMethod
<1>9. ASSUME NEW c \in Calls, CreateCode(c) PROVE Shape'
  BY <1>9 DEF CreateCode, Goto
<1>10. ASSUME NEW c \in Calls, FindCode(c) PROVE Shape'
  BY <1>10 DEF FindCode, Goto
<1>11. ASSUME NEW c \in Calls, FindExisting(c) PROVE Shape'
  BY <1>11 DEF FindExisting, Goto
<1>12. ASSUME NEW c \in Calls, MarkRedeemed(c) PROVE Shape'
  BY <1>12 DEF MarkRedeemed, Goto
<1>13. ASSUME NEW c \in Calls, QueryFails(c) PROVE Shape'
  BY <1>13 DEF QueryFails, Goto
<1>14. ASSUME NEW d \in Calls, Expire(d) PROVE Shape'
  BY <1>14 DEF Expire
<1>15. ASSUME NEW d \in Calls, RemoveExpired(d) PROVE Shape'
  BY <1>15 DEF RemoveExpired
<1>16. CASE UNCHANGED vars
  BY <1>16 DEF vars
<1> QED
  BY <1>1, <1>2, <1>3, <1>4, <1>5, <1>6, <1>7, <1>8, <1>9, <1>10, <1>11, <1>12, <1>13, <1>14, <1>15, <1>16 DEF Next, Query

\* A user row once made keeps its web account, and stays the only one of it.
LEMMA UserStep == IInv /\ [Next]_vars => UserRows'
<1> SUFFICES ASSUME IInv, [Next]_vars PROVE UserRows'
  OBVIOUS
<1>u. UNCHANGED indexed
  BY DEF Next, vars
<1> USE <1>u DEF IInv, TypeOK, User, Ident, Code, Operation, Keys, Queries, Settled, Refusals, Shape, OpShape, Route, UserRows, Holds
<1>1. ASSUME NEW c \in Calls, Call(c) PROVE UserRows'
  <2>1. PICK o \in Operation, q \in Queries, b \in BOOLEAN :
          /\ OpShape(o) /\ q \in Route(o.name) \ {"createUser", "nameUser", "upsert", "insert", "createCode", "loadUser", "findExisting"}
          /\ Begin(c, o, q)
          /\ late' = [late EXCEPT ![c] = b]
    BY <1>1, CallBegins DEF IInv
  <2> QED
    BY <2>1 DEF Begin
<1>2. ASSUME NEW c \in Calls, FindIdentity(c) PROVE UserRows'
  BY <1>2 DEF FindIdentity, Goto
<1>3. ASSUME NEW c \in Calls, LoadUser(c) PROVE UserRows'
  BY <1>3 DEF LoadUser, Goto, Hold
<1>4. ASSUME NEW c \in Calls, FindPria(c) PROVE UserRows'
  BY <1>4 DEF FindPria, Goto, Hold
<1>5. ASSUME NEW c \in Calls, CreateUser(c) PROVE UserRows'
  <2>1. /\ pc[c] = "createUser" /\ DOMAIN pc = Calls /\ DOMAIN users = Calls
        /\ \E q \in {"error", "nameUser"} : pc' = [pc EXCEPT ![c] = q]
    BY <1>5 DEF CreateUser, Goto
  <2>2. \/ UNCHANGED users
        \/ /\ users' = [users EXCEPT ![c] = [pria |-> op[c].pria, ns |-> "temp"]]
           /\ indexed => \/ op[c].pria = None
                         \/ \A u \in Calls : users[u] # None => users[u].pria # op[c].pria
    BY <1>5 DEF CreateUser, UsersOf
  <2>3. UserRows
    OBVIOUS
  <2> HIDE DEF IInv
  <2> QED
    BY <2>1, <2>2, <2>3
<1>6. ASSUME NEW c \in Calls, NameUser(c) PROVE UserRows'
  BY <1>6 DEF NameUser, Goto
<1>7. ASSUME NEW c \in Calls, Upsert(c) PROVE UserRows'
  BY <1>7 DEF Upsert, Goto, AfterUpsert
<1>8. ASSUME NEW c \in Calls, Insert(c) PROVE UserRows'
  BY <1>8 DEF Insert, Goto, AfterUpsert, LinkMethod
<1>9. ASSUME NEW c \in Calls, CreateCode(c) PROVE UserRows'
  BY <1>9 DEF CreateCode, Goto
<1>10. ASSUME NEW c \in Calls, FindCode(c) PROVE UserRows'
  BY <1>10 DEF FindCode, Goto
<1>11. ASSUME NEW c \in Calls, FindExisting(c) PROVE UserRows'
  BY <1>11 DEF FindExisting, Goto
<1>12. ASSUME NEW c \in Calls, MarkRedeemed(c) PROVE UserRows'
  BY <1>12 DEF MarkRedeemed, Goto
<1>13. ASSUME NEW c \in Calls, QueryFails(c) PROVE UserRows'
  BY <1>13 DEF QueryFails, Goto
<1>14. ASSUME NEW d \in Calls, Expire(d) PROVE UserRows'
  BY <1>14 DEF Expire
<1>15. ASSUME NEW d \in Calls, RemoveExpired(d) PROVE UserRows'
  BY <1>15 DEF RemoveExpired
<1>16. CASE UNCHANGED vars
  BY <1>16 DEF vars
<1> QED
  BY <1>1, <1>2, <1>3, <1>4, <1>5, <1>6, <1>7, <1>8, <1>9, <1>10, <1>11, <1>12, <1>13, <1>14, <1>15, <1>16 DEF Next, Query

\* What a step leaves: users keep their account, an identity row never changes,
\* and a call its operation.
Grown ==
    /\ \A u \in Calls : users[u] # None => users'[u] # None /\ users'[u].pria = users[u].pria
    /\ \A i \in Rows : i \in Rows' /\ idents'[i] = idents[i]
    /\ \A c \in Calls : op[c] # None => op'[c] = op[c]

LEMMA Grow == IInv /\ [Next]_vars => Grown
<1> SUFFICES ASSUME IInv, [Next]_vars PROVE Grown
  OBVIOUS
<1> USE DEF IInv, TypeOK, User, Ident, Code, Operation, Keys, Queries, Settled, Refusals, UserRows, IdentRows, Shape, Rows, Grown
<1>1. ASSUME NEW c \in Calls, Call(c) PROVE Grown
  <2>1. PICK o \in Operation, q \in Queries, b \in BOOLEAN :
          /\ OpShape(o) /\ q \in Route(o.name) \ {"createUser", "nameUser", "upsert", "insert", "createCode", "loadUser", "findExisting"}
          /\ Begin(c, o, q)
          /\ late' = [late EXCEPT ![c] = b]
    BY <1>1, CallBegins DEF IInv
  <2> QED
    BY <2>1 DEF Begin
<1>2. ASSUME NEW c \in Calls, FindIdentity(c) PROVE Grown
  BY <1>2 DEF FindIdentity, Goto
<1>3. ASSUME NEW c \in Calls, LoadUser(c) PROVE Grown
  BY <1>3 DEF LoadUser, Goto, Hold
<1>4. ASSUME NEW c \in Calls, FindPria(c) PROVE Grown
  BY <1>4 DEF FindPria, Goto, Hold
<1>5. ASSUME NEW c \in Calls, CreateUser(c) PROVE Grown
  BY <1>5 DEF CreateUser, Goto
<1>6. ASSUME NEW c \in Calls, NameUser(c) PROVE Grown
  <2>1. \A u \in Calls : users'[u] = IF u = c THEN [users[c] EXCEPT !.ns = "own"] ELSE users[u]
    BY <1>6 DEF NameUser
  <2>2. users[c] # None => [users[c] EXCEPT !.ns = "own"] # None
    OBVIOUS
  <2> QED
    BY <1>6, <2>1, <2>2 DEF NameUser
<1>7. ASSUME NEW c \in Calls, Upsert(c) PROVE Grown
  BY <1>7 DEF Upsert, Goto, AfterUpsert
<1>8. ASSUME NEW c \in Calls, Insert(c) PROVE Grown
  BY <1>8 DEF Insert, Goto, AfterUpsert, LinkMethod
<1>9. ASSUME NEW c \in Calls, CreateCode(c) PROVE Grown
  BY <1>9 DEF CreateCode, Goto
<1>10. ASSUME NEW c \in Calls, FindCode(c) PROVE Grown
  BY <1>10 DEF FindCode, Goto
<1>11. ASSUME NEW c \in Calls, FindExisting(c) PROVE Grown
  BY <1>11 DEF FindExisting, Goto
<1>12. ASSUME NEW c \in Calls, MarkRedeemed(c) PROVE Grown
  BY <1>12 DEF MarkRedeemed, Goto
<1>13. ASSUME NEW c \in Calls, QueryFails(c) PROVE Grown
  BY <1>13 DEF QueryFails, Goto
<1>14. ASSUME NEW d \in Calls, Expire(d) PROVE Grown
  BY <1>14 DEF Expire
<1>15. ASSUME NEW d \in Calls, RemoveExpired(d) PROVE Grown
  BY <1>15 DEF RemoveExpired
<1>16. CASE UNCHANGED vars
  BY <1>16 DEF vars
<1> QED
  BY <1>1, <1>2, <1>3, <1>4, <1>5, <1>6, <1>7, <1>8, <1>9, <1>10, <1>11, <1>12, <1>13, <1>14, <1>15, <1>16 DEF Next, Query

\* What a call knows of the user it holds stays true.
LEMMA HoldsStep == IInv /\ [Next]_vars => Holds'
<1> SUFFICES ASSUME IInv, [Next]_vars PROVE Holds'
  OBVIOUS
<1> USE DEF IInv, TypeOK, User, Ident, Code, Operation, Keys, Queries, Settled, Refusals, Shape, OpShape, Route, UserRows, Holds, CodeRows, MethodMatchesUser, Is, Rows, Grown
<1>1. ASSUME NEW c \in Calls, Call(c) PROVE Holds'
  <2>1. PICK o \in Operation, q \in Queries, b \in BOOLEAN :
          /\ OpShape(o) /\ q \in Route(o.name) \ {"createUser", "nameUser", "upsert", "insert", "createCode", "loadUser", "findExisting"}
          /\ Begin(c, o, q)
          /\ late' = [late EXCEPT ![c] = b]
    BY <1>1, CallBegins DEF IInv
  <2> QED
    BY <2>1, Grow DEF Begin
<1>2. ASSUME NEW c \in Calls, FindIdentity(c) PROVE Holds'
  <2>1. /\ op[c].name = "resolve" /\ op[c].pria = None /\ op[c].key \in Keys
    BY <1>2 DEF FindIdentity
  <2>2. \A u \in Bound(op[c].key) : u \in Calls /\ users[u] # None
    BY <2>1 DEF Bound
  <2>3. CASE UNCHANGED <<user, hit>>
    BY <1>2, <2>1, <2>3 DEF FindIdentity, Goto
  <2>4. CASE \E u \in Bound(op[c].key) : /\ pc' = [pc EXCEPT ![c] = "loadUser"]
                                        /\ user' = [user EXCEPT ![c] = u]
                                        /\ hit' = [hit EXCEPT ![c] = TRUE]
    BY <1>2, <2>1, <2>2, <2>4 DEF FindIdentity
  <2> QED
    BY <1>2, <2>3, <2>4 DEF FindIdentity, Goto
<1>3. ASSUME NEW c \in Calls, LoadUser(c) PROVE Holds'
  BY <1>3, Grow DEF LoadUser, Goto, Hold
<1>4. ASSUME NEW c \in Calls, FindPria(c) PROVE Holds'
  <2>1. op[c] # None /\ op[c].name \in {"web", "issue"} /\ op[c].pria \in Prias
    BY <1>4 DEF FindPria
  <2>2. CASE UsersOf(op[c].pria) # {}
    <3>1. PICK u \in Calls : users[u] # None /\ users[u].pria = op[c].pria /\ Hold(c, u)
      BY <1>4, <2>2 DEF FindPria, UsersOf
    <3>2. /\ user' = [user EXCEPT ![c] = u] /\ UNCHANGED <<users, op, hit>>
          /\ pc' = [pc EXCEPT ![c] = IF op[c].name = "web" THEN "upsert" ELSE "createCode"]
      BY <1>4, <2>2, <3>1 DEF FindPria, Goto, Hold
    <3> QED
      BY <2>1, <3>1, <3>2
  <2>3. CASE UsersOf(op[c].pria) = {}
    <3>1. /\ pc' = [pc EXCEPT ![c] = "createUser"] /\ UNCHANGED <<users, op, hit, user>>
      BY <1>4, <2>3 DEF FindPria, Goto
    <3> QED
      BY <2>1, <3>1
  <2> QED
    BY <2>2, <2>3
<1>5. ASSUME NEW c \in Calls, CreateUser(c) PROVE Holds'
  <2>1. users[c] = None /\ \A d \in Calls : user[d] # c
    BY <1>5 DEF CreateUser
  <2>2. /\ op[c].name \in {"resolve", "web", "issue"}
        /\ op[c].name = "resolve" => op[c].pria = None
    BY <1>5 DEF CreateUser
  <2>3. CASE UNCHANGED <<users, user>>
    BY <1>5, <2>3 DEF CreateUser, Goto
  <2>4. CASE /\ users' = [users EXCEPT ![c] = [pria |-> op[c].pria, ns |-> "temp"]]
             /\ user' = [user EXCEPT ![c] = c] /\ pc' = [pc EXCEPT ![c] = "nameUser"]
    BY <1>5, <2>1, <2>2, <2>4 DEF CreateUser
  <2> QED
    BY <1>5, <2>3, <2>4 DEF CreateUser, Goto
<1>6. ASSUME NEW c \in Calls, NameUser(c) PROVE Holds'
  BY <1>6, Grow DEF NameUser, Goto
<1>7. ASSUME NEW c \in Calls, Upsert(c) PROVE Holds'
  BY <1>7, Grow DEF Upsert, Goto, AfterUpsert
<1>8. ASSUME NEW c \in Calls, Insert(c) PROVE Holds'
  BY <1>8, Grow DEF Insert, Goto, AfterUpsert, LinkMethod
<1>9. ASSUME NEW c \in Calls, CreateCode(c) PROVE Holds'
  BY <1>9, Grow DEF CreateCode, Goto
<1>10. ASSUME NEW c \in Calls, FindCode(c) PROVE Holds'
  <2>1. op[c] # None /\ op[c].name = "redeem" /\ op[c].pria = None /\ op[c].code \in Calls
    BY <1>10 DEF FindCode
  <2>2. /\ pc'[c] \in {"unknown", "already_redeemed", "expired", "findExisting"}
        /\ pc'[c] = "findExisting" => codes[op[c].code] # None
        /\ user'[c] = IF codes[op[c].code] = None THEN None ELSE codes[op[c].code].user
    BY <1>10, <2>1 DEF FindCode, Goto
  <2>3. user'[c] # None => /\ user'[c] \in Calls /\ users[user'[c]] # None
                           /\ users[user'[c]].pria # None
    <3>1. CASE codes[op[c].code] = None
      BY <2>2, <3>1
    <3>2. CASE codes[op[c].code] # None
      <4>1. /\ codes[op[c].code].user \in Calls
            /\ users[codes[op[c].code].user] # None
            /\ users[codes[op[c].code].user].pria = op[op[c].code].pria
            /\ op[op[c].code] # None /\ op[op[c].code].name = "issue"
        BY <2>1, <3>2
      <4>2. op[op[c].code].pria # None
        BY <2>1, <4>1, IdentityAssumption
      <4>q. QED
        BY <2>2, <3>2, <4>1, <4>2
    <3>q. QED
      BY <3>1, <3>2
  <2>4. pc'[c] = "findExisting" => user'[c] \in Calls
    BY <2>1, <2>2
  <2>5. /\ \A d \in Calls : d # c => pc'[d] = pc[d] /\ user'[d] = user[d]
        /\ UNCHANGED <<users, op, hit>>
    BY <1>10 DEF FindCode, Goto
  <2>6. Holds /\ c \in Calls
    OBVIOUS
  <2> HIDE DEF IInv, TypeOK, User, Ident, Code, Operation, Keys, Settled, Refusals, Shape,
               OpShape, Route, UserRows, CodeRows, MethodMatchesUser, Rows, Grown
  <2>q. QED
    BY <2>1, <2>2, <2>3, <2>4, <2>5, <2>6
<1>11. ASSUME NEW c \in Calls, FindExisting(c) PROVE Holds'
  BY <1>11, Grow DEF FindExisting, Goto
<1>12. ASSUME NEW c \in Calls, MarkRedeemed(c) PROVE Holds'
  BY <1>12, Grow DEF MarkRedeemed, Goto
<1>13. ASSUME NEW c \in Calls, QueryFails(c) PROVE Holds'
  BY <1>13, Grow DEF QueryFails, Goto
<1>14. ASSUME NEW d \in Calls, Expire(d) PROVE Holds'
  BY <1>14, Grow DEF Expire
<1>15. ASSUME NEW d \in Calls, RemoveExpired(d) PROVE Holds'
  BY <1>15, Grow DEF RemoveExpired
<1>16. CASE UNCHANGED vars
  BY <1>16, Grow DEF vars
<1> QED
  BY <1>1, <1>2, <1>3, <1>4, <1>5, <1>6, <1>7, <1>8, <1>9, <1>10, <1>11, <1>12, <1>13, <1>14, <1>15, <1>16 DEF Next, Query

\* The rows that refer to users refer to users of the right kind.
LEMMA RowsStep == IInv /\ [Next]_vars => CodeRows' /\ MethodMatchesUser'
<1> SUFFICES ASSUME IInv, [Next]_vars PROVE CodeRows' /\ MethodMatchesUser'
  OBVIOUS
<1> USE DEF IInv, TypeOK, User, Ident, Code, Operation, Keys, Queries, Settled, Refusals, Shape, OpShape, Route, UserRows, Holds, CodeRows, MethodMatchesUser, Is, Rows, Grown
<1>1. ASSUME NEW c \in Calls, Call(c) PROVE CodeRows' /\ MethodMatchesUser'
  <2>1. PICK o \in Operation, q \in Queries, b \in BOOLEAN :
          /\ OpShape(o) /\ q \in Route(o.name) \ {"createUser", "nameUser", "upsert", "insert", "createCode", "loadUser", "findExisting"}
          /\ Begin(c, o, q)
          /\ late' = [late EXCEPT ![c] = b]
    BY <1>1, CallBegins DEF IInv
  <2> QED
    BY <2>1, Grow DEF Begin
<1>2. ASSUME NEW c \in Calls, FindIdentity(c) PROVE CodeRows' /\ MethodMatchesUser'
  BY <1>2, Grow DEF FindIdentity, Goto
<1>3. ASSUME NEW c \in Calls, LoadUser(c) PROVE CodeRows' /\ MethodMatchesUser'
  BY <1>3, Grow DEF LoadUser, Goto, Hold
<1>4. ASSUME NEW c \in Calls, FindPria(c) PROVE CodeRows' /\ MethodMatchesUser'
  BY <1>4, Grow DEF FindPria, Goto, Hold
<1>5. ASSUME NEW c \in Calls, CreateUser(c) PROVE CodeRows' /\ MethodMatchesUser'
  BY <1>5, Grow DEF CreateUser, Goto
<1>6. ASSUME NEW c \in Calls, NameUser(c) PROVE CodeRows' /\ MethodMatchesUser'
  BY SMTT(60), <1>6, Grow DEF NameUser, Goto
<1>7. ASSUME NEW c \in Calls, Upsert(c) PROVE CodeRows' /\ MethodMatchesUser'
  BY <1>7, Grow DEF Upsert, Goto, AfterUpsert
<1>8. ASSUME NEW c \in Calls, Insert(c) PROVE CodeRows' /\ MethodMatchesUser'
  <2>1. UNCHANGED <<users, codes, op>>
    BY <1>8 DEF Insert
  <2>2. CASE UNCHANGED idents
    BY <2>1, <2>2
  <2>3. CASE idents' = [idents EXCEPT ![c] = [key |-> op[c].key, user |-> user[c], method |-> LinkMethod(c)]]
    <3>1. /\ user[c] \in Calls /\ users[user[c]] # None
          /\ op[c].name \in {"resolve", "web", "redeem"} /\ op[c].key \in Keys
      BY <1>8 DEF Insert
    <3>2. LinkMethod(c) = "inferred" <=> users[user[c]].pria = None
      BY <1>8, <3>1 DEF Insert, LinkMethod
    <3>3. op[c].key \in Prias => users[user[c]].pria = op[c].key
      BY <1>8, <3>1
    <3> DEFINE new == [key |-> op[c].key, user |-> user[c], method |-> LinkMethod(c)]
    <3>4. /\ new.key = op[c].key /\ new.user = user[c] /\ new.method = LinkMethod(c)
          /\ idents' = [idents EXCEPT ![c] = new] /\ op' = op
      BY <1>8, <2>3 DEF Insert
    <3> HIDE DEF new
    <3>5. \A i \in Rows' : idents'[i] = IF i = c THEN new ELSE idents[i]
      BY <3>4
    <3>6. MethodMatchesUser'
      BY <2>1, <3>1, <3>2, <3>3, <3>4, <3>5
    <3> QED
      BY <2>1, <3>4, <3>6
  <2> QED
    BY <1>8, <2>2, <2>3 DEF Insert
<1>9. ASSUME NEW c \in Calls, CreateCode(c) PROVE CodeRows' /\ MethodMatchesUser'
  BY SMTT(60), <1>9, Grow DEF CreateCode, Goto
<1>10. ASSUME NEW c \in Calls, FindCode(c) PROVE CodeRows' /\ MethodMatchesUser'
  BY <1>10, Grow DEF FindCode, Goto
<1>11. ASSUME NEW c \in Calls, FindExisting(c) PROVE CodeRows' /\ MethodMatchesUser'
  BY <1>11, Grow DEF FindExisting, Goto
<1>12. ASSUME NEW c \in Calls, MarkRedeemed(c) PROVE CodeRows' /\ MethodMatchesUser'
  <2>1. /\ op[c].code \in Calls /\ UNCHANGED <<users, idents, op>>
        /\ codes' = IF codes[op[c].code] = None THEN codes
                    ELSE [codes EXCEPT ![op[c].code] =
                            [codes[op[c].code] EXCEPT !.redeemedBy = op[c].key]]
    BY <1>12 DEF MarkRedeemed
  <2>2. \A d \in Calls : codes'[d] # None => codes[d] # None /\ codes'[d].user = codes[d].user
    BY <2>1
  <2>3. CodeRows'
    <3> SUFFICES ASSUME NEW d \in Calls, codes'[d] # None
                 PROVE  /\ Is(d, "issue") /\ users[codes'[d].user] # None
                        /\ users[codes'[d].user].pria = op[d].pria
      BY <2>1
    <3> QED
      BY <2>2
  <2> QED
    BY <2>1, <2>3
<1>13. ASSUME NEW c \in Calls, QueryFails(c) PROVE CodeRows' /\ MethodMatchesUser'
  BY <1>13, Grow DEF QueryFails, Goto
<1>14. ASSUME NEW d \in Calls, Expire(d) PROVE CodeRows' /\ MethodMatchesUser'
  BY <1>14, Grow DEF Expire
<1>15. ASSUME NEW d \in Calls, RemoveExpired(d) PROVE CodeRows' /\ MethodMatchesUser'
  BY <1>15, Grow DEF RemoveExpired
<1>16. CASE UNCHANGED vars
  BY <1>16, Grow DEF vars
<1> QED
  BY <1>1, <1>2, <1>3, <1>4, <1>5, <1>6, <1>7, <1>8, <1>9, <1>10, <1>11, <1>12, <1>13, <1>14, <1>15, <1>16 DEF Next, Query

\* A call makes one identity, when it ends, and none for an account that has one.
LEMMA IdentStep == IInv /\ [Next]_vars => IdentRows'
<1> SUFFICES ASSUME IInv, [Next]_vars PROVE IdentRows'
  OBVIOUS
<1>0. /\ TypeOK /\ IdentRows /\ Shape /\ UNCHANGED indexed
      /\ \A c \in Calls : pc[c] = "idle" => idents[c] = None
  BY DEF IInv, Next, vars, IdentRows, Rows, Settled, Refusals
<1> USE DEF TypeOK, Rows, IdentRows, Settled, Refusals, Queries
<1> HIDE DEF IInv
<1>1. ASSUME UNCHANGED idents, NEW c \in Calls, NEW q, pc' = [pc EXCEPT ![c] = q],
             \/ pc[c] \in ({"idle"} \cup Queries) \ {"markRedeemed"}
             \/ q \in Settled
      PROVE  IdentRows'
  BY <1>0, <1>1
<1>2. ASSUME NEW c \in Calls, Call(c) PROVE IdentRows'
  <2>1. \E q \in Queries : pc[c] = "idle" /\ pc' = [pc EXCEPT ![c] = q] /\ UNCHANGED idents
    BY <1>0, <1>2, CallBegins DEF Begin
  <2> QED
    BY <1>1, <2>1
<1>3. ASSUME NEW c \in Calls, Query(c), ~Insert(c) PROVE IdentRows'
  <2>1. /\ UNCHANGED idents /\ \E q : pc' = [pc EXCEPT ![c] = q] /\ (pc[c] = "markRedeemed" => q \in Settled)
        /\ pc[c] \in Queries
    BY <1>3 DEF Query, FindIdentity, LoadUser, FindPria, CreateUser, NameUser, Upsert, CreateCode,
                FindCode, FindExisting, MarkRedeemed, QueryFails, Goto
  <2> QED
    BY <1>1, <2>1
<1>4. ASSUME NEW c \in Calls, Insert(c) PROVE IdentRows'
  <2> DEFINE new == [key |-> op[c].key, user |-> user[c], method |-> LinkMethod(c)]
  <2>1. CASE UNCHANGED idents
    <3>1. pc[c] = "insert" /\ \E q : pc' = [pc EXCEPT ![c] = q]
      BY <1>4 DEF Insert, Goto
    <3> QED
      BY <1>1, <2>1, <3>1
  <2>2. CASE idents' = [idents EXCEPT ![c] = new] /\ (indexed => op[c].key \notin Known)
    <3>1. /\ new.key = op[c].key
          /\ \E q \in {"markRedeemed", "ok"} : pc' = [pc EXCEPT ![c] = q]
      BY <1>4, <2>2 DEF Insert, Goto, AfterUpsert
    <3> HIDE DEF new
    <3>2. \A i \in Rows' : (i \in Rows /\ idents'[i] = idents[i]) \/ (i = c /\ idents'[i] = new)
      BY <1>0, <2>2
    <3>3. indexed => \A i \in Rows : idents[i].key # new.key
      BY <2>2, <3>1 DEF Known
    <3>4. \A i \in Rows' : pc'[i] \in {"markRedeemed"} \cup Settled
      BY <1>0, <3>1, <3>2
    <3> QED
      BY <1>0, <3>2, <3>3, <3>4
  <2> QED
    BY <1>4, <2>1, <2>2 DEF Insert
<1>5. ASSUME NEW d \in Calls, Expire(d) \/ RemoveExpired(d) PROVE IdentRows'
  BY <1>0, <1>5 DEF Expire, RemoveExpired
<1>6. CASE UNCHANGED vars
  BY <1>0, <1>6 DEF vars
<1> QED
  BY <1>2, <1>3, <1>4, <1>5, <1>6 DEF Next, Query

\* A web account that has let a chat account in has done so for ever.
LEMMA LetInStays ==
    ASSUME Shape, Grown, NEW k, NEW p, LetIn(k, p)
    PROVE  LetIn(k, p)'
<1>1. PICK d \in Calls : Is(d, "redeem") /\ op[d].key = k /\ op[op[d].code] # None
                          /\ Is(op[d].code, "issue") /\ op[op[d].code].pria = p
  BY DEF LetIn
<1>2. op[d].code \in Calls /\ op'[d] = op[d] /\ op'[op[d].code] = op[op[d].code]
  BY <1>1 DEF Shape, OpShape, Is, Grown
<1> QED
  BY <1>1, <1>2 DEF LetIn, Is

\* Whoever gets to work with a user of a web account has been let in.
LEMMA EntitledStep == IInv /\ [Next]_vars => Entitled'
<1> SUFFICES ASSUME IInv, [Next]_vars,
                    NEW k \in Externals, NEW p \in Prias
             PROVE  /\ \A c \in Calls : Is(c, "redeem")' /\ op'[c].key = k /\ user'[c] # None
                                         /\ users'[user'[c]].pria = p => LetIn(k, p)'
                    /\ \A i \in Rows' : idents'[i].key = k /\ users'[idents'[i].user].pria = p => LetIn(k, p)'
  BY DEF Entitled
<1>0. /\ TypeOK /\ Shape /\ Holds /\ CodeRows /\ MethodMatchesUser /\ Grown
      /\ LetIn(k, p) => LetIn(k, p)'
  BY Grow, LetInStays DEF IInv
<1>a. /\ \A c \in Calls : Is(c, "redeem") /\ op[c].key = k /\ user[c] # None
                          /\ users[user[c]].pria = p => LetIn(k, p)
      /\ \A i \in Rows : idents[i].key = k /\ users[idents[i].user].pria = p => LetIn(k, p)
  BY DEF IInv, Entitled
<1> HIDE DEF IInv
\* A step that makes no row, and gives no redemption its user.
<1>1. ASSUME UNCHANGED <<idents>>,
             \A c \in Calls : Is(c, "redeem")' /\ user'[c] # None =>
                 op[c] # None /\ user'[c] = user[c]
      PROVE  /\ \A c \in Calls : Is(c, "redeem")' /\ op'[c].key = k /\ user'[c] # None
                                  /\ users'[user'[c]].pria = p => LetIn(k, p)'
             /\ \A i \in Rows' : idents'[i].key = k /\ users'[idents'[i].user].pria = p => LetIn(k, p)'
  <2>1. ASSUME NEW c \in Calls, Is(c, "redeem")', op'[c].key = k, user'[c] # None, users'[user'[c]].pria = p
        PROVE  LetIn(k, p)'
    <3>1. op[c] # None /\ op'[c] = op[c] /\ user'[c] = user[c] /\ user[c] \in Calls
      BY <1>0, <1>1, <2>1 DEF Grown, TypeOK
    <3>2. users[user[c]] # None /\ users[user[c]].pria = p
      BY <1>0, <2>1, <3>1 DEF Holds, Grown
    <3> QED
      BY <1>0, <1>a, <2>1, <3>1, <3>2 DEF Is
  <2>2. ASSUME NEW i \in Rows', idents'[i].key = k, users'[idents'[i].user].pria = p
        PROVE  LetIn(k, p)'
    <3>1. i \in Rows /\ idents[i].key = k /\ idents[i].user \in Calls /\ idents'[i] = idents[i]
      BY <1>0, <1>1, <2>2 DEF Rows, TypeOK, Ident
    <3>2. users[idents[i].user] # None /\ users[idents[i].user].pria = p
      BY <1>0, <2>2, <3>1 DEF MethodMatchesUser, Grown
    <3> QED
      BY <1>0, <1>a, <3>1, <3>2
  <2> QED
    BY <2>1, <2>2
<1>2. ASSUME NEW c \in Calls, FindCode(c) PROVE
             /\ \A d \in Calls : Is(d, "redeem")' /\ op'[d].key = k /\ user'[d] # None
                                  /\ users'[user'[d]].pria = p => LetIn(k, p)'
             /\ \A i \in Rows' : idents'[i].key = k /\ users'[idents'[i].user].pria = p => LetIn(k, p)'
  <2>1. /\ UNCHANGED <<users, idents, codes, op>>
        /\ user' = [user EXCEPT ![c] = IF codes[op[c].code] = None THEN None ELSE codes[op[c].code].user]
    BY <1>2 DEF FindCode
  <2>2. op[c] # None /\ op[c].name = "redeem" /\ op[c].code \in Calls
    BY <1>0, <1>2 DEF FindCode, Shape, OpShape, Route, Queries, Settled, Refusals
  <2>3. ASSUME user'[c] # None, op[c].key = k, users[user'[c]].pria = p PROVE LetIn(k, p)
    <3>1. codes[op[c].code] # None /\ user'[c] = codes[op[c].code].user
      BY <1>0, <2>1, <2>3 DEF TypeOK
    <3>2. Is(op[c].code, "issue") /\ op[op[c].code].pria = p
      BY <1>0, <2>2, <2>3, <3>1 DEF CodeRows
    <3> QED
      BY <2>2, <2>3, <3>2 DEF LetIn, Is
  <2>4. \A d \in Calls : d # c => user'[d] = user[d]
    BY <1>0, <2>1 DEF TypeOK
  <2> QED
    BY <1>0, <1>a, <2>1, <2>3, <2>4 DEF Is, Rows
<1>3. ASSUME NEW c \in Calls, Insert(c) PROVE
             /\ \A d \in Calls : Is(d, "redeem")' /\ op'[d].key = k /\ user'[d] # None
                                  /\ users'[user'[d]].pria = p => LetIn(k, p)'
             /\ \A i \in Rows' : idents'[i].key = k /\ users'[idents'[i].user].pria = p => LetIn(k, p)'
  <2>1. UNCHANGED <<users, op, user>> /\ pc[c] = "insert"
    BY <1>3 DEF Insert
  <2>2. CASE UNCHANGED idents
    BY <1>0, <1>a, <2>1, <2>2 DEF Is, Rows
  <2> DEFINE new == [key |-> op[c].key, user |-> user[c], method |-> LinkMethod(c)]
  <2>3. CASE idents' = [idents EXCEPT ![c] = new]
    <3>1. new.key = op[c].key /\ new.user = user[c]
      OBVIOUS
    <3>2. /\ op[c] # None /\ user[c] \in Calls /\ users[user[c]] # None
          /\ op[c].key \in Externals => op[c].name \in {"resolve", "redeem"}
          /\ op[c].name = "resolve" => users[user[c]].pria = None
      BY <1>0, <2>1, IdentityAssumption DEF Holds, Shape, OpShape, Route, Is, Settled, Refusals, Queries
    <3> HIDE DEF new
    <3>3. op[c].key = k /\ users[user[c]].pria = p => LetIn(k, p)
      BY <1>a, <3>2, IdentityAssumption DEF Is, Keys
    <3>4. \A i \in Rows' : (i \in Rows /\ idents'[i] = idents[i]) \/ idents'[i] = new
      BY <1>0, <2>3 DEF Rows, TypeOK
    <3> QED
      BY <1>0, <1>a, <2>1, <3>1, <3>3, <3>4 DEF Is
  <2> QED
    BY <1>3, <2>2, <2>3 DEF Insert
<1>4. ASSUME NEW c \in Calls, Call(c)
      PROVE  /\ UNCHANGED idents
             /\ \A d \in Calls : Is(d, "redeem")' /\ user'[d] # None =>
                  op[d] # None /\ user'[d] = user[d]
  <2>1. UNCHANGED <<idents, user>> /\ \E o : op' = [op EXCEPT ![c] = o]
    BY <1>0, <1>4, CallBegins DEF Begin
  <2> QED
    BY <1>0, <2>1 DEF Holds, Is
<1>5. ASSUME NEW c \in Calls, Query(c), ~Insert(c), ~FindCode(c)
      PROVE  /\ UNCHANGED idents
             /\ \A d \in Calls : Is(d, "redeem")' /\ user'[d] # None =>
                  op[d] # None /\ user'[d] = user[d]
  <2>1. UNCHANGED <<idents, op>> /\ (\/ UNCHANGED user
                                    \/ /\ \E u : user' = [user EXCEPT ![c] = u]
                                       /\ pc[c] \in {"findIdentity", "loadUser", "findPria", "createUser"})
    BY <1>5 DEF Query, FindIdentity, LoadUser, FindPria, CreateUser, NameUser, Upsert, CreateCode,
                FindExisting, MarkRedeemed, QueryFails, Hold
  <2>2. pc[c] \in {"findIdentity", "loadUser", "findPria", "createUser"} => ~Is(c, "redeem")
    BY <1>0 DEF Shape, OpShape, Route, Is, Settled, Refusals
  <2> QED
    BY <1>0, <2>1, <2>2 DEF Is, TypeOK
<1>6. ASSUME NEW d \in Calls, Expire(d) \/ RemoveExpired(d)
      PROVE  UNCHANGED <<idents, op, user>>
  BY <1>6 DEF Expire, RemoveExpired
<1>7. CASE UNCHANGED <<idents, op, user>>
  BY <1>1, <1>7 DEF Is
<1> QED
  BY <1>1, <1>2, <1>3, <1>4, <1>5, <1>6, <1>7 DEF Next, vars

\* A linked resolve holds the user its key is bound to.
LEMMA LinkedStep == IInv /\ [Next]_vars => Linked'
<1> SUFFICES ASSUME IInv, [Next]_vars PROVE Linked'
  OBVIOUS
<1> USE DEF IInv, TypeOK, User, Ident, Code, Operation, Keys, Queries, Settled, Refusals, Shape, OpShape, Route, Linked, Holds, Is, Grown
<1>1. ASSUME NEW c \in Calls, Call(c) PROVE Linked'
  <2>1. PICK o \in Operation, q \in Queries, b \in BOOLEAN :
          /\ OpShape(o) /\ q \in Route(o.name) \ {"createUser", "nameUser", "upsert", "insert", "createCode", "loadUser", "findExisting"}
          /\ Begin(c, o, q)
          /\ late' = [late EXCEPT ![c] = b]
    BY <1>1, CallBegins DEF IInv
  <2> QED
    BY <2>1, Grow DEF Begin
<1>2. ASSUME NEW c \in Calls, FindIdentity(c) PROVE Linked'
  BY <1>2, Grow DEF FindIdentity, Goto, Bound, Rows
<1>3. ASSUME NEW c \in Calls, LoadUser(c) PROVE Linked'
  BY <1>3, Grow DEF LoadUser, Goto, Hold
<1>4. ASSUME NEW c \in Calls, FindPria(c) PROVE Linked'
  BY <1>4, Grow DEF FindPria, Goto, Hold
<1>5. ASSUME NEW c \in Calls, CreateUser(c) PROVE Linked'
  BY <1>5, Grow DEF CreateUser, Goto
<1>6. ASSUME NEW c \in Calls, NameUser(c) PROVE Linked'
  BY <1>6, Grow DEF NameUser, Goto
<1>7. ASSUME NEW c \in Calls, Upsert(c) PROVE Linked'
  BY <1>7, Grow DEF Upsert, Goto, AfterUpsert
<1>8. ASSUME NEW c \in Calls, Insert(c) PROVE Linked'
  BY <1>8, Grow DEF Insert, Goto, AfterUpsert, LinkMethod
<1>9. ASSUME NEW c \in Calls, CreateCode(c) PROVE Linked'
  BY <1>9, Grow DEF CreateCode, Goto
<1>10. ASSUME NEW c \in Calls, FindCode(c) PROVE Linked'
  BY <1>10, Grow DEF FindCode, Goto
<1>11. ASSUME NEW c \in Calls, FindExisting(c) PROVE Linked'
  BY <1>11, Grow DEF FindExisting, Goto
<1>12. ASSUME NEW c \in Calls, MarkRedeemed(c) PROVE Linked'
  BY <1>12, Grow DEF MarkRedeemed, Goto
<1>13. ASSUME NEW c \in Calls, QueryFails(c) PROVE Linked'
  BY <1>13, Grow DEF QueryFails, Goto
<1>14. ASSUME NEW d \in Calls, Expire(d) PROVE Linked'
  BY <1>14, Grow DEF Expire
<1>15. ASSUME NEW d \in Calls, RemoveExpired(d) PROVE Linked'
  BY <1>15, Grow DEF RemoveExpired
<1>16. CASE UNCHANGED vars
  BY <1>16, Grow DEF vars
<1> QED
  BY <1>1, <1>2, <1>3, <1>4, <1>5, <1>6, <1>7, <1>8, <1>9, <1>10, <1>11, <1>12, <1>13, <1>14, <1>15, <1>16 DEF Next, Query

\* What becomes of codes: one is made as its call ends, spent after its key is
\* bound, and a redemption that began too late finds it spent or gone.
LEMMA CodesStep == IInv /\ [Next]_vars => CodeUse' /\ SpentOnABinding'
<1> SUFFICES ASSUME IInv, [Next]_vars PROVE CodeUse' /\ SpentOnABinding'
  OBVIOUS
<1>0. /\ TypeOK /\ Shape /\ CodeUse /\ SpentOnABinding
      /\ Known \subseteq Known'
  BY Grow DEF IInv, Grown, Known
<1> DEFINE Goal == CodeUse' /\ SpentOnABinding'
<1> HIDE DEF IInv
<1> USE DEF TypeOK, Code, Operation, Keys, Queries, Settled, Refusals, Shape, OpShape, CodeUse, SpentOnABinding, Is
\* A call that moves on from one query to another, or ends, with the codes as they are.
<1>m. ASSUME NEW c \in Calls, NEW q \in Queries \cup Settled, Goto(c, q), pc[c] \in Queries,
             UNCHANGED <<codes, op, late>>,
             late[c] => q \in {"error"} \cup Refusals,
             q = "markRedeemed" => op[c].key \in Known'
      PROVE  Goal
  <2>1. \A d \in Calls : pc[d] = "ok" => pc'[d] = "ok"
    <3>1. pc[c] # "ok" /\ pc' = [pc EXCEPT ![c] = q] /\ DOMAIN pc = Calls
      BY <1>0, <1>m DEF Goto
    <3> QED
      BY <3>1
  <2>2. \A d \in Calls : pc'[d] = "markRedeemed" => op[d].key \in Known'
    <3> SUFFICES ASSUME NEW d \in Calls, d # c, pc'[d] = "markRedeemed" PROVE op[d].key \in Known'
      BY <1>0, <1>m DEF Goto
    <3>1. pc[d] = "markRedeemed"
      BY <1>0, <1>m DEF Goto
    <3>2. op[d].key \in Keys
      BY <1>0, <3>1 DEF Route
    <3> QED
      BY <1>0, <3>1, <3>2
  <2>3. \A d \in Calls : late[d] =>
          /\ pc'[d] \in {"findCode", "error"} \cup Refusals
          /\ pc'[d] = "findCode" => pc[d] = "findCode"
    BY <1>0, <1>m DEF Goto
  <2>4. CodeUse'
    BY <1>0, <1>m, <2>1, <2>2, <2>3
  <2>5. SpentOnABinding'
    BY <1>0, <1>m
  <2> QED
    BY <2>4, <2>5
\* A call that begins.
<1>b. ASSUME NEW c \in Calls, NEW o \in Operation,
             NEW q \in {"findIdentity", "findPria", "findCode"}, Begin(c, o, q),
             NEW b \in BOOLEAN, late' = [late EXCEPT ![c] = b],
             b => /\ o.name = "redeem" /\ q = "findCode" /\ o.code \in Calls
                  /\ codes[o.code] # None /\ codes[o.code].redeemedBy # None
      PROVE  Goal
  <2>1. /\ pc[c] = "idle" /\ pc' = [pc EXCEPT ![c] = q] /\ op' = [op EXCEPT ![c] = o]
        /\ UNCHANGED <<codes, idents>> /\ o # None
    BY <1>b, IdentityAssumption DEF Begin
  <2>2. \A d \in Calls : pc[d] = "ok" => pc'[d] = "ok" /\ d # c
    BY <1>0, <2>1
  <2>3. \A d \in Calls : pc'[d] = "markRedeemed" => op'[d].key \in Known'
    BY <1>0, <2>1
  <2>4. ASSUME NEW d \in Calls, late'[d]
        PROVE  /\ op'[d] # None /\ op'[d].name = "redeem" /\ pc'[op'[d].code] = "ok"
               /\ pc'[d] \in {"findCode", "error"} \cup Refusals
               /\ pc'[d] = "findCode" => codes'[op'[d].code] = None \/ codes'[op'[d].code].redeemedBy # None
    <3>1. CASE d = c
      <4>1. b /\ op'[d] = o /\ pc'[d] = q
        BY <1>0, <1>b, <2>1, <2>4, <3>1
      <4>2. pc[o.code] = "ok"
        BY <1>0, <1>b, <4>1
      <4> QED
        BY <1>b, <2>1, <2>2, <4>1, <4>2
    <3>2. CASE d # c
      <4>1. late[d] /\ op'[d] = op[d] /\ pc'[d] = pc[d]
        BY <1>0, <1>b, <2>1, <2>4, <3>2
      <4>2. op[d].code \in Calls
        BY <1>0, <4>1
      <4> QED
        BY <1>0, <2>1, <2>2, <4>1, <4>2
    <3> QED
      BY <3>1, <3>2
  <2>5. CodeUse'
    BY <1>0, <2>1, <2>2, <2>3, <2>4
  <2>6. SpentOnABinding'
    BY <1>0, <2>1
  <2> QED
    BY <2>5, <2>6
\* A code that ages: it goes, or keeps who redeemed it.
<1>t. ASSUME NEW d \in Calls, codes[d] # None, UNCHANGED <<idents, pc, op, late>>,
             NEW x, codes' = [codes EXCEPT ![d] = x],
             x # None => x.redeemedBy = codes[d].redeemedBy
      PROVE  Goal
  <2>1. \A e \in Calls : codes'[e] # None => codes[e] # None /\ codes'[e].redeemedBy = codes[e].redeemedBy
    BY <1>0, <1>t
  <2>2. ASSUME NEW c \in Calls, late[c], pc[c] = "findCode"
        PROVE  codes'[op[c].code] = None \/ codes'[op[c].code].redeemedBy # None
    BY <1>0, <2>1, <2>2
  <2> QED
    BY <1>0, <1>t, <2>1, <2>2
<1>i. \A c \in Calls : pc[c] = "idle" => ~late[c] /\ late = [late EXCEPT ![c] = FALSE]
  BY <1>0
<1>1. ASSUME NEW c \in Calls, Resolve(c) PROVE Goal
  <2>1. PICK k \in Externals : Begin(c, Op("resolve", k, None, None), "findIdentity")
    BY <1>1 DEF Resolve
  <2>2. late' = [late EXCEPT ![c] = FALSE]
    BY <1>1, <1>i, <2>1 DEF Resolve, Begin
  <2> QED
    BY <1>b, <2>1, <2>2 DEF Op
<1>2. ASSUME NEW c \in Calls, ResolveWebUser(c) PROVE Goal
  <2>1. PICK p \in Prias : Begin(c, Op("web", p, p, None), "findPria")
    BY <1>2 DEF ResolveWebUser
  <2>2. late' = [late EXCEPT ![c] = FALSE]
    BY <1>2, <1>i, <2>1 DEF ResolveWebUser, Begin
  <2> QED
    BY <1>b, <2>1, <2>2 DEF Op
<1>3. ASSUME NEW c \in Calls, IssueLinkCode(c) PROVE Goal
  <2>1. PICK p \in Prias : Begin(c, Op("issue", None, p, None), "findPria")
    BY <1>3 DEF IssueLinkCode
  <2>2. late' = [late EXCEPT ![c] = FALSE]
    BY <1>3, <1>i, <2>1 DEF IssueLinkCode, Begin
  <2> QED
    BY <1>b, <2>1, <2>2 DEF Op
<1>4. ASSUME NEW c \in Calls, RedeemLinkCode(c) PROVE Goal
  <2>1. PICK k \in Externals, d \in Calls :
          /\ Begin(c, Op("redeem", k, None, d), "findCode")
          /\ late' = [late EXCEPT ![c] = codes[d] # None /\ codes[d].redeemedBy # None]
    BY <1>4 DEF RedeemLinkCode
  <2>2. /\ Op("redeem", k, None, d) \in Operation
        /\ Op("redeem", k, None, d).name = "redeem" /\ Op("redeem", k, None, d).code = d
    BY DEF Op
  <2> QED
    BY <1>b, <2>1, <2>2
<1>5. ASSUME NEW c \in Calls, FindIdentity(c) PROVE Goal
  <2>1. ~late[c] /\ \E q \in {"createUser", "loadUser"} : Goto(c, q)
    BY <1>0, <1>5 DEF FindIdentity
  <2> QED
    BY <1>5, <1>m, <2>1 DEF FindIdentity
<1>6. ASSUME NEW c \in Calls, LoadUser(c) PROVE Goal
  BY <1>0, <1>6, <1>m DEF LoadUser
<1>7. ASSUME NEW c \in Calls, FindPria(c) PROVE Goal
  <2>1. ~late[c] /\ \E q \in {"upsert", "createCode", "createUser"} : Goto(c, q)
    BY <1>0, <1>7 DEF FindPria
  <2> QED
    BY <1>7, <1>m, <2>1 DEF FindPria
<1>8. ASSUME NEW c \in Calls, CreateUser(c) PROVE Goal
  <2>1. ~late[c] /\ \E q \in {"error", "nameUser"} : Goto(c, q)
    BY <1>0, <1>8 DEF CreateUser
  <2> QED
    BY <1>8, <1>m, <2>1 DEF CreateUser
<1>9. ASSUME NEW c \in Calls, NameUser(c) PROVE Goal
  <2>1. ~late[c] /\ \E q \in {"createCode", "upsert"} : Goto(c, q)
    BY <1>0, <1>9 DEF NameUser
  <2> QED
    BY <1>9, <1>m, <2>1 DEF NameUser
<1>10. ASSUME NEW c \in Calls, Upsert(c) PROVE Goal
  <2>1. ~late[c] /\ pc[c] = "upsert" /\ op[c].key \in Keys
    BY <1>0, <1>10 DEF Upsert, Route
  <2>2. CASE op[c].key \notin Known
    BY <1>10, <1>m, <2>1, <2>2 DEF Upsert
  <2>3. CASE op[c].key \in Known
    <3>1. Goto(c, AfterUpsert(c)) /\ AfterUpsert(c) \in {"markRedeemed", "ok"}
      BY <1>10, <2>3 DEF Upsert, AfterUpsert
    <3> QED
      BY <1>0, <1>10, <1>m, <2>1, <2>3, <3>1 DEF Upsert
  <2> QED
    BY <2>2, <2>3
<1>11. ASSUME NEW c \in Calls, Insert(c) PROVE Goal
  <2>1. ~late[c] /\ pc[c] = "insert" /\ op[c].key \in Keys
    BY <1>0, <1>11 DEF Insert, Route
  <2>2. CASE Goto(c, "error")
    BY <1>0, <1>11, <1>m, <2>1, <2>2 DEF Insert
  <2> DEFINE new == [key |-> op[c].key, user |-> user[c], method |-> LinkMethod(c)]
  <2>3. CASE idents' = [idents EXCEPT ![c] = new] /\ Goto(c, AfterUpsert(c))
    <3>1. AfterUpsert(c) \in {"markRedeemed", "ok"}
      BY DEF AfterUpsert
    <3>2. new \in Ident /\ new.key = op[c].key
      BY <1>0, <2>1, <1>11 DEF IInv, Holds, Ident, LinkMethod, Route
    <3> HIDE DEF new
    <3>3. op[c].key \in Known'
      BY <1>0, <2>3, <3>2, IdentityAssumption DEF Known, Rows
    <3> QED
      BY <1>11, <1>m, <2>1, <2>3, <3>1, <3>3 DEF Insert
  <2> QED
    BY <1>11, <2>2, <2>3 DEF Insert
<1>12. ASSUME NEW c \in Calls, CreateCode(c) PROVE Goal
  <2> DEFINE new == [user |-> user[c], expired |-> FALSE, redeemedBy |-> None]
  <2>1. /\ pc[c] = "createCode" /\ ~late[c] /\ new.redeemedBy = None
        /\ pc' = [pc EXCEPT ![c] = "ok"] /\ codes' = [codes EXCEPT ![c] = new]
        /\ UNCHANGED <<idents, op, late>>
    BY <1>0, <1>12 DEF CreateCode, Goto
  <2> HIDE DEF new
  <2>2. ASSUME NEW d \in Calls, late[d] PROVE op[d].code # c /\ op[d].code \in Calls
    BY <1>0, <2>1, <2>2
  <2> QED
    BY <1>0, <2>1, <2>2
<1>13. ASSUME NEW c \in Calls, FindCode(c) PROVE Goal
  <2>1. op[c].code \in Calls /\ pc[c] = "findCode" /\ UNCHANGED <<codes, op, late, idents>>
    BY <1>0, <1>13 DEF FindCode, Route
  <2>2. \E q \in Refusals \cup {"findExisting"} : Goto(c, q) /\ (late[c] => q \in Refusals)
    BY <1>0, <1>13, <2>1 DEF FindCode
  <2> QED
    BY <1>m, <2>1, <2>2
<1>14. ASSUME NEW c \in Calls, FindExisting(c) PROVE Goal
  BY <1>0, <1>14, <1>m DEF FindExisting
<1>15. ASSUME NEW c \in Calls, MarkRedeemed(c) PROVE Goal
  <2>1. /\ op[c].code \in Calls /\ op[c].key \in Externals /\ op[c].key # None /\ ~late[c]
        /\ pc[c] = "markRedeemed" /\ op[c].key \in Known
        /\ pc' = [pc EXCEPT ![c] = "ok"] /\ UNCHANGED <<idents, op, late>>
    BY <1>0, <1>15, IdentityAssumption DEF MarkRedeemed, Goto, Route
  <2>2. \A d \in Calls : codes'[d] # None =>
          /\ codes[d] # None
          /\ codes'[d].redeemedBy \in {codes[d].redeemedBy, op[c].key}
    BY <1>0, <1>15, <2>1 DEF MarkRedeemed
  <2>3. ASSUME NEW d \in Calls, late[d], pc'[d] = "findCode"
        PROVE  codes'[op[d].code] = None \/ codes'[op[d].code].redeemedBy # None
    <3>1. op[d].code \in Calls /\ pc[d] = "findCode"
      BY <1>0, <2>1, <2>3
    <3> QED
      BY <1>0, <2>1, <2>2, <2>3, <3>1
  <2>4. \A d \in Calls : pc[d] = "ok" => pc'[d] = "ok"
    BY <1>0, <2>1
  <2>5. CodeUse'
    BY <1>0, <2>1, <2>2, <2>3, <2>4
  <2>6. SpentOnABinding'
    BY <1>0, <2>1, <2>2
  <2> QED
    BY <2>5, <2>6
<1>16. ASSUME NEW c \in Calls, QueryFails(c) PROVE Goal
  BY <1>0, <1>16, <1>m DEF QueryFails
<1>17. ASSUME NEW d \in Calls, Expire(d) PROVE Goal
  <2>1. codes' = [codes EXCEPT ![d] = [codes[d] EXCEPT !.expired = TRUE]]
    BY <1>17 DEF Expire
  <2>2. codes[d] # None => [codes[d] EXCEPT !.expired = TRUE].redeemedBy = codes[d].redeemedBy
    BY <1>0
  <2> QED
    BY <1>17, <1>t, <2>1, <2>2 DEF Expire
<1>18. ASSUME NEW d \in Calls, RemoveExpired(d) PROVE Goal
  BY <1>18, <1>t DEF RemoveExpired
<1>19. CASE UNCHANGED vars
  BY <1>0, <1>19 DEF vars
<1> QED
  BY <1>1, <1>2, <1>3, <1>4, <1>5, <1>6, <1>7, <1>8, <1>9, <1>10, <1>11, <1>12, <1>13, <1>14, <1>15, <1>16, <1>17, <1>18, <1>19 DEF Next, Call, Query

THEOREM IdentityInductive == Spec => []IInv
<1>1. IInv /\ [Next]_vars => IInv'
  BY TypeStep, ShapeStep, UserStep, HoldsStep, RowsStep, IdentStep, EntitledStep, LinkedStep, CodesStep DEF IInv
<1> QED
  BY InitIInv, <1>1, PTL DEF Spec

\* Whoever races whom, a row keeps its user and its link_method ("never
\* overwrites synaps_user_id or link_method"), and where the index is an account
\* that has a user gets no other one.
THEOREM AccountsKeepTheirUser == Spec => BindingIsKept
<1>1. ASSUME IInv, [Next]_vars
      PROVE  [/\ \A i \in Rows : idents'[i] = idents[i]
              /\ \A k \in Keys : indexed /\ Bound(k) # {} => Bound(k)' = Bound(k)]_vars
  <2>1. \A i \in Rows : i \in Rows' /\ idents'[i] = idents[i]
    BY <1>1, Grow DEF Grown
  <2>2. /\ IdentRows /\ IdentRows' /\ UNCHANGED indexed
    BY <1>1, IdentStep DEF IInv, Next, vars
  <2>3. ASSUME NEW k \in Keys, indexed, NEW i \in Rows, idents[i].key = k PROVE Bound(k)' = Bound(k)
    <3>1. \A j \in Rows' : idents'[j].key = k => j = i
      BY <2>1, <2>2, <2>3 DEF IdentRows
    <3>2. \A j \in Rows : idents[j].key = k => j = i
      BY <2>2, <2>3 DEF IdentRows
    <3> QED
      BY <2>1, <2>3, <3>1, <3>2 DEF Bound
  <2> QED
    BY <2>1, <2>3 DEF Bound
<1> QED
  BY IdentityInductive, <1>1, PTL DEF Spec, BindingIsKept

\* The link_method of an identity says whose it is.
THEOREM MethodsAreTrue == Spec => []MethodMatchesUser
<1>1. IInv => MethodMatchesUser
  BY DEF IInv
<1> QED
  BY IdentityInductive, <1>1, PTL

\* Whichever rows its queries find, with the indexes or without, a call works
\* with a user of its own caller.
THEOREM CallersActForTheirOwn == Spec => []ActsForItsOwn
<1>1. IInv => ActsForItsOwn
  <2> SUFFICES ASSUME IInv, NEW c \in Calls, op[c] # None, user[c] # None
               PROVE  /\ op[c].name \in {"web", "issue"} => users[user[c]].pria = op[c].pria
                      /\ op[c].name = "redeem" =>
                            users[user[c]].pria # None /\ LetIn(op[c].key, users[user[c]].pria)
                      /\ op[c].name = "resolve" =>
                            /\ users[user[c]].pria = None \/ LetIn(op[c].key, users[user[c]].pria)
                            /\ hit[c] => user[c] \in Bound(op[c].key)
    BY DEF ActsForItsOwn
  <2>1. /\ TypeOK /\ Shape /\ Holds /\ MethodMatchesUser /\ Entitled /\ Linked
    BY DEF IInv
  <2>2. OpShape(op[c]) /\ user[c] \in Calls /\ users[user[c]] # None
        /\ users[user[c]].pria \in Prias \cup {None}
    BY <2>1 DEF TypeOK, Shape, Holds, User
  <2>3. op[c].name \in {"web", "issue"} => users[user[c]].pria = op[c].pria
    BY <2>1, <2>2, IdentityAssumption DEF Holds, OpShape, Keys
  <2>4. CASE op[c].name = "redeem"
    BY <2>1, <2>2, <2>4 DEF Holds, OpShape, Entitled, Is
  <2>5. CASE op[c].name = "resolve" /\ ~hit[c]
    BY <2>1, <2>2, <2>5 DEF Holds
  <2>6. CASE op[c].name = "resolve" /\ hit[c]
    <3>1. PICK i \in Rows : idents[i].key = op[c].key /\ idents[i].user = user[c]
      BY <2>1, <2>6 DEF Linked, Is
    <3> QED
      BY <2>1, <2>2, <2>6, <3>1 DEF OpShape, Entitled, Bound
  <2> QED
    BY <2>2, <2>3, <2>4, <2>5, <2>6 DEF OpShape
<1> QED
  BY IdentityInductive, <1>1, PTL

\* In a database that has the two indexes, the calls for a web account agree on
\* its user, and a resolve that reports isLinked returns the only user its
\* account is bound to.
THEOREM AccountsHaveOneUser == Spec => []IndexesUnite
<1>1. IInv => IndexesUnite
  <2> SUFFICES ASSUME IInv, indexed PROVE WebUsersAgree /\ LinkedIsAuthoritative
    BY DEF IndexesUnite
  <2>1. WebUsersAgree
    BY DEF IInv, WebUsersAgree, UserRows, Holds, TypeOK
  <2>2. ASSUME NEW c \in Calls, Is(c, "resolve"), hit[c] PROVE Bound(op[c].key) = {user[c]}
    <3>1. PICK i \in Rows : idents[i].key = op[c].key /\ idents[i].user = user[c]
      BY <2>2 DEF IInv, Linked
    <3>2. \A j \in Rows : idents[j].key = op[c].key => j = i
      BY <3>1 DEF IInv, IdentRows
    <3> QED
      BY <3>1, <3>2 DEF Bound
  <2> QED
    BY <2>1, <2>2 DEF LinkedIsAuthoritative
<1> QED
  BY IdentityInductive, <1>1, PTL

\* A redemption that begins after its code was spent fails, and a code is marked
\* redeemed only by an account that has an identity (of whichever user),
\* whichever queries fail or overtake each other.
THEOREM CodesAreSpentOnAccounts == Spec => []CodesAreSpent
<1>1. IInv => CodesAreSpent
  BY DEF IInv, CodesAreSpent, CodeUse, LateRedemptionRefused, Refusals
<1> QED
  BY IdentityInductive, <1>1, PTL
=============================================================================
