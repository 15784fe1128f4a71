----------------------------- MODULE ChildProofs -----------------------------
(***************************************************************************)
(* Proofs about the way from a synaps child to the chat: the requests and  *)
(* the frames of SynapsRpc, the reply StreamingProxy makes, and what       *)
(* StreamHandles show of it.                                               *)
(***************************************************************************)
EXTENDS MCChild, FiniteSetTheorems, TLAPS

\* Beside the other parts the rpc of a local child behaves as it does alone, so
\* what is proved of Spec holds of ChildSpec.
THEOREM ChildIsTheRpc == ChildSpec => Spec
<1>1. ChildInit => Init
  BY DEF ChildInit
<1>2. [ChildNext]_<<focus, vars, dockerVars, proxyVars, handleVars>> => [Next]_vars
  BY DEF ChildNext
<1> QED
  BY <1>1, <1>2, PTL DEF ChildSpec, Spec

-----------------------------------------------------------------------------
(***************************************************************************)
(* Requests: one is in _pending exactly as long as its promise is open, so *)
(* no answer, timeout or exit settles it twice.                            *)
(***************************************************************************)
Results == {"none", "answered", "refused", "timeout", "exit"}

IInv ==
    /\ sent \in 0 .. MaxRequests
    /\ result \in [Requests -> Results]
    /\ PendingIsOpen
    /\ \A r \in Requests : r > sent => result[r] = "none"

\* What a step may do to the requests.
RequestStep ==
    \/ UNCHANGED <<sent, pending, result>>
    \/ /\ sent < MaxRequests /\ sent' = sent + 1
       /\ pending' = pending \cup {sent + 1} /\ UNCHANGED result
    \/ \E rs \in SUBSET pending, how \in Results \ {"none"} : Settle(rs, how) /\ UNCHANGED sent

LEMMA StepsAreRequestSteps == [Next]_vars => RequestStep
<1> SUFFICES ASSUME [Next]_vars PROVE RequestStep
  OBVIOUS
<1>1. CASE Send
  BY <1>1 DEF Send, RequestStep
<1>2. ASSUME NEW r \in Requests, CommandTimeout(r) PROVE RequestStep
  BY <1>2 DEF CommandTimeout, RequestStep, Results
<1>3. ASSUME NEW f \in Messages, HandleResponse(f) PROVE RequestStep
  BY <1>3 DEF HandleResponse, RequestStep, Results
<1>4. ASSUME NEW f \in Messages, HandleError(f) PROVE RequestStep
  <2>1. CASE f.id \in pending
    BY <1>4, <2>1 DEF HandleError, RequestStep, Results
  <2>2. CASE f.id \notin pending
    BY <1>4, <2>2 DEF HandleError, RequestStep
  <2> QED
    BY <2>1, <2>2
<1>5. CASE OnChildExit
  BY <1>5 DEF OnChildExit, RequestStep, Results
<1>6. CASE Drain \/ BrokenPipe \/ Start \/ SpawnError \/ SpawnTimeout
  BY <1>6 DEF Drain, BrokenPipe, Start, SpawnError, SpawnTimeout, RequestStep
<1>7. ASSUME NEW f \in Messages, HandleReady(f) \/ HandleMismatch(f) PROVE RequestStep
  BY <1>7 DEF HandleReady, HandleMismatch, RequestStep
<1>8. ASSUME NEW s \in Stoppers, Shutdown(s) \/ GraceTimeout(s) \/ KillTimeout(s)
      PROVE  RequestStep
  BY <1>8 DEF Shutdown, GraceTimeout, KillTimeout, RequestStep
<1>9. CASE Child
  BY <1>9 DEF Child, ChildReady, ChildReportsError, ChildDies, ChildAnswers, Says, parent,
     RequestStep
<1>10. CASE UNCHANGED vars
  BY <1>10 DEF vars, RequestStep
<1> QED
  BY <1>1, <1>2, <1>3, <1>4, <1>5, <1>6, <1>7, <1>8, <1>9, <1>10 DEF Next, Parent

LEMMA InitIInv == Init => IInv
  BY SynapsRpcAssumption DEF Init, IInv, PendingIsOpen, Results, Requests

LEMMA StepIInv == IInv /\ RequestStep => IInv'
<1> SUFFICES ASSUME IInv, RequestStep PROVE IInv'
  OBVIOUS
<1> USE SynapsRpcAssumption DEF IInv, PendingIsOpen, Requests, Results
<1>1. CASE UNCHANGED <<sent, pending, result>>
  BY <1>1
<1>2. CASE /\ sent < MaxRequests /\ sent' = sent + 1
           /\ pending' = pending \cup {sent + 1} /\ UNCHANGED result
  <2>1. result[sent + 1] = "none"
    BY <1>2
  <2> QED
    BY <1>2, <2>1
<1>3. ASSUME NEW rs \in SUBSET pending, NEW how \in Results \ {"none"},
             Settle(rs, how), UNCHANGED sent
      PROVE  IInv'
  BY <1>3 DEF Settle
<1> QED
  BY <1>1, <1>2, <1>3 DEF RequestStep

\* A request is in _pending exactly as long as its promise is open.
THEOREM PendingAreOpen == Spec => []PendingIsOpen
<1>1. IInv /\ [Next]_vars => IInv'
  BY StepsAreRequestSteps, StepIInv
<1>2. IInv => PendingIsOpen
  BY DEF IInv
<1> QED
  BY InitIInv, <1>1, <1>2, PTL DEF Spec

-----------------------------------------------------------------------------
(***************************************************************************)
(* The contract with SessionRouter, kept by the rpc of a local child.      *)
(***************************************************************************)
LocalInv ==
    /\ IInv
    /\ start \in DOMAIN LocalStart
    /\ start = "idle" => child = "none"

localVars == <<LocalStart[start], LocalPromise, child = "exited">>

LEMMA LocalOpen == IInv => Local!Open = pending /\ pending \subseteq Requests
  BY SynapsRpcAssumption DEF IInv, PendingIsOpen, Local!Open, LocalPromise, Requests

LEMMA LocalSettles ==
    ASSUME IInv, NEW rs, rs \subseteq pending, NEW how \in Results \ {"none"},
           Settle(rs, how), UNCHANGED sent
    PROVE  Local!Settled(rs, IF how = "answered" THEN "resolved" ELSE "rejected")
<1>1. \A r \in rs : r \in Requests /\ ~ (r > sent)
  BY SynapsRpcAssumption DEF IInv, PendingIsOpen, Requests
<1>2. result' = [r \in Requests |-> IF r \in rs THEN how ELSE result[r]] /\ sent' = sent
  BY DEF Settle
<1>3. \A r \in Requests : LocalPromise'[r] = IF r \in rs THEN IF how = "answered" THEN "resolved" ELSE "rejected"
                                             ELSE LocalPromise[r]
  BY <1>1, <1>2 DEF LocalPromise, Results
<1>4. LocalPromise' = [r \in Requests |-> LocalPromise'[r]]
  BY DEF LocalPromise
<1> QED
  BY <1>3, <1>4 DEF Local!Settled

LEMMA LocalStep == LocalInv /\ [Next]_vars => LocalInv' /\ [Local!Next]_localVars
<1> SUFFICES ASSUME LocalInv, [Next]_vars PROVE LocalInv' /\ [Local!Next]_localVars
  OBVIOUS
<1>0. IInv /\ IInv'
  BY StepsAreRequestSteps, StepIInv DEF LocalInv
<1>1. CASE UNCHANGED <<start, sent, result>> /\ (child = "exited") = (child' = "exited")
           /\ (start = "idle" => child' = child)
  <2>1. UNCHANGED localVars
    BY <1>1 DEF localVars, LocalPromise
  <2> QED
    BY <1>0, <1>1, <2>1 DEF LocalInv
<1>2. CASE Start
  <2>1. start = "idle" /\ start' = "waiting" /\ child = "none" /\ child' = "booting" /\ UNCHANGED <<sent, result>>
    BY <1>2 DEF Start, LocalInv
  <2>2. UNCHANGED LocalPromise
    BY <2>1 DEF LocalPromise
  <2>3. UNCHANGED (child = "exited")
    BY <2>1
  <2>4. Local!StartGoes
    BY <2>1, <2>2, <2>3 DEF Local!StartGoes, LocalStart
  <2> QED
    BY <1>0, <2>1, <2>4 DEF LocalInv, LocalStart, Local!Next
<1>3. ASSUME SpawnTimeout \/ \E f \in Messages : HandleReady(f)
      PROVE  LocalInv' /\ [Local!Next]_localVars
  <2>1. /\ UNCHANGED <<child, sent, result>>
        /\ UNCHANGED start \/ (start = "waiting" /\ start' \in {"rejected", "resolved"})
    BY <1>3 DEF SpawnTimeout, HandleReady
  <2>2. UNCHANGED LocalPromise /\ UNCHANGED (child = "exited")
    BY <2>1 DEF LocalPromise
  <2>3. CASE start = "waiting" /\ start' \in {"rejected", "resolved"}
    <3>1. Local!StartGoes
      BY <2>2, <2>3 DEF Local!StartGoes, LocalStart
    <3> QED
      BY <1>0, <2>1, <2>3, <3>1 DEF LocalInv, LocalStart, Local!Next
  <2>4. CASE UNCHANGED start
    BY <1>0, <2>1, <2>2, <2>4 DEF LocalInv, localVars
  <2> QED
    BY <2>1, <2>3, <2>4
<1>4. CASE Send
  <2>1. /\ UNCHANGED <<child, start, result>> /\ sent' = sent + 1 /\ sent + 1 \in Requests
        /\ sent \in Nat /\ result[sent + 1] = "none"
    BY <1>4, SynapsRpcAssumption DEF Send, LocalInv, IInv, Requests
  <2>2. LocalPromise[sent + 1] = "unsent"
    BY <2>1 DEF LocalPromise
  <2>3. \A r \in Requests : LocalPromise'[r] = IF r = sent + 1 THEN "open" ELSE LocalPromise[r]
    BY <2>1 DEF LocalPromise, Requests
  <2>4. LocalPromise' = [r \in Requests |-> LocalPromise'[r]]
    BY DEF LocalPromise
  <2>5. Local!Settled({sent + 1}, "open")
    BY <2>3, <2>4 DEF Local!Settled
  <2>6. Local!Call(sent + 1)
    BY <2>1, <2>2, <2>5 DEF Local!Call
  <2> QED
    BY <1>0, <2>1, <2>6 DEF LocalInv, Local!Next
<1>5. ASSUME NEW r \in pending, Settle({r}, "answered"), UNCHANGED <<child, start, sent>>
      PROVE  LocalInv' /\ [Local!Next]_localVars
  <2>1. Local!Settled({r}, "resolved") /\ r \in Local!Open /\ r \in Requests
    BY <1>0, <1>5, LocalSettles, LocalOpen DEF Results
  <2>2. Local!Answer(r)
    BY <1>5, <2>1 DEF Local!Answer
  <2> QED
    BY <1>0, <1>5, <2>1, <2>2 DEF LocalInv, Local!Next
<1>6. ASSUME NEW r \in pending, NEW how \in {"timeout", "refused"}, Settle({r}, how),
             UNCHANGED <<child, start, sent>>
      PROVE  LocalInv' /\ [Local!Next]_localVars
  <2>1. Local!Settled({r}, "rejected") /\ {r} \subseteq Local!Open /\ {r} \in SUBSET Requests
    BY <1>0, <1>6, LocalSettles, LocalOpen DEF Results
  <2>2. Local!Reject({r})
    BY <1>6, <2>1 DEF Local!Reject
  <2> QED
    BY <1>0, <1>6, <2>1, <2>2 DEF LocalInv, Local!Next
<1>7. CASE OnChildExit
  <2>1. /\ child = "dead" /\ child' = "exited" /\ Settle(pending, "exit") /\ UNCHANGED sent
        /\ start' = IF start = "waiting" THEN "rejected" ELSE start
    BY <1>7 DEF OnChildExit
  <2>2. Local!Settled(Local!Open, "rejected")
    BY <1>0, <2>1, LocalSettles, LocalOpen DEF Results
  <2>3. start \in DOMAIN LocalStart /\ start # "idle"
    BY <2>1 DEF LocalInv
  <2>4. LocalStart[start'] = IF LocalStart[start] = "starting" THEN "failed" ELSE LocalStart[start]
    BY <2>1, <2>3 DEF LocalStart
  <2>5. ~ (child = "exited") /\ (child' = "exited") = TRUE
    BY <2>1
  <2>6. Local!Exit
    BY <2>2, <2>4, <2>5 DEF Local!Exit
  <2> QED
    BY <1>0, <2>1, <2>3, <2>6 DEF LocalInv, LocalStart, Local!Next
<1>8. ASSUME NEW f \in Messages, HandleResponse(f)
      PROVE  LocalInv' /\ [Local!Next]_localVars
  <2>1. Settle({f.id} \cap pending, "answered") /\ UNCHANGED <<child, start, sent>>
    BY <1>8 DEF HandleResponse
  <2>2. CASE f.id \in pending
    <3>1. {f.id} \cap pending = {f.id}
      BY <2>2
    <3> QED
      BY <1>5, <2>1, <2>2, <3>1
  <2>3. CASE f.id \notin pending
    <3>1. UNCHANGED result
      BY <1>0, <2>1, <2>3 DEF IInv, Settle
    <3> QED
      BY <1>1, <2>1, <3>1
  <2> QED
    BY <2>2, <2>3
<1>9. ASSUME NEW f \in Messages, HandleError(f)
      PROVE  LocalInv' /\ [Local!Next]_localVars
  BY <1>1, <1>6, <1>9 DEF HandleError
<1>10. ASSUME NEW r \in Requests, CommandTimeout(r)
       PROVE  LocalInv' /\ [Local!Next]_localVars
  BY <1>6, <1>10 DEF CommandTimeout
<1>11. CASE \/ Drain \/ BrokenPipe \/ SpawnError \/ (\E f \in Messages : HandleMismatch(f))
            \/ \E s \in Stoppers : Shutdown(s) \/ GraceTimeout(s) \/ KillTimeout(s)
  BY <1>1, <1>11 DEF Drain, BrokenPipe, SpawnError, HandleMismatch, Shutdown, GraceTimeout, KillTimeout
<1>12. CASE Child
  BY <1>1, <1>12 DEF Child, ChildReady, ChildReportsError, ChildDies, ChildAnswers, Says, parent, LocalInv
<1>13. CASE UNCHANGED vars
  BY <1>1, <1>13 DEF vars
<1> QED
  BY <1>2, <1>3, <1>4, <1>7, <1>8, <1>9, <1>10, <1>11, <1>12, <1>13 DEF Next, Parent

-----------------------------------------------------------------------------
(***************************************************************************)
(* The contract, kept by the rpc of a container: a promise is open exactly *)
(* as long as it has an entry, and with it a timer.                        *)
(***************************************************************************)
Promised == {"unsent", "unsettled", "resolved", "rejected"}

ContainerInv ==
    /\ promise \in [Prompts -> Promised]
    /\ entries = {q \in Prompts : promise[q] = "unsettled"}
    /\ stream # "none" => dockerPhase \in {"waiting", "ready", "failed"}

containerVars == <<ContainerStart, ContainerPromise, exited>>

LEMMA ContainerOpen ==
    ASSUME ContainerInv
    PROVE  Container!Open = entries /\ entries \subseteq Prompts
  BY DEF ContainerInv, Container!Open, ContainerPromise, Promised

\* Entries go with the promise they were made for.
LEMMA ContainerSettles ==
    ASSUME ContainerInv, NEW qs, qs \subseteq entries, NEW how \in {"resolved", "rejected"},
           entries' = entries \ qs, Docker!Settled(qs, how),
           stream' # "none" => dockerPhase' \in {"waiting", "ready", "failed"}
    PROVE  ContainerInv' /\ Container!Settled(qs, how)
<1>1. /\ promise' = [q \in Prompts |-> IF q \in qs THEN how ELSE promise[q]]
      /\ promise \in [Prompts -> Promised]
      /\ entries = {q \in Prompts : promise[q] = "unsettled"}
  BY DEF Docker!Settled, ContainerInv
<1>2. ContainerInv'
  BY <1>1 DEF ContainerInv, Promised
<1>3. \A q \in Prompts : ContainerPromise'[q] = IF q \in qs THEN how ELSE ContainerPromise[q]
  BY <1>1 DEF ContainerPromise
<1>4. ContainerPromise' = [q \in Prompts |-> ContainerPromise'[q]]
  BY DEF ContainerPromise
<1> QED
  BY <1>2, <1>3, <1>4 DEF Container!Settled

LEMMA ContainerStep ==
    ContainerInv /\ [Docker!Next]_dockerVars => ContainerInv' /\ [Container!Next]_containerVars
<1> SUFFICES ASSUME ContainerInv, [Docker!Next]_dockerVars
             PROVE  ContainerInv' /\ [Container!Next]_containerVars
  OBVIOUS
<1>0. stream # "none" => dockerPhase \in {"waiting", "ready", "failed"}
  BY DEF ContainerInv
<1> DEFINE Streams == stream' # "none" => dockerPhase' \in {"waiting", "ready", "failed"}
<1>1. CASE UNCHANGED <<entries, promise, exited>> /\ UNCHANGED ContainerStart /\ Streams
  BY <1>1 DEF ContainerInv, containerVars, ContainerPromise
<1>2. CASE /\ UNCHANGED <<entries, promise, exited>> /\ Streams
           /\ \/ ContainerStart = "new" /\ ContainerStart' = "starting"
              \/ ContainerStart = "starting" /\ ContainerStart' \in {"ready", "failed"}
  <2>1. ContainerInv' /\ UNCHANGED ContainerPromise
    BY <1>2 DEF ContainerInv, ContainerPromise
  <2>2. Container!StartGoes
    BY <1>2, <2>1 DEF Container!StartGoes
  <2> QED
    BY <2>1, <2>2 DEF Container!Next
<1>3. CASE Docker!StartGoesOn
  <2>1. /\ UNCHANGED <<entries, promise, exited>>
        /\ dockerPhase \in {"idle", "ensure", "exec"} /\ dockerPhase' \in {"ensure", "exec", "attach"}
        /\ dockerPhase = "idle" => dockerPhase' = "ensure"
        /\ Streams
    BY <1>0, <1>3 DEF Docker!StartGoesOn, Docker!StartSteps, Docker!requests
  <2> QED
    BY <1>1, <1>2, <2>1 DEF ContainerStart
<1>4. CASE Docker!StartFails \/ Docker!Attached \/ Docker!Ready \/ Docker!WrongProtocol \/ Docker!StrayError
  <2>1. /\ UNCHANGED <<entries, promise, exited>>
        /\ \/ UNCHANGED dockerPhase
           \/ dockerPhase \in {"ensure", "exec", "attach"} /\ dockerPhase' = "failed"
           \/ dockerPhase = "attach" /\ dockerPhase' = "waiting"
           \/ dockerPhase = "waiting" /\ dockerPhase' \in {"ready", "failed"}
        /\ Streams
    BY <1>0, <1>4 DEF Docker!StartFails, Docker!Attached, Docker!Ready, Docker!WrongProtocol,
       Docker!StrayError, Docker!Readable, Docker!Emitted, Docker!requests
  <2> QED
    BY <1>1, <1>2, <2>1 DEF ContainerStart
<1>5. ASSUME NEW q \in Prompts, Docker!Send(q)
      PROVE  ContainerInv' /\ [Container!Next]_containerVars
  <2>1. /\ promise[q] = "unsent" /\ entries' = entries \cup {q}
        /\ promise' = [p \in Prompts |-> IF p \in {q} THEN "unsettled" ELSE promise[p]]
        /\ UNCHANGED <<dockerPhase, exited, stream>>
    BY <1>5 DEF Docker!Send, Docker!Settled
  <2>2. ContainerInv'
    BY <2>1 DEF ContainerInv, Promised
  <2>3. \A p \in Prompts : ContainerPromise'[p] = IF p \in {q} THEN "open" ELSE ContainerPromise[p]
    BY <2>1 DEF ContainerPromise, ContainerInv
  <2>4. ContainerPromise' = [p \in Prompts |-> ContainerPromise'[p]]
    BY DEF ContainerPromise
  <2>5. Container!Settled({q}, "open")
    BY <2>3, <2>4 DEF Container!Settled
  <2>6. ContainerPromise[q] = "unsent" /\ UNCHANGED ContainerStart
    BY <2>1 DEF ContainerPromise, ContainerStart
  <2>7. Container!Call(q)
    BY <2>1, <2>5, <2>6 DEF Container!Call
  <2> QED
    BY <2>2, <2>7 DEF Container!Next
<1>6. ASSUME NEW q \in entries, NEW how \in {"resolved", "rejected"},
             entries' = entries \ {q}, Docker!Settled({q}, how),
             UNCHANGED <<dockerPhase, exited, stream>>
      PROVE  ContainerInv' /\ [Container!Next]_containerVars
  <2>1. /\ ContainerInv' /\ Container!Settled({q}, how)
        /\ q \in Container!Open /\ q \in Prompts /\ {q} \in SUBSET Prompts
        /\ UNCHANGED <<ContainerStart, exited>>
    BY <1>0, <1>6, ContainerSettles, ContainerOpen DEF ContainerStart
  <2>2. Container!Answer(q) \/ Container!Reject({q})
    BY <2>1 DEF Container!Answer, Container!Reject
  <2> QED
    BY <2>1, <2>2 DEF Container!Next
<1>7. ASSUME NEW q \in Prompts, NEW how \in {"resolved", "rejected"}, Docker!Answered(q, how)
      PROVE  ContainerInv' /\ [Container!Next]_containerVars
  <2>1. CASE q \in entries
    BY <1>6, <1>7, <2>1 DEF Docker!Answered
  <2>2. CASE q \notin entries
    <3>1. /\ UNCHANGED <<entries, promise, exited>>
          /\ UNCHANGED dockerPhase \/ (dockerPhase = "waiting" /\ dockerPhase' = "failed")
          /\ Streams
      BY <1>0, <1>7, <2>2 DEF Docker!Answered, Docker!Emitted
    <3> QED
      BY <1>1, <1>2, <3>1 DEF ContainerStart
  <2> QED
    BY <2>1, <2>2
<1>8. ASSUME NEW q \in Prompts, Docker!TimesOut(q)
      PROVE  ContainerInv' /\ [Container!Next]_containerVars
  BY <1>6, <1>8 DEF Docker!TimesOut
<1>9. CASE Docker!StreamEnds \/ Docker!StreamCloses
  <2>1. CASE exited
    <3>1. Docker!OnStreamEnd /\ stream # "none"
      BY <1>9 DEF Docker!StreamEnds, Docker!StreamCloses
    <3>2. UNCHANGED <<exited, dockerPhase, Docker!requests, halt>>
      BY <2>1, <3>1, Zenon DEF Docker!OnStreamEnd
    <3>3. UNCHANGED <<entries, promise, exited, dockerPhase>> /\ Streams
      BY <1>0, <3>1, <3>2 DEF Docker!requests
    <3> QED
      BY <1>1, <3>3 DEF ContainerStart
  <2>2. CASE ~exited
    <3>1. /\ exited' = TRUE /\ entries' = {} /\ Docker!Settled(entries, "rejected")
          /\ dockerPhase' = IF dockerPhase = "waiting" THEN "failed" ELSE dockerPhase
          /\ stream # "none"
      BY <1>9, <2>2 DEF Docker!StreamEnds, Docker!StreamCloses, Docker!OnStreamEnd, Docker!RejectEntries
    <3>2. Streams
      BY <1>0, <3>1
    <3>3. entries \ entries = {}
      OBVIOUS
    <3>4. ContainerInv' /\ Container!Settled(Container!Open, "rejected")
      BY <3>1, <3>2, <3>3, ContainerSettles, ContainerOpen
    <3>5. ContainerStart' = IF ContainerStart = "starting" THEN "failed" ELSE ContainerStart
      BY <1>0, <3>1 DEF ContainerStart
    <3>6. Container!Exit
      BY <2>2, <3>1, <3>4, <3>5 DEF Container!Exit
    <3> QED
      BY <3>4, <3>6 DEF Container!Next
  <2> QED
    BY <2>1, <2>2
<1>10. ASSUME NEW c \in DockerStoppers, Docker!Shutdown(c)
       PROVE  ContainerInv' /\ [Container!Next]_containerVars
  <2>1. /\ entries' = {} /\ Docker!Settled(entries, "rejected")
        /\ UNCHANGED <<dockerPhase, exited, stream>>
    BY <1>10 DEF Docker!Shutdown, Docker!RejectEntries
  <2>2. entries \ entries = {}
    OBVIOUS
  <2>3. /\ ContainerInv' /\ Container!Settled(entries, "rejected")
        /\ entries \subseteq Container!Open /\ entries \in SUBSET Prompts
    BY <1>0, <2>1, <2>2, ContainerSettles, ContainerOpen
  <2>4. Container!Reject(entries)
    BY <2>1, <2>3 DEF Container!Reject, ContainerStart
  <2> QED
    BY <2>3, <2>4 DEF Container!Next
<1>11. CASE \/ \E q \in Prompts : Docker!AgentAnswers(q)
            \/ \E c \in DockerStoppers : Docker!ShutdownAgain(c)
            \/ UNCHANGED dockerVars
  <2>1. UNCHANGED <<entries, promise, exited, dockerPhase, stream>>
    BY <1>11 DEF Docker!AgentAnswers, Docker!ShutdownAgain, Docker!requests, dockerVars
  <2> QED
    BY <1>0, <1>1, <2>1 DEF ContainerStart
<1> QED
  BY <1>3, <1>4, <1>5, <1>7, <1>8, <1>9, <1>10, <1>11 DEF Docker!Next, Docker!dockerVars, dockerVars

LEMMA ContainerInit == Docker!Init => ContainerInv /\ Container!Init
<1> SUFFICES ASSUME Docker!Init PROVE ContainerInv /\ Container!Init
  OBVIOUS
<1>1. ContainerInv
  BY DEF Docker!Init, ContainerInv, Promised
<1>2. \A q \in Prompts : ContainerPromise[q] = "unsent"
  BY DEF Docker!Init, ContainerPromise
<1>3. ContainerPromise = [q \in Prompts |-> "unsent"]
  BY <1>2 DEF ContainerPromise
<1> QED
  BY <1>1, <1>3 DEF Docker!Init, Container!Init, ContainerStart

LEMMA LocalInit == Init => LocalInv /\ Local!Init
<1> SUFFICES ASSUME Init PROVE LocalInv /\ Local!Init
  OBVIOUS
<1>1. LocalInv
  BY InitIInv DEF Init, LocalInv, LocalStart
<1>2. \A r \in Requests : LocalPromise[r] = "unsent"
  BY SynapsRpcAssumption DEF Init, LocalPromise, Requests
<1>3. LocalPromise = [r \in Requests |-> "unsent"]
  BY <1>2 DEF LocalPromise
<1>4. (child = "exited") = FALSE
  BY DEF Init
<1> QED
  BY <1>1, <1>3, <1>4 DEF Init, Local!Init, LocalStart

\* The rpc of a local child and that of a container keep the contract SessionRouter
\* has with either, for any number of requests and calls of shutdown.
THEOREM RpcsKeepTheContract == ChildSpec => ImplementsRpc
<1>1. ChildInit => LocalInv /\ Local!Init /\ ContainerInv /\ Container!Init
  BY LocalInit, ContainerInit DEF ChildInit
<1>2. LocalInv /\ [ChildNext]_<<focus, vars, dockerVars, proxyVars, handleVars>>
        => LocalInv' /\ [Local!Next]_(Local!contractVars)
  <2>1. [ChildNext]_<<focus, vars, dockerVars, proxyVars, handleVars>> => [Next]_vars
    BY DEF ChildNext
  <2> QED
    BY <2>1, LocalStep DEF localVars, Local!contractVars
<1>3. ContainerInv /\ [ChildNext]_<<focus, vars, dockerVars, proxyVars, handleVars>>
        => ContainerInv' /\ [Container!Next]_(Container!contractVars)
  <2>1. [ChildNext]_<<focus, vars, dockerVars, proxyVars, handleVars>> => [Docker!Next]_dockerVars
    BY DEF ChildNext
  <2> QED
    BY <2>1, ContainerStep DEF containerVars, Container!contractVars
<1> QED
  BY <1>1, <1>2, <1>3, PTL DEF ChildSpec, ImplementsRpc, Local!Spec, Container!Spec

LEMMA LocalKeeps ==
    [Local!Next]_(Local!contractVars)
      => [\A r \in Requests : LocalPromise[r] \in {"resolved", "rejected"}
            => LocalPromise'[r] = LocalPromise[r]]_(Local!contractVars)
<1> SUFFICES ASSUME Local!Next, NEW r \in Requests, LocalPromise[r] \in {"resolved", "rejected"}
             PROVE  LocalPromise'[r] = LocalPromise[r]
  OBVIOUS
<1> QED
  BY DEF Local!Next, Local!StartGoes, Local!Exit, Local!Call, Local!Answer, Local!Reject,
     Local!Open, Local!Settled

LEMMA ContainerKeeps ==
    [Container!Next]_(Container!contractVars)
      => [\A r \in Prompts : ContainerPromise[r] \in {"resolved", "rejected"}
            => ContainerPromise'[r] = ContainerPromise[r]]_(Container!contractVars)
<1> SUFFICES ASSUME Container!Next, NEW r \in Prompts, ContainerPromise[r] \in {"resolved", "rejected"}
             PROVE  ContainerPromise'[r] = ContainerPromise[r]
  OBVIOUS
<1> QED
  BY DEF Container!Next, Container!StartGoes, Container!Exit, Container!Call, Container!Answer,
     Container!Reject, Container!Open, Container!Settled

\* A settled request keeps its outcome, whatever arrives, however late, from a child
\* of either kind.
THEOREM OutcomesAreKept == ChildSpec => Local!SettledOnce /\ Container!SettledOnce
<1>1. Local!Spec => Local!SettledOnce
  BY LocalKeeps, PTL DEF Local!Spec, Local!SettledOnce
<1>2. Container!Spec => Container!SettledOnce
  BY ContainerKeeps, PTL DEF Container!Spec, Container!SettledOnce
<1> QED
  BY <1>1, <1>2, RpcsKeepTheContract, PTL DEF ImplementsRpc

-----------------------------------------------------------------------------
(***************************************************************************)
(* Induction up to n, over a set in place of a predicate                   *)
(***************************************************************************)

LEMMA UpInduction ==
  ASSUME NEW n \in Nat, NEW S, 0 \in S, \A m \in 0 .. n - 1 : m \in S => m + 1 \in S
  PROVE  0 .. n \subseteq S
<1> DEFINE B == {m \in 1 .. n : m \notin S}
           Under(m) == {k \in B : k < m}
           T == {Under(m) : m \in B}
<1> SUFFICES ASSUME B # {} PROVE FALSE
  OBVIOUS
<1>1. IsFiniteSet(B)
  <2>1. IsFiniteSet(1 .. n)
    BY FS_Interval
  <2> QED
    BY <2>1, FS_Subset
<1>2. T # {} /\ T \subseteq SUBSET B
  OBVIOUS
<1>3. IsWellFoundedOn(StrictSubsetOrdering(B), SUBSET B)
  BY <1>1, FS_StrictSubsetOrderingWellFounded, FS_FiniteSubsetsOfFinite
<1> HIDE DEF T
<1>4. PICK A \in T : \A C \in T : <<C, A>> \notin StrictSubsetOrdering(B)
  BY <1>2, <1>3, WFMin
<1>5. PICK m \in B : A = Under(m)
  BY DEF T
<1>6. m - 1 \in B
  BY <1>5
<1>7. Under(m - 1) \subseteq A /\ m - 1 \in A /\ m - 1 \notin Under(m - 1)
  BY <1>5, <1>6
<1>8. <<Under(m - 1), A>> \in StrictSubsetOrdering(B)
  BY <1>2, <1>5, <1>6, <1>7 DEF StrictSubsetOrdering, T
<1> QED
  BY <1>4, <1>6, <1>8 DEF T

-----------------------------------------------------------------------------
(***************************************************************************)
(* Frames: what moves from the queue to the pipe stays in line             *)
(***************************************************************************)

LEMMA PipeTypes ==
    ASSUME NEW p \in Pipes
    PROVE  /\ p.wire \in Seq(Frames) /\ p.queue \in Seq(Requests)
           /\ p.draining \in BOOLEAN /\ p.drains \in Nat /\ p.broken \in BOOLEAN
           /\ InLine(p) \in Seq(Frames)
<1>1. /\ p.wire \in Seq(Frames) /\ p.queue \in Seq(Requests)
      /\ p.draining \in BOOLEAN /\ p.drains \in Nat /\ p.broken \in BOOLEAN
  BY DEF Pipes
<1>2. p.queue \in Seq(Frames)
  BY <1>1 DEF Frames
<1> QED
  BY <1>1, <1>2 DEF InLine

LEMMA Concat ==
    ASSUME NEW w \in Seq(Frames), NEW u \in Seq(Frames)
    PROVE  /\ w \o u \in Seq(Frames) /\ Len(w \o u) = Len(w) + Len(u)
           /\ Len(w) \in Nat /\ Len(u) \in Nat
           /\ \A i \in 1 .. Len(w) : (w \o u)[i] = w[i]
           /\ \A i \in Len(w) + 1 .. Len(w) + Len(u) : (w \o u)[i] = u[i - Len(w)]
  OBVIOUS

LEMMA SameSequence ==
    ASSUME NEW w \in Seq(Frames), NEW u \in Seq(Frames), Len(w) = Len(u),
           \A i \in 1 .. Len(w) : w[i] = u[i]
    PROVE  w = u
  OBVIOUS

\* Frames taken from the front of one sequence and put at the end of another
\* leave the two in line as they were.
LEMMA MoveFront ==
    ASSUME NEW w \in Seq(Frames), NEW u \in Seq(Frames), NEW n \in 0 .. Len(u)
    PROVE  (w \o SubSeq(u, 1, n)) \o SubSeq(u, n + 1, Len(u)) = w \o u
<1> DEFINE a == SubSeq(u, 1, n)
           b == SubSeq(u, n + 1, Len(u))
<1>1. Len(u) \in Nat /\ Len(w) \in Nat
  OBVIOUS
<1>2. a \in Seq(Frames) /\ Len(a) = n /\ \A i \in 1 .. n : a[i] = u[i]
  BY <1>1
<1>3. b \in Seq(Frames) /\ Len(b) = Len(u) - n /\ \A i \in 1 .. Len(u) - n : b[i] = u[n + i]
  BY <1>1
<1> HIDE DEF a, b
<1>4. /\ w \o a \in Seq(Frames) /\ Len(w \o a) = Len(w) + n
      /\ \A i \in 1 .. Len(w) : (w \o a)[i] = w[i]
      /\ \A i \in Len(w) + 1 .. Len(w) + n : (w \o a)[i] = u[i - Len(w)]
  <2>1. \A i \in Len(w) + 1 .. Len(w) + n : i - Len(w) \in 1 .. n
    BY <1>1
  <2> QED
    BY <1>2, <2>1, Concat
<1>5. /\ (w \o a) \o b \in Seq(Frames) /\ Len((w \o a) \o b) = Len(w) + Len(u)
      /\ \A i \in 1 .. Len(w) + n : ((w \o a) \o b)[i] = (w \o a)[i]
      /\ \A i \in Len(w) + n + 1 .. Len(w) + Len(u) :
            ((w \o a) \o b)[i] = b[i - (Len(w) + n)]
  <2> DEFINE v == w \o a
  <2>1. /\ v \in Seq(Frames) /\ Len(v) = Len(w) + n
        /\ (Len(w) + n) + (Len(u) - n) = Len(w) + Len(u)
    BY <1>1, <1>4
  <2> HIDE DEF v
  <2>2. /\ v \o b \in Seq(Frames) /\ Len(v \o b) = Len(v) + Len(b)
        /\ \A i \in 1 .. Len(v) : (v \o b)[i] = v[i]
        /\ \A i \in Len(v) + 1 .. Len(v) + Len(b) : (v \o b)[i] = b[i - Len(v)]
    BY <1>3, <2>1, Concat
  <2>3. /\ v \o b \in Seq(Frames) /\ Len(v \o b) = Len(w) + Len(u)
        /\ \A i \in 1 .. Len(w) + n : (v \o b)[i] = v[i]
        /\ \A i \in Len(w) + n + 1 .. Len(w) + Len(u) : (v \o b)[i] = b[i - (Len(w) + n)]
    BY <1>3, <2>1, <2>2
  <2> QED
    BY <2>3 DEF v
<1>6. /\ w \o u \in Seq(Frames) /\ Len(w \o u) = Len(w) + Len(u)
      /\ \A i \in 1 .. Len(w) : (w \o u)[i] = w[i]
      /\ \A i \in Len(w) + 1 .. Len(w) + Len(u) : (w \o u)[i] = u[i - Len(w)]
  BY Concat
<1>7. ASSUME NEW i \in 1 .. Len(w) + Len(u)
      PROVE  ((w \o a) \o b)[i] = (w \o u)[i]
  <2>1. CASE i =< Len(w)
    BY <1>1, <1>4, <1>5, <1>6, <2>1
  <2>2. CASE i > Len(w) /\ i =< Len(w) + n
    BY <1>1, <1>4, <1>5, <1>6, <2>2
  <2>3. CASE i > Len(w) + n
    <3>1. /\ i - (Len(w) + n) \in 1 .. Len(u) - n /\ n + (i - (Len(w) + n)) = i - Len(w)
          /\ i \in Len(w) + n + 1 .. Len(w) + Len(u) /\ i \in Len(w) + 1 .. Len(w) + Len(u)
      BY <1>1, <2>3
    <3>2. ((w \o a) \o b)[i] = b[i - (Len(w) + n)]
      BY <1>5, <3>1
    <3>3. b[i - (Len(w) + n)] = u[i - Len(w)]
      BY <1>3, <3>1
    <3>4. (w \o u)[i] = u[i - Len(w)]
      BY <1>6, <3>1
    <3> QED
      BY <3>2, <3>3, <3>4
  <2>4. i =< Len(w) \/ (i > Len(w) /\ i =< Len(w) + n) \/ i > Len(w) + n
    BY <1>1
  <2> QED
    BY <2>1, <2>2, <2>3, <2>4
<1>8. (w \o a) \o b = w \o u
  <2>1. Len((w \o a) \o b) = Len(w \o u)
    BY <1>5, <1>6
  <2>2. \A i \in 1 .. Len((w \o a) \o b) : ((w \o a) \o b)[i] = (w \o u)[i]
    BY <1>5, <1>7
  <2> QED
    BY <1>5, <1>6, <2>1, <2>2, SameSequence
<1> QED
  BY <1>8 DEF a, b

\* What one 'drain' listener leaves: the frames in line as they were, and a
\* listener for those that stay in the queue.
LEMMA FlushKeeps ==
    ASSUME NEW p \in Pipes, NEW x \in FlushWriteQueue([p EXCEPT !.draining = FALSE])
    PROVE  x \in Pipes /\ InLine(x) = InLine(p) /\ Listening(x)
<1> DEFINE d == [p EXCEPT !.draining = FALSE]
           len == Len(p.queue)
<1>1. /\ p.wire \in Seq(Frames) /\ p.queue \in Seq(Requests) /\ p.queue \in Seq(Frames)
      /\ p.draining \in BOOLEAN /\ p.drains \in Nat /\ p.broken \in BOOLEAN
      /\ len \in Nat
  BY PipeTypes DEF Frames
<1>2. /\ d.wire = p.wire /\ d.queue = p.queue /\ d.draining = FALSE
      /\ d.drains = p.drains /\ d.broken = p.broken /\ d \in Pipes
  BY DEF Pipes
<1> HIDE DEF d
<1>3. CASE len = 0
  <2>1. x = d
    <3>1. x \in FlushWriteQueue(d) /\ Len(d.queue) = 0
      BY <1>2, <1>3 DEF d
    <3> QED
      BY <3>1, Zenon DEF FlushWriteQueue
  <2>2. p.queue = <<>>
    BY <1>1, <1>3
  <2> QED
    BY <1>2, <2>1, <2>2 DEF InLine, Listening
<1>4. ASSUME NEW n \in 0 .. len, NEW full \in BOOLEAN, n = len \/ full,
             x = Written([d EXCEPT !.queue = SubSeq(@, n + 1, len)], SubSeq(d.queue, 1, n), full)
      PROVE  x \in Pipes /\ InLine(x) = InLine(p) /\ Listening(x)
  <2>1. /\ x.wire = p.wire \o SubSeq(p.queue, 1, n)
        /\ x.queue = SubSeq(p.queue, n + 1, len)
        /\ x.draining = full
        /\ x.drains = p.drains + (IF full THEN 1 ELSE 0)
        /\ x.broken = (p.broken \/ child = "dead")
        /\ x = [wire |-> x.wire, queue |-> x.queue, draining |-> x.draining,
                drains |-> x.drains, broken |-> x.broken]
    BY <1>2, <1>4 DEF Written, Pipes
  <2>2. SubSeq(p.queue, 1, n) \in Seq(Frames) /\ SubSeq(p.queue, n + 1, len) \in Seq(Requests)
    BY <1>1
  <2>3. x \in Pipes
    <3>1. /\ x.wire \in Seq(Frames) /\ x.queue \in Seq(Requests)
          /\ x.drains \in Nat
      <4>1. x.wire \in Seq(Frames)
        <5>1. SubSeq(p.queue, 1, n) \in Seq(Frames)
          BY <2>2
        <5> QED
          BY <1>1, <2>1, <5>1, Concat
      <4>2. x.queue \in Seq(Requests)
        BY <2>1, <2>2, Zenon
      <4>3. x.drains \in Nat
        <5>1. x.drains = p.drains + (IF full THEN 1 ELSE 0) /\ p.drains \in Nat
          BY <1>1, <2>1, Zenon
        <5>2. (IF full THEN 1 ELSE 0) \in Nat
          OBVIOUS
        <5> HIDE DEF d
        <5> QED
          BY ONLY <5>1, <5>2
      <4> QED
        BY <4>1, <4>2, <4>3
    <3>2. x.draining \in BOOLEAN /\ x.broken \in BOOLEAN
      BY <2>1, Zenon
    <3> QED
      BY <2>1, <3>1, <3>2, Zenon DEF Pipes
  <2>4. InLine(x) = InLine(p)
    BY <1>1, <2>1, MoveFront DEF InLine
  <2>5. Listening(x)
    <3>1. CASE full
      BY <1>1, <2>1, <3>1 DEF Listening
    <3>2. CASE ~full
      BY <1>1, <1>4, <2>1, <3>2 DEF Listening
    <3> QED
      BY <3>1, <3>2
  <2> QED
    BY <2>3, <2>4, <2>5
<1>5. CASE len # 0
  <2>1. PICK n \in 0 .. len, full \in BOOLEAN :
           /\ n = len \/ full
           /\ x = Written([d EXCEPT !.queue = SubSeq(@, n + 1, len)], SubSeq(d.queue, 1, n), full)
    <3> DEFINE W(n, full) ==
                 Written([d EXCEPT !.queue = SubSeq(@, n + 1, len)], SubSeq(d.queue, 1, n), full)
    <3>1. x \in FlushWriteQueue(d) /\ Len(d.queue) = len
      BY <1>2 DEF d
    <3>2. x \in {W(len, FALSE)} \cup {W(n, TRUE) : n \in 1 .. len}
      BY <1>5, <3>1, Zenon DEF FlushWriteQueue
    <3> HIDE DEF W
    <3>3. \E n \in 0 .. len, full \in BOOLEAN : (n = len \/ full) /\ x = W(n, full)
      <4>1. len \in 0 .. len /\ 1 .. len \subseteq 0 .. len
        BY <1>1
      <4>2. CASE x = W(len, FALSE)
        BY <4>1, <4>2, Zenon
      <4>3. ASSUME NEW n \in 1 .. len, x = W(n, TRUE)
            PROVE  \E k \in 0 .. len, full \in BOOLEAN : (k = len \/ full) /\ x = W(k, full)
        BY <4>1, <4>3, Zenon
      <4> QED
        BY <3>2, <4>2, <4>3, Zenon
    <3> QED
      BY <3>3, Zenon DEF W
  <2> QED
    BY <1>4, <2>1
<1> QED
  BY <1>3, <1>5

\* What the listeners of one 'drain' event leave, however many there are.
LEMMA DrainedKeeps ==
    ASSUME NEW p \in Pipes, p.drains > 0, NEW x \in Drained(p)
    PROVE  x \in Pipes /\ InLine(x) = InLine(p) /\ Listening(x)
<1> DEFINE D == p.drains
           Next1(ps) == UNION {FlushWriteQueue([q EXCEPT !.draining = FALSE]) : q \in ps}
           Base == {[p EXCEPT !.drains = 0]}
           Runs(f, m) == f = [n \in 0 .. m |-> IF n = 0 THEN Base ELSE Next1(f[n - 1])]
           Good == {q \in Pipes : InLine(q) = InLine(p)}
           Done == {q \in Good : Listening(q)}
<1>0. D \in Nat
  BY PipeTypes
<1>1. \E f : Runs(f, D)
  <2> DEFINE S == {m \in 0 .. D : \E f : Runs(f, m)}
  <2>1. 0 \in S
    <3>1. Runs([n \in 0 .. 0 |-> Base], 0)
      OBVIOUS
    <3> HIDE DEF Runs
    <3>2. 0 \in 0 .. D
      BY <1>0
    <3> QED
      BY <3>1, <3>2
  <2>2. ASSUME NEW m \in 0 .. D - 1, m \in S PROVE m + 1 \in S
    <3> HIDE DEF Base, Next1
    <3>1. PICK f : Runs(f, m)
      BY <2>2
    <3>2. Runs([n \in 0 .. m + 1 |-> IF n = m + 1 THEN Next1(f[m]) ELSE f[n]], m + 1)
      BY <1>0, <3>1
    <3> HIDE DEF Runs
    <3>3. m + 1 \in 0 .. D
      BY <1>0
    <3> QED
      BY <3>2, <3>3
  <2> HIDE DEF S
  <2>3. 0 .. D \subseteq S
    BY <1>0, <2>1, <2>2, UpInduction
  <2>4. D \in S
    BY <1>0, <2>3
  <2> QED
    BY <2>4 DEF S
<1>2. PICK f : Runs(f, D) /\ Drained(p) = f[D]
  BY <1>1, Zenon DEF Drained
<1>3. ASSUME NEW ps \in SUBSET Good PROVE Next1(ps) \in SUBSET Done
  <2>1. ASSUME NEW q \in ps, NEW y \in FlushWriteQueue([q EXCEPT !.draining = FALSE])
        PROVE  y \in Done
    <3>1. q \in Pipes /\ InLine(q) = InLine(p)
      BY <1>3
    <3>2. y \in Pipes /\ InLine(y) = InLine(q) /\ Listening(y)
      BY <2>1, <3>1, FlushKeeps
    <3> QED
      BY <3>1, <3>2
  <2> QED
    BY <2>1, Zenon
<1>4. Base \in SUBSET Good
  <2>1. [p EXCEPT !.drains = 0] \in Pipes
    BY DEF Pipes
  <2>2. InLine([p EXCEPT !.drains = 0]) = InLine(p)
    BY DEF InLine, Pipes
  <2> QED
    BY <2>1, <2>2
<1> HIDE DEF Base, Next1, Good, Done
<1>5. \A n \in 0 .. D : f[n] \in SUBSET Good
  <2> DEFINE S == {m \in 0 .. D : f[m] \in SUBSET Good}
  <2>1. 0 \in S
    BY <1>0, <1>2, <1>4
  <2>2. ASSUME NEW m \in 0 .. D - 1, m \in S PROVE m + 1 \in S
    <3>1. f[m + 1] = Next1(f[m])
      BY <1>0, <1>2
    <3>2. Done \subseteq Good
      BY DEF Done
    <3> QED
      BY <1>0, <1>3, <2>2, <3>1, <3>2
  <2> HIDE DEF S
  <2>3. 0 .. D \subseteq S
    BY <1>0, <2>1, <2>2, UpInduction
  <2> QED
    BY <2>3 DEF S
<1>6. f[D] = Next1(f[D - 1]) /\ f[D - 1] \in SUBSET Good
  BY <1>0, <1>2, <1>5
<1> QED
  BY <1>2, <1>3, <1>6 DEF Done, Good

\* A frame behind the queue, or behind the pipe when nothing waits, is last.
LEMMA LastInLine ==
    ASSUME NEW w \in Seq(Frames), NEW u \in Seq(Frames), NEW e \in Frames
    PROVE  /\ w \o Append(u, e) = Append(w \o u, e)
           /\ (w \o <<e>>) \o <<>> = Append(w \o <<>>, e)
<1>1. /\ <<>> \in Seq(Frames) /\ Len(<<>>) = 0
      /\ w \o <<>> = w /\ w \o <<e>> = Append(w, e) /\ Append(w, e) \in Seq(Frames)
      /\ Append(w, e) \o <<>> = Append(w, e)
  OBVIOUS
<1>2. w \o Append(u, e) = Append(w \o u, e)
  <2>1. /\ Append(u, e) \in Seq(Frames) /\ Len(Append(u, e)) = Len(u) + 1
        /\ \A i \in 1 .. Len(u) : Append(u, e)[i] = u[i]
        /\ Append(u, e)[Len(u) + 1] = e
    OBVIOUS
  <2>2. /\ w \o u \in Seq(Frames) /\ Len(w \o u) = Len(w) + Len(u)
        /\ Len(w) \in Nat /\ Len(u) \in Nat
        /\ \A i \in 1 .. Len(w) : (w \o u)[i] = w[i]
        /\ \A i \in Len(w) + 1 .. Len(w) + Len(u) : (w \o u)[i] = u[i - Len(w)]
    BY Concat
  <2> DEFINE v == Append(u, e)
             y == Append(w \o u, e)
  <2>3. /\ y \in Seq(Frames) /\ Len(y) = Len(w) + Len(u) + 1
        /\ \A i \in 1 .. Len(w) + Len(u) : y[i] = (w \o u)[i]
        /\ y[Len(w) + Len(u) + 1] = e
    BY <2>2
  <2> HIDE DEF v, y
  <2>4. /\ w \o v \in Seq(Frames) /\ Len(w \o v) = Len(w) + Len(v)
        /\ \A i \in 1 .. Len(w) : (w \o v)[i] = w[i]
        /\ \A i \in Len(w) + 1 .. Len(w) + Len(v) : (w \o v)[i] = v[i - Len(w)]
    BY <2>1, Concat DEF v
  <2>5. ASSUME NEW i \in 1 .. Len(w \o v) PROVE (w \o v)[i] = y[i]
    <3>0. i \in 1 .. Len(w) + Len(u) + 1
      BY <2>1, <2>2, <2>4 DEF v
    <3>1. CASE i =< Len(w)
      <4>1. i \in 1 .. Len(w) /\ i \in 1 .. Len(w) + Len(u)
        BY <2>2, <3>0, <3>1
      <4> QED
        BY <2>2, <2>3, <2>4, <4>1
    <3>2. CASE i > Len(w) /\ i =< Len(w) + Len(u)
      <4>1. /\ i \in Len(w) + 1 .. Len(w) + Len(u) /\ i - Len(w) \in 1 .. Len(u)
            /\ i \in Len(w) + 1 .. Len(w) + Len(v)
        BY <2>1, <2>2, <3>2 DEF v
      <4>2. (w \o v)[i] = v[i - Len(w)] /\ v[i - Len(w)] = u[i - Len(w)]
        BY <2>1, <2>4, <4>1 DEF v
      <4>3. y[i] = (w \o u)[i] /\ (w \o u)[i] = u[i - Len(w)]
        BY <2>2, <2>3, <4>1
      <4> QED
        BY <4>2, <4>3
    <3>3. CASE i = Len(w) + Len(u) + 1
      <4>1. i \in Len(w) + 1 .. Len(w) + Len(v) /\ i - Len(w) = Len(u) + 1
        BY <2>1, <2>2, <3>3 DEF v
      <4>2. (w \o v)[i] = v[Len(u) + 1]
        BY <2>4, <4>1
      <4> QED
        BY <2>1, <2>3, <3>3, <4>2 DEF v
    <3>4. i =< Len(w) \/ (i > Len(w) /\ i =< Len(w) + Len(u)) \/ i = Len(w) + Len(u) + 1
      BY <2>2, <3>0
    <3> QED
      BY <3>1, <3>2, <3>3, <3>4
  <2>6. Len(w \o v) = Len(y)
    BY <2>1, <2>2, <2>3, <2>4 DEF v
  <2>7. w \o v = y
    BY <2>3, <2>4, <2>5, <2>6, SameSequence
  <2> QED
    BY <2>7 DEF v, y
<1> QED
  BY <1>1, <1>2

\* The next request at the end keeps the order.
LEMMA AddRequest ==
    ASSUME NEW f \in Seq(Frames), NEW n \in Nat, n + 1 \in Requests,
           InOrder(f), \A i \in 1 .. Len(f) : f[i] =< n
    PROVE  /\ InOrder(Append(f, n + 1))
           /\ \A i \in 1 .. Len(Append(f, n + 1)) : Append(f, n + 1)[i] =< n + 1
           /\ \A r : Contains(f, r) => Contains(Append(f, n + 1), r)
           /\ Contains(Append(f, n + 1), n + 1)
<1> DEFINE g == Append(f, n + 1)
<1>1. /\ Len(f) \in Nat /\ Len(g) = Len(f) + 1
      /\ \A i \in 1 .. Len(f) : g[i] = f[i]
      /\ g[Len(f) + 1] = n + 1
      /\ \A i \in 1 .. Len(f) : f[i] \in Nat
  BY SynapsRpcAssumption DEF Frames, Requests, Bye
<1> HIDE DEF g
<1>2. InOrder(g)
  <2> SUFFICES ASSUME NEW i \in 1 .. Len(g), NEW j \in 1 .. Len(g), i < j,
                      Bye \notin {g[i], g[j]}
               PROVE  g[i] < g[j]
    BY DEF InOrder
  <2>0. i \in 1 .. Len(f) + 1 /\ j \in 1 .. Len(f) + 1
    BY <1>1
  <2>1. i \in 1 .. Len(f) /\ (j \in 1 .. Len(f) \/ j = Len(f) + 1)
    <3>1. Len(f) \in Nat
      BY <1>1
    <3>2. \A l \in Nat : \A a, b \in 1 .. l + 1 : a < b => a \in 1 .. l /\ (b \in 1 .. l \/ b = l + 1)
      OBVIOUS
    <3> QED
      BY <2>0, <3>1, <3>2
  <2>2. CASE j \in 1 .. Len(f)
    BY <1>1, <2>1, <2>2 DEF InOrder
  <2>3. CASE j = Len(f) + 1
    BY <1>1, <2>1, <2>3
  <2> QED
    BY <2>1, <2>2, <2>3
<1>3. \A i \in 1 .. Len(g) : g[i] =< n + 1
  BY <1>1
<1>4. \A r : Contains(f, r) => Contains(g, r)
  BY <1>1 DEF Contains
<1>5. Contains(g, n + 1)
  BY <1>1 DEF Contains
<1> QED
  BY <1>2, <1>3, <1>4, <1>5 DEF g

\* The shutdown frame may pass the queue: it has no number.
LEMMA AddBye ==
    ASSUME NEW w \in Seq(Frames), NEW u \in Seq(Frames), NEW n \in Nat,
           InOrder(w \o u), \A i \in 1 .. Len(w \o u) : (w \o u)[i] =< n
    PROVE  /\ InOrder((w \o <<Bye>>) \o u)
           /\ \A i \in 1 .. Len((w \o <<Bye>>) \o u) : ((w \o <<Bye>>) \o u)[i] =< n
           /\ \A r : Contains(w \o u, r) => Contains((w \o <<Bye>>) \o u, r)
<1> DEFINE v == w \o <<Bye>>
           f == w \o u
           g == v \o u
           Was(i) == IF i > Len(w) THEN i - 1 ELSE i
<1>1. /\ v \in Seq(Frames) /\ Len(v) = Len(w) + 1 /\ Len(w) \in Nat
      /\ \A i \in 1 .. Len(w) : v[i] = w[i]
      /\ v[Len(w) + 1] = Bye
  BY DEF Frames
<1>2. /\ Len(f) = Len(w) + Len(u) /\ Len(u) \in Nat
      /\ \A i \in 1 .. Len(w) : f[i] = w[i]
      /\ \A i \in Len(w) + 1 .. Len(w) + Len(u) : f[i] = u[i - Len(w)]
  BY Concat
<1> HIDE DEF v, f
<1>3. /\ Len(g) = Len(v) + Len(u)
      /\ \A i \in 1 .. Len(v) : g[i] = v[i]
      /\ \A i \in Len(v) + 1 .. Len(v) + Len(u) : g[i] = u[i - Len(v)]
  BY <1>1, Concat
<1> HIDE DEF g
<1>4. ASSUME NEW i \in 1 .. Len(g), i # Len(w) + 1
      PROVE  Was(i) \in 1 .. Len(f) /\ g[i] = f[Was(i)]
  <2>1. CASE i =< Len(w)
    BY <1>1, <1>2, <1>3, <2>1
  <2>2. CASE i > Len(w) + 1
    <3>1. /\ i \in Len(v) + 1 .. Len(v) + Len(u)
          /\ i - 1 \in Len(w) + 1 .. Len(w) + Len(u)
          /\ i - Len(v) = (i - 1) - Len(w)
      BY <1>1, <1>2, <1>3, <2>2
    <3>2. g[i] = u[i - Len(v)] /\ f[i - 1] = u[(i - 1) - Len(w)]
      BY <1>2, <1>3, <3>1
    <3> QED
      BY <1>1, <1>2, <2>2, <3>1, <3>2
  <2> QED
    BY <1>1, <1>2, <1>3, <1>4, <2>1, <2>2
<1>5. Len(w) + 1 \in 1 .. Len(g) /\ g[Len(w) + 1] = Bye
  BY <1>1, <1>2, <1>3
<1>6. InOrder(g)
  <2> SUFFICES ASSUME NEW i \in 1 .. Len(g), NEW j \in 1 .. Len(g), i < j,
                      Bye \notin {g[i], g[j]}
               PROVE  g[i] < g[j]
    BY DEF InOrder
  <2>1. i # Len(w) + 1 /\ j # Len(w) + 1
    BY <1>5
  <2>2. Was(i) < Was(j)
    BY <1>1, <1>2, <1>3, <2>1
  <2> HIDE DEF Was
  <2> QED
    BY <1>4, <2>1, <2>2 DEF InOrder, f
<1>7. ASSUME NEW i \in 1 .. Len(g) PROVE g[i] =< n
  <2>1. CASE i = Len(w) + 1
    BY <1>5, <2>1 DEF Bye
  <2>2. CASE i # Len(w) + 1
    <3> HIDE DEF Was
    <3> QED
      BY <1>4, <2>2 DEF f
  <2> QED
    BY <2>1, <2>2
<1>8. ASSUME NEW r, Contains(f, r) PROVE Contains(g, r)
  <2>1. PICK k \in 1 .. Len(f) : f[k] = r
    BY <1>8 DEF Contains
  <2>2. CASE k =< Len(w)
    <3>1. k \in 1 .. Len(g) /\ k # Len(w) + 1 /\ Was(k) = k
      BY <1>1, <1>2, <1>3, <2>2
    <3> QED
      BY <1>4, <2>1, <3>1 DEF Contains
  <2>3. CASE k > Len(w)
    <3>1. k + 1 \in 1 .. Len(g) /\ k + 1 # Len(w) + 1 /\ Was(k + 1) = k
      BY <1>1, <1>2, <1>3, <2>3
    <3> QED
      BY <1>4, <2>1, <3>1 DEF Contains
  <2> QED
    BY <1>1, <1>2, <2>2, <2>3
<1> QED
  BY <1>6, <1>7, <1>8 DEF f, g, v

\* Writing a frame to the pipe itself: dropped when there is no child to read.
LEMMA RawWritten ==
    ASSUME NEW p \in Pipes, NEW e \in Frames, NEW x \in RawWrite(p, e)
    PROVE  \/ x = p /\ child \in Gone
           \/ /\ x \in Pipes /\ x.wire = p.wire \o <<e>> /\ x.queue = p.queue
              /\ \/ x.draining = p.draining /\ x.drains = p.drains
                 \/ x.draining /\ x.drains = p.drains + 1
<1>1. CASE child \in Gone
  BY <1>1, Zenon DEF RawWrite
<1>2. ASSUME NEW full \in BOOLEAN, x = Written(p, <<e>>, full)
      PROVE  /\ x \in Pipes /\ x.wire = p.wire \o <<e>> /\ x.queue = p.queue
             /\ \/ x.draining = p.draining /\ x.drains = p.drains
                \/ x.draining /\ x.drains = p.drains + 1
  <2>1. /\ p.wire \in Seq(Frames) /\ p.queue \in Seq(Requests)
        /\ p.draining \in BOOLEAN /\ p.drains \in Nat /\ p.broken \in BOOLEAN
    BY PipeTypes
  <2>2. /\ x.wire = p.wire \o <<e>> /\ x.queue = p.queue
        /\ x.draining = (p.draining \/ full)
        /\ x.drains = p.drains + (IF full THEN 1 ELSE 0)
        /\ x.broken = (p.broken \/ child = "dead")
        /\ x = [wire |-> x.wire, queue |-> x.queue, draining |-> x.draining,
                drains |-> x.drains, broken |-> x.broken]
    BY <1>2 DEF Written, Pipes
  <2>3. x.wire \in Seq(Frames)
    BY <2>1, <2>2
  <2>4. x.draining \in BOOLEAN /\ x.broken \in BOOLEAN
    BY <2>2, Zenon
  <2>5. /\ x.drains \in Nat
        /\ \/ x.draining = p.draining /\ x.drains = p.drains
           \/ x.draining /\ x.drains = p.drains + 1
    <3>1. CASE full
      <4>1. x.drains = p.drains + 1
        BY <2>2, <3>1
      <4>2. x.draining
        BY <2>2, <3>1, Zenon
      <4> QED
        BY <2>1, <4>1, <4>2
    <3>2. CASE ~full
      <4>1. x.drains = p.drains + 0
        BY <2>2, <3>2
      <4>2. x.draining = p.draining
        BY <2>1, <2>2, <3>2, Zenon
      <4> QED
        BY <2>1, <4>1, <4>2
    <3> QED
      BY <3>1, <3>2
  <2>6. x \in Pipes
    BY <2>1, <2>2, <2>3, <2>4, <2>5, Zenon DEF Pipes
  <2> QED
    BY <2>2, <2>5, <2>6
<1> QED
  BY <1>1, <1>2, Zenon DEF RawWrite

LEMMA InitPipe == Init => PipeInv
<1> SUFFICES ASSUME Init PROVE PipeInv
  OBVIOUS
<1>1. /\ pipe = [wire |-> <<>>, queue |-> <<>>, draining |-> FALSE, drains |-> 0,
                 broken |-> FALSE]
      /\ sent = 0 /\ child = "none" /\ start = "idle"
  BY DEF Init
<1>2. pipe \in Pipes /\ InLine(pipe) = <<>> /\ Listening(pipe)
  BY <1>1 DEF Pipes, InLine, Listening
<1> QED
  BY <1>1, <1>2, SynapsRpcAssumption DEF PipeInv, InOrder

\* A step that leaves the pipe alone, or drains it, keeps the invariant.
LEMMA StillInLine ==
    ASSUME PipeInv, pipe' \in Pipes, InLine(pipe') = InLine(pipe), Listening(pipe'),
           sent' = sent,
           child' \in {"booting", "ready"} => child \in {"booting", "ready"} \/ sent = 0,
           child' = "none" => child = "none", start' = "idle" <=> start = "idle",
           start = "idle" => child' = child
    PROVE  PipeInv'
<1>1. \A r \in 1 .. sent : sent # 0
  BY DEF PipeInv
<1> QED
  BY <1>1 DEF PipeInv

LEMMA PipeStep ==
    ASSUME PipeInv, [Next]_vars
    PROVE  PipeInv'
<1>0. /\ pipe \in Pipes /\ sent \in 0 .. MaxRequests /\ sent \in Nat /\ Listening(pipe)
      /\ InOrder(InLine(pipe))
      /\ \A i \in 1 .. Len(InLine(pipe)) : InLine(pipe)[i] =< sent
      /\ child \in {"booting", "ready"} => \A r \in 1 .. sent : Contains(InLine(pipe), r)
      /\ child = "none" => start = "idle"
      /\ start = "idle" => child = "none" /\ sent = 0
  BY SynapsRpcAssumption DEF PipeInv
<1>1. CASE Send
  <2>1. /\ sent < MaxRequests /\ sent' = sent + 1 /\ start = "resolved"
        /\ pipe' \in WriteFrame(pipe, sent + 1) /\ UNCHANGED <<child, start>>
    BY <1>1 DEF Send
  <2>2. sent + 1 \in Requests /\ sent + 1 \in Frames
    BY <1>0, <2>1, SynapsRpcAssumption DEF Requests, Frames
  <2>3. /\ pipe.wire \in Seq(Frames) /\ pipe.queue \in Seq(Requests)
        /\ pipe.queue \in Seq(Frames) /\ InLine(pipe) \in Seq(Frames)
        /\ pipe.drains \in Nat /\ pipe.draining \in BOOLEAN
    BY <1>0, PipeTypes DEF Frames
  <2>4. /\ pipe' \in Pipes /\ Listening(pipe')
        /\ \/ InLine(pipe') = Append(InLine(pipe), sent + 1)
           \/ InLine(pipe') = InLine(pipe) /\ child \in Gone
    <3>1. CASE pipe.draining
      <4>1. pipe' = [pipe EXCEPT !.queue = Append(@, sent + 1)]
        BY <2>1, <3>1 DEF WriteFrame
      <4>2. Append(pipe.queue, sent + 1) \in Seq(Requests)
        BY <2>2, <2>3
      <4>3. /\ pipe'.wire = pipe.wire /\ pipe'.queue = Append(pipe.queue, sent + 1)
            /\ pipe'.draining = pipe.draining /\ pipe'.drains = pipe.drains
            /\ pipe' \in Pipes
        BY <1>0, <4>1, <4>2 DEF Pipes
      <4>4. InLine(pipe') = Append(InLine(pipe), sent + 1)
        <5>1. pipe.wire \o Append(pipe.queue, sent + 1) = Append(pipe.wire \o pipe.queue, sent + 1)
          BY <2>2, <2>3, LastInLine
        <5> QED
          BY <4>3, <5>1, Zenon DEF InLine
      <4>5. Listening(pipe')
        BY <1>0, <3>1, <4>3 DEF Listening
      <4> QED
        BY <4>3, <4>4, <4>5
    <3>2. CASE ~pipe.draining
      <4>1. pipe' \in RawWrite(pipe, sent + 1)
        BY <2>1, <3>2 DEF WriteFrame
      <4>2. pipe.queue = <<>>
        BY <1>0, <3>2 DEF Listening
      <4>3. CASE pipe' = pipe /\ child \in Gone
        BY <1>0, <4>3
      <4>4. CASE /\ pipe' \in Pipes /\ pipe'.wire = pipe.wire \o <<sent + 1>>
                 /\ pipe'.queue = pipe.queue
                 /\ \/ pipe'.draining = pipe.draining /\ pipe'.drains = pipe.drains
                    \/ pipe'.draining /\ pipe'.drains = pipe.drains + 1
        <5>1. InLine(pipe') = Append(InLine(pipe), sent + 1)
          BY <2>2, <2>3, <4>2, <4>4, LastInLine DEF InLine
        <5>2. Listening(pipe')
          BY <2>3, <3>2, <4>2, <4>4 DEF Listening
        <5> QED
          BY <4>4, <5>1, <5>2
      <4> QED
        BY <1>0, <2>2, <4>1, <4>3, <4>4, RawWritten
    <3> QED
      BY <3>1, <3>2
  <2>5. CASE InLine(pipe') = Append(InLine(pipe), sent + 1)
    <3>1. /\ InOrder(InLine(pipe'))
          /\ \A i \in 1 .. Len(InLine(pipe')) : InLine(pipe')[i] =< sent + 1
          /\ \A r : Contains(InLine(pipe), r) => Contains(InLine(pipe'), r)
          /\ Contains(InLine(pipe'), sent + 1)
      BY <1>0, <2>2, <2>3, <2>5, AddRequest
    <3>2. \A r \in 1 .. sent + 1 : r \in 1 .. sent \/ r = sent + 1
      BY <1>0
    <3>3. sent' \in 0 .. MaxRequests
      BY <1>0, <2>1, SynapsRpcAssumption
    <3>4. child \in {"booting", "ready"} => \A r \in 1 .. sent + 1 : Contains(InLine(pipe'), r)
      BY <1>0, <3>1, <3>2
    <3> QED
      BY <1>0, <2>1, <2>4, <3>1, <3>3, <3>4 DEF PipeInv
  <2>6. CASE InLine(pipe') = InLine(pipe) /\ child \in Gone
    <3>1. \A i \in 1 .. Len(InLine(pipe)) : InLine(pipe)[i] =< sent + 1
      <4>1. \A i \in 1 .. Len(InLine(pipe)) : InLine(pipe)[i] \in Nat
        BY <2>3 DEF Frames, Requests, Bye
      <4> QED
        BY <1>0, <4>1
    <3>2. sent' \in 0 .. MaxRequests
      BY <1>0, <2>1, SynapsRpcAssumption
    <3> QED
      BY <1>0, <2>1, <2>4, <2>6, <3>1, <3>2 DEF PipeInv, Gone
  <2> QED
    BY <2>4, <2>5, <2>6
<1>2. ASSUME NEW s \in Stoppers, Shutdown(s) PROVE PipeInv'
  <2>1. UNCHANGED <<sent, child, start>>
    BY <1>2 DEF Shutdown
  <2>2. CASE pipe' = pipe
    BY <1>0, <2>1, <2>2 DEF PipeInv
  <2>3. CASE pipe' \in RawWrite(pipe, Bye) /\ pipe' # pipe
    <3>1. /\ pipe' \in Pipes /\ pipe'.wire = pipe.wire \o <<Bye>>
          /\ pipe'.queue = pipe.queue
          /\ \/ pipe'.draining = pipe.draining /\ pipe'.drains = pipe.drains
             \/ pipe'.draining /\ pipe'.drains = pipe.drains + 1
      BY <1>0, <2>3, RawWritten DEF Frames
    <3>2. /\ pipe.wire \in Seq(Frames) /\ pipe.queue \in Seq(Frames) /\ pipe.drains \in Nat
          /\ pipe.draining \in BOOLEAN
      BY <1>0, PipeTypes DEF Frames
    <3>3. /\ InOrder(InLine(pipe'))
          /\ \A i \in 1 .. Len(InLine(pipe')) : InLine(pipe')[i] =< sent
          /\ \A r : Contains(InLine(pipe), r) => Contains(InLine(pipe'), r)
      BY <1>0, <3>1, <3>2, AddBye DEF InLine
    <3>4. Listening(pipe')
      BY <1>0, <3>1, <3>2 DEF Listening
    <3> QED
      BY <1>0, <2>1, <3>1, <3>3, <3>4 DEF PipeInv
  <2> QED
    BY <1>2, <2>2, <2>3 DEF Shutdown
<1>3. CASE Drain
  <2>1. /\ pipe' \in Drained(pipe) /\ pipe.drains > 0
        /\ UNCHANGED <<sent, child, start>>
    BY <1>3 DEF Drain
  <2>2. pipe' \in Pipes /\ InLine(pipe') = InLine(pipe) /\ Listening(pipe')
    BY <1>0, <2>1, DrainedKeeps
  <2> QED
    BY <1>0, <2>1, <2>2, StillInLine
<1>4. CASE /\ UNCHANGED <<pipe, sent>>
           /\ child' \in {"booting", "ready"} => child \in {"booting", "ready"} \/ sent = 0
           /\ child' = "none" => child = "none"
           /\ child' = "none" => start' = "idle"
           /\ start' = "idle" => child' = "none" /\ sent = 0
  BY <1>0, <1>4 DEF PipeInv
<1>5. CASE Start \/ SpawnError \/ SpawnTimeout \/ BrokenPipe \/ OnChildExit
  BY <1>0, <1>4, <1>5 DEF Start, SpawnError, SpawnTimeout, BrokenPipe, OnChildExit
<1>6. ASSUME NEW r \in Requests, CommandTimeout(r) PROVE PipeInv'
  BY <1>0, <1>4, <1>6 DEF CommandTimeout
<1>7. ASSUME NEW f \in Messages,
             HandleReady(f) \/ HandleMismatch(f) \/ HandleResponse(f) \/ HandleError(f)
      PROVE  PipeInv'
  BY <1>0, <1>4, <1>7 DEF HandleReady, HandleMismatch, HandleResponse, HandleError
<1>8. ASSUME NEW s \in Stoppers, GraceTimeout(s) \/ KillTimeout(s) PROVE PipeInv'
  BY <1>0, <1>4, <1>8 DEF GraceTimeout, KillTimeout
<1>9. CASE Child
  BY <1>0, <1>4, <1>9
     DEF Child, ChildReady, ChildAnswers, ChildReportsError, ChildDies, Says, parent
<1>10. CASE UNCHANGED vars
  BY <1>0, <1>4, <1>10 DEF vars
<1> QED
  BY <1>1, <1>2, <1>3, <1>5, <1>6, <1>7, <1>8, <1>9, <1>10 DEF Next, Parent

\* Requests reach the child in the order they were sent, none is lost while the
\* child can read, and one that waits has a 'drain' event to wait for.
THEOREM RequestsStayInLine == Spec => []FramesAreKept
<1>1. PipeInv => FramesAreKept
  <2> SUFFICES ASSUME PipeInv PROVE FramesAreKept
    OBVIOUS
  <2>1. pipe.queue # <<>> => pipe.draining /\ pipe.drains > 0
    BY DEF PipeInv, Listening
  <2> QED
    BY <2>1 DEF PipeInv, FramesAreKept
<1> QED
  BY <1>1, InitPipe, PipeStep, PTL DEF Spec

-----------------------------------------------------------------------------
(***************************************************************************)
(* The reply: chunks issued, and text that is still in the buffer          *)
(***************************************************************************)
Chunk == [type : {"text", "task", "aux"}, ids : Seq(Nat)]

\* A chunk that shows an event of F, one that forces a flush.
Forces(x, F) == x.type # "text" /\ x.ids[1] \in F

AreOf(iss, buf, n) ==
    /\ \A k \in 1 .. Len(buf) : buf[k] \in 1 .. n
    /\ \A i \in 1 .. Len(iss) :
         /\ \A k \in 1 .. Len(iss[i].ids) : iss[i].ids[k] \in 1 .. n
         /\ iss[i].type # "text" => Len(iss[i].ids) = 1

Ordered(iss, buf) ==
    /\ \A i \in 1 .. Len(iss) : iss[i].type = "text" =>
         Proxy!Ascending(iss[i].ids) /\ Proxy!Before(iss[i].ids, buf)
    /\ \A i, j \in 1 .. Len(iss) : iss[i].type = "text" /\ iss[j].type = "text" /\ i < j =>
         Proxy!Before(iss[i].ids, iss[j].ids)
    /\ Proxy!Ascending(buf)

AllText(iss, buf, T) ==
    /\ \A k \in 1 .. Len(buf) : buf[k] \in T
    /\ \A i \in 1 .. Len(iss) : iss[i].type = "text" =>
         \A k \in 1 .. Len(iss[i].ids) : iss[i].ids[k] \in T

Behind(iss, buf, F) ==
    \A i \in 1 .. Len(iss) : Forces(iss[i], F) =>
      /\ \A k \in 1 .. Len(buf) : buf[k] > iss[i].ids[1]
      /\ \A j \in i .. Len(iss) : iss[j].type = "text" =>
           \A k \in 1 .. Len(iss[j].ids) : iss[j].ids[k] > iss[i].ids[1]

\* The reply made of the first n events; T are those that give text.
Reply(iss, buf, n, T, F) ==
    /\ iss \in Seq(Chunk) /\ buf \in Seq(Nat) /\ n \in Nat
    /\ AreOf(iss, buf, n) /\ Ordered(iss, buf) /\ AllText(iss, buf, T) /\ Behind(iss, buf, F)

\* Of the text events of D none is missing.
Kept(iss, buf, D) ==
    \A e \in D : \/ \E k \in 1 .. Len(buf) : buf[k] = e
                 \/ \E i \in 1 .. Len(iss) :
                      iss[i].type = "text" /\ \E k \in 1 .. Len(iss[i].ids) : iss[i].ids[k] = e

LEMMA AppendNat ==
    ASSUME NEW s \in Seq(Nat), NEW x \in Nat
    PROVE  /\ Append(s, x) \in Seq(Nat) /\ Len(Append(s, x)) = Len(s) + 1 /\ Len(s) \in Nat
           /\ \A k \in 1 .. Len(s) : Append(s, x)[k] = s[k] /\ s[k] \in Nat
           /\ Append(s, x)[Len(s) + 1] = x
  OBVIOUS

LEMMA AppendChunk ==
    ASSUME NEW s \in Seq(Chunk), NEW x \in Chunk
    PROVE  /\ Append(s, x) \in Seq(Chunk) /\ Len(Append(s, x)) = Len(s) + 1 /\ Len(s) \in Nat
           /\ \A k \in 1 .. Len(s) : Append(s, x)[k] = s[k] /\ s[k] \in Chunk
           /\ Append(s, x)[Len(s) + 1] = x
  OBVIOUS

LEMMA ReplyNumbers ==
    ASSUME NEW iss \in Seq(Chunk), NEW buf \in Seq(Nat)
    PROVE  /\ Len(iss) \in Nat /\ Len(buf) \in Nat
           /\ \A k \in 1 .. Len(buf) : buf[k] \in Nat
           /\ \A i \in 1 .. Len(iss) :
                /\ iss[i] \in Chunk /\ iss[i].ids \in Seq(Nat) /\ Len(iss[i].ids) \in Nat
                /\ \A k \in 1 .. Len(iss[i].ids) : iss[i].ids[k] \in Nat
<1>1. \A i \in 1 .. Len(iss) : iss[i] \in Chunk
  OBVIOUS
<1>2. \A i \in 1 .. Len(iss) : iss[i].ids \in Seq(Nat)
  BY <1>1 DEF Chunk
<1>3. \A s \in Seq(Nat) : Len(s) \in Nat /\ \A k \in 1 .. Len(s) : s[k] \in Nat
  OBVIOUS
<1> QED
  BY <1>1, <1>2, <1>3

\* An event later than all the others joins the buffer.
LEMMA ReplyBuffers ==
    ASSUME NEW iss, NEW buf, NEW n, NEW T, NEW F,
           Reply(iss, buf, n, T, F), n + 1 \in T
    PROVE  Reply(iss, Append(buf, n + 1), n + 1, T, F)
<1> DEFINE new == Append(buf, n + 1)
<1>1. /\ iss \in Seq(Chunk) /\ buf \in Seq(Nat) /\ n \in Nat /\ Len(iss) \in Nat
      /\ AreOf(iss, buf, n) /\ Ordered(iss, buf) /\ AllText(iss, buf, T) /\ Behind(iss, buf, F)
  BY DEF Reply
<1>2. /\ new \in Seq(Nat) /\ Len(new) = Len(buf) + 1 /\ Len(buf) \in Nat
      /\ \A k \in 1 .. Len(buf) : new[k] = buf[k]
      /\ new[Len(buf) + 1] = n + 1
      /\ \A k \in 1 .. Len(new) : k \in 1 .. Len(buf) \/ k = Len(buf) + 1
  BY <1>1, AppendNat
<1> HIDE DEF new
<1>n. /\ \A k \in 1 .. Len(buf) : buf[k] \in Nat /\ buf[k] \in 1 .. n
      /\ \A i \in 1 .. Len(iss) :
           /\ Len(iss[i].ids) \in Nat
           /\ \A k \in 1 .. Len(iss[i].ids) : iss[i].ids[k] \in Nat /\ iss[i].ids[k] \in 1 .. n
  BY <1>1, ReplyNumbers DEF AreOf
<1>m. \A x \in 1 .. n : x < n + 1 /\ n + 1 > x
  BY <1>1
<1>3. AreOf(iss, new, n + 1)
  <2>1. \A x \in 1 .. n : x \in 1 .. n + 1
    BY <1>1
  <2>2. \A k \in 1 .. Len(new) : new[k] \in 1 .. n + 1
    BY SMTT(30), <1>1, <1>2, <1>n, <2>1
  <2>3. \A i \in 1 .. Len(iss) : \A k \in 1 .. Len(iss[i].ids) : iss[i].ids[k] \in 1 .. n + 1
    BY <1>n, <2>1
  <2> QED
    BY <1>1, <2>2, <2>3 DEF AreOf
<1>4. Ordered(iss, new)
  <2>1. ASSUME NEW i \in 1 .. Len(iss), iss[i].type = "text"
        PROVE  Proxy!Before(iss[i].ids, new)
    <3> SUFFICES ASSUME NEW k \in 1 .. Len(iss[i].ids), NEW l \in 1 .. Len(new)
                 PROVE  iss[i].ids[k] < new[l]
      BY DEF Proxy!Before
    <3>1. CASE l \in 1 .. Len(buf)
      <4>1. Proxy!Before(iss[i].ids, buf)
        BY <1>1, <2>1 DEF Ordered
      <4> QED
        BY <1>2, <3>1, <4>1 DEF Proxy!Before
    <3>2. CASE l = Len(buf) + 1
      BY <1>2, <1>n, <1>m, <3>2
    <3> QED
      BY <1>2, <3>1, <3>2
  <2>2. Proxy!Ascending(new)
    <3> SUFFICES ASSUME NEW k \in 1 .. Len(new), NEW l \in 1 .. Len(new), k < l
                 PROVE  new[k] < new[l]
      BY DEF Proxy!Ascending
    <3>0. Proxy!Ascending(buf)
      BY <1>1 DEF Ordered
    <3>1. CASE l \in 1 .. Len(buf)
      <4>1. k \in 1 .. Len(buf)
        BY <1>2, <3>1
      <4> QED
        BY <1>2, <3>0, <3>1, <4>1 DEF Proxy!Ascending
    <3>2. CASE l = Len(buf) + 1
      <4>1. k \in 1 .. Len(buf)
        BY <1>2, <3>2
      <4> QED
        BY <1>2, <1>n, <1>m, <3>2, <4>1
    <3> QED
      BY <1>2, <3>1, <3>2
  <2> QED
    BY <1>1, <2>1, <2>2 DEF Ordered
<1>5. AllText(iss, new, T)
  BY <1>1, <1>2 DEF AllText
<1>6. Behind(iss, new, F)
  <2> SUFFICES ASSUME NEW i \in 1 .. Len(iss), Forces(iss[i], F), NEW k \in 1 .. Len(new)
               PROVE  new[k] > iss[i].ids[1]
    BY <1>1 DEF Behind
  <2>0. Len(iss[i].ids) = 1
    BY <1>1 DEF AreOf, Forces
  <2>1. iss[i].ids[1] \in Nat /\ iss[i].ids[1] \in 1 .. n
    BY <1>n, <2>0
  <2>2. CASE k \in 1 .. Len(buf)
    BY <1>1, <1>2, <2>2 DEF Behind
  <2>3. CASE k = Len(buf) + 1
    BY <1>2, <1>m, <2>1, <2>3
  <2> QED
    BY <1>2, <2>2, <2>3
<1>7. n + 1 \in Nat
  BY <1>1
<1> QED
  BY <1>1, <1>2, <1>3, <1>4, <1>5, <1>6, <1>7 DEF Reply, new

\* The buffer is handed over as one chunk.
LEMMA ReplyFlushes ==
    ASSUME NEW iss, NEW buf, NEW n, NEW T, NEW F, Reply(iss, buf, n, T, F)
    PROVE  Reply(Append(iss, [type |-> "text", ids |-> buf]), <<>>, n, T, F)
<1> DEFINE x == [type |-> "text", ids |-> buf]
           new == Append(iss, x)
<1>1. /\ iss \in Seq(Chunk) /\ buf \in Seq(Nat) /\ n \in Nat /\ Len(iss) \in Nat
      /\ AreOf(iss, buf, n) /\ Ordered(iss, buf) /\ AllText(iss, buf, T) /\ Behind(iss, buf, F)
  BY DEF Reply
<1>2. x \in Chunk /\ x.type = "text" /\ x.ids = buf
  BY <1>1 DEF Chunk
<1> HIDE DEF x
<1>3. /\ new \in Seq(Chunk) /\ Len(new) = Len(iss) + 1
      /\ \A k \in 1 .. Len(iss) : new[k] = iss[k]
      /\ new[Len(iss) + 1] = x
      /\ \A k \in 1 .. Len(new) : k \in 1 .. Len(iss) \/ k = Len(iss) + 1
  BY <1>1, <1>2, AppendChunk
<1>4. <<>> \in Seq(Nat) /\ Len(<<>>) = 0
  OBVIOUS
<1> HIDE DEF new
<1>5. AreOf(new, <<>>, n)
  BY SMTT(30), <1>1, <1>2, <1>3, <1>4 DEF AreOf
<1>6. Ordered(new, <<>>)
  <2>1. Proxy!Ascending(<<>>) /\ \A s : Proxy!Before(s, <<>>)
    BY <1>4 DEF Proxy!Ascending, Proxy!Before
  <2>2. ASSUME NEW i \in 1 .. Len(new), new[i].type = "text"
        PROVE  Proxy!Ascending(new[i].ids)
    BY <1>1, <1>2, <1>3, <2>2 DEF Ordered
  <2>3. ASSUME NEW i \in 1 .. Len(new), NEW j \in 1 .. Len(new),
               new[i].type = "text", new[j].type = "text", i < j
        PROVE  Proxy!Before(new[i].ids, new[j].ids)
    <3>0. i # Len(iss) + 1
      <4>1. Len(new) = Len(iss) + 1 /\ Len(iss) \in Nat
        BY <1>1, <1>3
      <4> QED
        BY <2>3, <4>1
    <3>1. i \in 1 .. Len(iss) /\ new[i] = iss[i]
      BY <1>3, <3>0
    <3>2. CASE j \in 1 .. Len(iss)
      BY <1>1, <1>3, <2>3, <3>1, <3>2 DEF Ordered
    <3>3. CASE j = Len(iss) + 1
      BY <1>1, <1>2, <1>3, <2>3, <3>1, <3>3 DEF Ordered
    <3> QED
      BY <1>3, <3>2, <3>3
  <2> QED
    BY <2>1, <2>2, <2>3 DEF Ordered
<1>7. AllText(new, <<>>, T)
  BY SMTT(30), <1>1, <1>2, <1>3, <1>4 DEF AllText
<1>8. Behind(new, <<>>, F)
  <2> SUFFICES ASSUME NEW i \in 1 .. Len(new), Forces(new[i], F), NEW j \in i .. Len(new),
                      new[j].type = "text", NEW k \in 1 .. Len(new[j].ids)
               PROVE  new[j].ids[k] > new[i].ids[1]
    BY <1>4 DEF Behind
  <2>1. i \in 1 .. Len(iss) /\ new[i] = iss[i]
    BY <1>2, <1>3 DEF Forces
  <2>2. CASE j \in 1 .. Len(iss)
    <3>1. j \in i .. Len(iss) /\ new[j] = iss[j]
      BY <1>1, <1>3, <2>1, <2>2
    <3> QED
      BY <1>1, <2>1, <3>1 DEF Behind
  <2>3. CASE j = Len(iss) + 1
    BY <1>1, <1>2, <1>3, <2>1, <2>3 DEF Behind
  <2>4. j \in 1 .. Len(new)
    BY <1>1, <1>3
  <2> QED
    BY <1>3, <2>2, <2>3, <2>4
<1> QED
  BY <1>1, <1>3, <1>4, <1>5, <1>6, <1>7, <1>8 DEF Reply, new, x

\* The next event is shown as such, behind all the text if it forces a flush.
LEMMA ReplyMarks ==
    ASSUME NEW iss, NEW buf, NEW n, NEW T, NEW F,
           Reply(iss, buf, n, T, F), NEW kind \in {"task", "aux"},
           n + 1 \in F => buf = <<>>
    PROVE  Reply(Append(iss, [type |-> kind, ids |-> <<n + 1>>]), buf, n + 1, T, F)
<1> DEFINE x == [type |-> kind, ids |-> <<n + 1>>]
           new == Append(iss, x)
<1>1. /\ iss \in Seq(Chunk) /\ buf \in Seq(Nat) /\ n \in Nat /\ Len(iss) \in Nat
      /\ AreOf(iss, buf, n) /\ Ordered(iss, buf) /\ AllText(iss, buf, T) /\ Behind(iss, buf, F)
  BY DEF Reply
<1>2. x \in Chunk /\ x.type # "text" /\ Len(x.ids) = 1 /\ x.ids[1] = n + 1
  BY <1>1 DEF Chunk
<1> HIDE DEF x
<1>3. /\ new \in Seq(Chunk) /\ Len(new) = Len(iss) + 1
      /\ \A k \in 1 .. Len(iss) : new[k] = iss[k]
      /\ new[Len(iss) + 1] = x
      /\ \A k \in 1 .. Len(new) : k \in 1 .. Len(iss) \/ k = Len(iss) + 1
  BY <1>1, <1>2, AppendChunk
<1> HIDE DEF new
<1>4. n + 1 \in Nat /\ n + 1 \in 1 .. n + 1 /\ \A y \in 1 .. n : y \in 1 .. n + 1
  BY <1>1
<1>5. AreOf(new, buf, n + 1)
  <2>1. \A k \in 1 .. Len(buf) : buf[k] \in 1 .. n + 1
    BY <1>1, <1>4 DEF AreOf
  <2>2. ASSUME NEW i \in 1 .. Len(new)
        PROVE  /\ \A k \in 1 .. Len(new[i].ids) : new[i].ids[k] \in 1 .. n + 1
               /\ new[i].type # "text" => Len(new[i].ids) = 1
    <3>1. CASE i \in 1 .. Len(iss)
      BY <1>1, <1>3, <1>4, <3>1 DEF AreOf
    <3>2. CASE i = Len(iss) + 1
      BY <1>2, <1>3, <1>4, <3>2
    <3> QED
      BY <1>3, <3>1, <3>2
  <2> QED
    BY <2>1, <2>2 DEF AreOf
<1>6. Ordered(new, buf)
  BY <1>1, <1>2, <1>3 DEF Ordered
<1>7. AllText(new, buf, T)
  BY <1>1, <1>2, <1>3 DEF AllText
<1>8. Behind(new, buf, F)
  <2> SUFFICES ASSUME NEW i \in 1 .. Len(new), Forces(new[i], F)
               PROVE  /\ \A k \in 1 .. Len(buf) : buf[k] > new[i].ids[1]
                      /\ \A j \in i .. Len(new) : new[j].type = "text" =>
                           \A k \in 1 .. Len(new[j].ids) : new[j].ids[k] > new[i].ids[1]
    BY DEF Behind
  <2>1. CASE i \in 1 .. Len(iss)
    <3>1. ASSUME NEW j \in i .. Len(new), new[j].type = "text"
          PROVE  j \in i .. Len(iss) /\ new[j] = iss[j]
      BY <1>1, <1>2, <1>3, <2>1, <3>1
    <3> QED
      BY <1>1, <1>3, <2>1, <3>1 DEF Behind
  <2>2. CASE i = Len(iss) + 1
    <3>1. new[i] = x /\ n + 1 \in F
      BY <1>2, <1>3, <2>2 DEF Forces
    <3>2. Len(buf) = 0
      BY <3>1
    <3>3. \A j \in i .. Len(new) : j = Len(iss) + 1 /\ new[j].type # "text"
      BY <1>1, <1>2, <1>3, <2>2
    <3> QED
      BY <3>2, <3>3
  <2> QED
    BY <1>3, <2>1, <2>2
<1> QED
  BY <1>1, <1>3, <1>4, <1>5, <1>6, <1>7, <1>8 DEF Reply, new, x

\* More events arrive, or are seen; those seen stay what they were.
LEMMA ReplyGrows ==
    ASSUME NEW iss, NEW buf, NEW n, NEW T, NEW F, Reply(iss, buf, n, T, F),
           NEW m \in Nat, n =< m, NEW T2, T \subseteq T2, NEW F2,
           \A e \in 1 .. n : e \in F2 => e \in F
    PROVE  Reply(iss, buf, m, T2, F2)
<1>1. /\ iss \in Seq(Chunk) /\ buf \in Seq(Nat) /\ n \in Nat /\ Len(iss) \in Nat
      /\ AreOf(iss, buf, n) /\ Ordered(iss, buf) /\ AllText(iss, buf, T) /\ Behind(iss, buf, F)
  BY DEF Reply
<1>2. \A x \in 1 .. n : x \in 1 .. m
  BY <1>1
<1>3. AreOf(iss, buf, m)
  BY <1>1, <1>2 DEF AreOf
<1>4. AllText(iss, buf, T2)
  BY <1>1 DEF AllText
<1>5. \A i \in 1 .. Len(iss) : Forces(iss[i], F2) => Forces(iss[i], F)
  <2> SUFFICES ASSUME NEW i \in 1 .. Len(iss), iss[i].type # "text" PROVE iss[i].ids[1] \in 1 .. n
    BY DEF Forces
  <2>1. Len(iss[i].ids) = 1 /\ 1 \in 1 .. 1
    BY <1>1 DEF AreOf
  <2> QED
    BY <1>1, <2>1 DEF AreOf
<1>6. Behind(iss, buf, F2)
  BY <1>1, <1>5 DEF Behind
<1> QED
  BY <1>1, <1>3, <1>4, <1>6 DEF Reply

\* The same steps for what is kept.
LEMMA KeptBuffers ==
    ASSUME NEW iss, NEW buf \in Seq(Nat), NEW D, Kept(iss, buf, D), NEW x \in Nat
    PROVE  Kept(iss, Append(buf, x), D \cup {x})
<1> DEFINE new == Append(buf, x)
<1>1. /\ Len(new) = Len(buf) + 1 /\ Len(buf) \in Nat
      /\ \A k \in 1 .. Len(buf) : new[k] = buf[k] /\ k \in 1 .. Len(new)
      /\ new[Len(buf) + 1] = x /\ Len(buf) + 1 \in 1 .. Len(new)
  BY AppendNat
<1> HIDE DEF new
<1>2. Kept(iss, new, D \cup {x})
  BY <1>1 DEF Kept
<1> QED
  BY <1>2 DEF new

LEMMA KeptMarks ==
    ASSUME NEW iss \in Seq(Chunk), NEW buf, NEW D, Kept(iss, buf, D), NEW x \in Chunk
    PROVE  Kept(Append(iss, x), buf, D)
<1> DEFINE new == Append(iss, x)
<1>1. /\ Len(new) = Len(iss) + 1 /\ Len(iss) \in Nat
      /\ \A k \in 1 .. Len(iss) : new[k] = iss[k] /\ k \in 1 .. Len(new)
  BY AppendChunk
<1> HIDE DEF new
<1>2. Kept(new, buf, D)
  BY <1>1 DEF Kept
<1> QED
  BY <1>2 DEF new

LEMMA KeptFlushes ==
    ASSUME NEW iss \in Seq(Chunk), NEW buf \in Seq(Nat), NEW D, Kept(iss, buf, D)
    PROVE  Kept(Append(iss, [type |-> "text", ids |-> buf]), <<>>, D)
<1> DEFINE x == [type |-> "text", ids |-> buf]
           new == Append(iss, x)
<1>0. x \in Chunk /\ x.type = "text" /\ x.ids = buf
  BY DEF Chunk
<1> HIDE DEF x
<1>1. /\ Len(new) = Len(iss) + 1 /\ Len(iss) \in Nat
      /\ \A k \in 1 .. Len(iss) : new[k] = iss[k] /\ k \in 1 .. Len(new)
      /\ new[Len(iss) + 1] = x /\ Len(iss) + 1 \in 1 .. Len(new)
  BY <1>0, AppendChunk
<1> HIDE DEF new
<1>2. Kept(new, <<>>, D)
  BY SMTT(30), <1>0, <1>1 DEF Kept
<1> QED
  BY <1>2 DEF new, x

-----------------------------------------------------------------------------
(***************************************************************************)
(* The reply, as the handlers, the timer and stop() make it                *)
(***************************************************************************)
Texts ==
    {e \in 1 .. Len(events) :
        events[e] \in IF mode = "inline" THEN Proxy!Kinds \ {"agent_end"} ELSE {"text"}}
Forcing == {e \in 1 .. Len(events) : events[e] \in Proxy!FlushFirst}
Handled == {e \in 1 .. Proxy!Done : events[e] = "text"}

ReplyInv ==
    /\ Proxy!ProxyType /\ Proxy!ChainIsRest
    /\ Reply(issued, buffer, Proxy!Seen, Texts, Forcing)
    /\ Kept(issued, buffer, Handled)

\* Where the first of the chain stands.
LEMMA FirstOfChain ==
    ASSUME Proxy!ProxyType, Proxy!ChainIsRest
    PROVE  /\ Proxy!Done \in Nat /\ Proxy!Done =< Len(events) /\ Proxy!Seen \in Nat
           /\ Len(events) \in Nat /\ Len(chain) \in Nat
           /\ chain # <<>> => /\ Head(chain) = Proxy!Done + 1
                             /\ Proxy!Done + 1 \in 1 .. Len(events)
                             /\ Len(chain) > 0
<1>1. /\ Len(events) \in Nat /\ Len(chain) \in Nat
      /\ chain # <<>> => Len(chain) > 0 /\ Head(chain) = chain[1]
  BY DEF Proxy!ProxyType
<1>2. Proxy!Done \in Nat /\ Proxy!Done =< Len(events)
  BY <1>1 DEF Proxy!Done, Proxy!ChainIsRest
<1>3. Proxy!Seen \in Nat
  BY <1>2 DEF Proxy!Seen
<1>4. ASSUME chain # <<>>
      PROVE  Head(chain) = Proxy!Done + 1 /\ Proxy!Done + 1 \in 1 .. Len(events)
  BY <1>1, <1>2, <1>4 DEF Proxy!Done, Proxy!ChainIsRest
<1> QED
  BY <1>1, <1>2, <1>3, <1>4

\* A handler ends: the rest of the chain is the events after its own.
LEMMA ChainMoves ==
    ASSUME Proxy!ProxyType, Proxy!ChainIsRest, chain # <<>>, Proxy!Finish, UNCHANGED events
    PROVE  /\ Proxy!ChainIsRest' /\ chain' \in Seq(Nat) /\ stage' = "begin"
           /\ Proxy!Done' = Proxy!Done + 1 /\ Proxy!Seen' = Proxy!Done + 1
<1>1. /\ Len(events) \in Nat /\ Len(chain) \in Nat /\ Len(chain) > 0
      /\ Proxy!Done \in Nat /\ Proxy!Done =< Len(events)
  BY FirstOfChain
<1>2. /\ chain' \in Seq(Nat) /\ Len(chain') = Len(chain) - 1
      /\ \A i \in 1 .. Len(chain) - 1 : chain'[i] = chain[i + 1]
      /\ stage' = "begin" /\ events' = events
  BY <1>1 DEF Proxy!Finish, Proxy!ProxyType
<1>3. Proxy!Done' = Proxy!Done + 1
  BY <1>1, <1>2 DEF Proxy!Done
<1>4. Proxy!Seen' = Proxy!Done + 1
  BY <1>2, <1>3 DEF Proxy!Seen
<1>5. \A i \in 1 .. Len(chain') : chain'[i] = Proxy!Done + 1 + i
  <2> SUFFICES ASSUME NEW i \in 1 .. Len(chain') PROVE chain'[i] = Proxy!Done + 1 + i
    OBVIOUS
  <2>1. i + 1 \in 1 .. Len(chain) /\ chain'[i] = chain[i + 1]
    BY <1>1, <1>2
  <2>2. chain[i + 1] = Proxy!Done + (i + 1)
    BY <2>1 DEF Proxy!ChainIsRest
  <2> QED
    BY <1>1, <1>2, <2>1, <2>2
<1>6. Len(chain') =< Len(events')
  BY <1>1, <1>2 DEF Proxy!ChainIsRest
<1>7. Proxy!ChainIsRest'
  BY <1>2, <1>3, <1>5, <1>6 DEF Proxy!ChainIsRest
<1> QED
  BY <1>2, <1>3, <1>4, <1>7

\* A handler goes on.
LEMMA ChainStays ==
    ASSUME Proxy!ProxyType, Proxy!ChainIsRest, UNCHANGED <<chain, events>>,
           stage' # "begin" => chain # <<>>,
           stage' = "dispatch" => buffer' = <<>> /\ events[Head(chain)] \in Proxy!FlushFirst,
           stage' = "finish" => events[Head(chain)] # "text"
    PROVE  /\ Proxy!ChainIsRest' /\ Proxy!Done' = Proxy!Done
           /\ Proxy!Seen' = IF stage' = "finish" THEN Proxy!Done + 1 ELSE Proxy!Done
<1>1. Proxy!Done' = Proxy!Done
  BY DEF Proxy!Done
<1> QED
  BY <1>1 DEF Proxy!ChainIsRest, Proxy!Seen, Proxy!FlushFirst

\* The text in the buffer is handed over: _forceFlushText().
LEMMA FlushOfReply ==
    ASSUME NEW await \in BOOLEAN, ReplyInv, Proxy!ForceFlushText(await)
    PROVE  /\ issued' \in Seq(Chunk) /\ buffer' = <<>>
           /\ Reply(issued', buffer', Proxy!Seen, Texts, Forcing)
           /\ Kept(issued', buffer', Handled)
<1>1. /\ issued' = Append(issued, [type |-> "text", ids |-> buffer]) /\ buffer' = <<>>
      /\ issued \in Seq(Chunk) /\ buffer \in Seq(Nat)
  BY DEF ReplyInv, Proxy!ProxyType, Proxy!ForceFlushText, Proxy!Hand, Chunk
<1>2. Reply(issued', buffer', Proxy!Seen, Texts, Forcing)
  BY <1>1, ReplyFlushes DEF ReplyInv
<1>3. Kept(issued', buffer', Handled)
  BY <1>1, KeptFlushes DEF ReplyInv
<1> QED
  BY <1>1, <1>2, <1>3 DEF Reply

\* A step that leaves the chain and the reply alone, or flushes the buffer.
LEMMA QuietStep ==
    ASSUME ReplyInv, UNCHANGED <<mode, events, chain, stage>>,
           \/ UNCHANGED <<buffer, issued>>
           \/ \E await \in BOOLEAN : Proxy!ForceFlushText(await)
    PROVE  ReplyInv'
<1>1. /\ issued' \in Seq(Chunk) /\ buffer' \in Seq(Nat)
      /\ buffer' = buffer \/ buffer' = <<>>
      /\ Reply(issued', buffer', Proxy!Seen, Texts, Forcing)
      /\ Kept(issued', buffer', Handled)
  <2>1. CASE UNCHANGED <<buffer, issued>>
    BY <2>1 DEF ReplyInv, Reply
  <2>2. CASE \E await \in BOOLEAN : Proxy!ForceFlushText(await)
    BY <2>2, FlushOfReply DEF Reply
  <2> QED
    BY <2>1, <2>2
<1>2. Proxy!Seen' = Proxy!Seen /\ Texts' = Texts /\ Forcing' = Forcing /\ Handled' = Handled
  BY DEF Proxy!Seen, Proxy!Done, Texts, Forcing, Handled
<1>3. Proxy!ProxyType'
  BY <1>1 DEF ReplyInv, Proxy!ProxyType, Chunk
<1>4. Proxy!ChainIsRest'
  BY <1>1 DEF ReplyInv, Proxy!ChainIsRest, Proxy!Done
<1> QED
  BY <1>1, <1>2, <1>3, <1>4 DEF ReplyInv

LEMMA ArriveStep ==
    ASSUME ReplyInv, NEW kind \in Proxy!Kinds, Proxy!Arrive(kind)
    PROVE  ReplyInv'
<1>1. /\ Proxy!ProxyType /\ Proxy!ChainIsRest
      /\ Proxy!Done \in Nat /\ Proxy!Done =< Len(events) /\ Proxy!Seen \in Nat
      /\ Len(events) \in Nat /\ Len(chain) \in Nat
      /\ chain # <<>> => Proxy!Done + 1 \in 1 .. Len(events)
  BY FirstOfChain DEF ReplyInv
<1>2. /\ events' = Append(events, kind) /\ chain' = Append(chain, Len(events) + 1)
      /\ UNCHANGED <<mode, stage, buffer, issued>>
  BY DEF Proxy!Arrive
<1>3. /\ events' \in Seq(Proxy!Kinds) /\ Len(events') = Len(events) + 1
      /\ \A e \in 1 .. Len(events) : events'[e] = events[e] /\ e \in 1 .. Len(events')
  BY <1>1, <1>2 DEF Proxy!ProxyType
<1>4. /\ chain' \in Seq(Nat) /\ Len(chain') = Len(chain) + 1 /\ chain' # <<>>
      /\ \A i \in 1 .. Len(chain) : chain'[i] = chain[i]
      /\ chain'[Len(chain) + 1] = Len(events) + 1
  <2>1. chain \in Seq(Nat) /\ Len(events) + 1 \in Nat
    BY <1>1 DEF Proxy!ProxyType
  <2>2. /\ chain' \in Seq(Nat) /\ Len(chain') = Len(chain) + 1
        /\ \A i \in 1 .. Len(chain) : chain'[i] = chain[i]
        /\ chain'[Len(chain) + 1] = Len(events) + 1
    BY <1>2, <2>1, AppendNat
  <2>3. Len(<<>>) = 0 /\ Len(chain') # 0
    BY <1>1, <2>2
  <2> QED
    BY <2>2, <2>3
<1>5. Proxy!Done' = Proxy!Done /\ Proxy!Seen' = Proxy!Seen
  BY <1>1, <1>2, <1>3, <1>4 DEF Proxy!Done, Proxy!Seen
<1>6. Proxy!ProxyType'
  BY <1>1, <1>2, <1>3, <1>4 DEF Proxy!ProxyType
<1>7. Proxy!ChainIsRest'
  <2>1. Len(chain') =< Len(events')
    BY <1>1, <1>3, <1>4 DEF Proxy!ChainIsRest
  <2>2. \A i \in 1 .. Len(chain') : chain'[i] = Proxy!Done + i
    <3>1. \A i \in 1 .. Len(chain') : i \in 1 .. Len(chain) \/ i = Len(chain) + 1
      BY <1>1, <1>4
    <3>2. Len(events) + 1 = Proxy!Done + (Len(chain) + 1)
      BY <1>1 DEF Proxy!Done
    <3> QED
      BY <1>1, <1>4, <3>1, <3>2 DEF Proxy!ChainIsRest
  <2>3. ASSUME stage # "begin"
        PROVE  chain # <<>> /\ Head(chain') = Head(chain) /\ events'[Head(chain)] = events[Head(chain)]
    <3>1. chain # <<>>
      BY <1>1, <2>3 DEF Proxy!ChainIsRest
    <3>2. Head(chain') = Head(chain)
      BY <1>2, <3>1 DEF Proxy!ProxyType
    <3>3. Head(chain) \in 1 .. Len(events)
      BY <1>1, <3>1, FirstOfChain
    <3> QED
      BY <1>3, <3>1, <3>2, <3>3
  <2>4. /\ stage' = "dispatch" => buffer' = <<>> /\ events'[Head(chain')] \in Proxy!FlushFirst
        /\ stage' = "finish" => events'[Head(chain')] # "text"
        /\ stage' # "begin" => chain' # <<>>
    BY <1>1, <1>2, <1>4, <2>3 DEF Proxy!ChainIsRest
  <2> QED
    BY <1>5, <2>1, <2>2, <2>4 DEF Proxy!ChainIsRest, Proxy!FlushFirst
<1>8. Reply(issued', buffer', Proxy!Seen', Texts', Forcing')
  <2>1. Texts \subseteq Texts'
    BY <1>2, <1>3 DEF Texts
  <2>2. Proxy!Seen =< Len(events)
    BY <1>1 DEF Proxy!Seen, Proxy!ChainIsRest
  <2>3. \A e \in 1 .. Proxy!Seen : e \in 1 .. Len(events)
    BY <1>1, <2>2
  <2>4. \A e \in 1 .. Proxy!Seen : e \in Forcing' => e \in Forcing
    BY <1>3, <2>3 DEF Forcing, Proxy!FlushFirst
  <2>5. Reply(issued, buffer, Proxy!Seen, Texts, Forcing) /\ Proxy!Seen =< Proxy!Seen
    BY <1>1 DEF ReplyInv
  <2> QED
    BY <1>1, <1>2, <1>5, <2>1, <2>4, <2>5, ReplyGrows
<1>9. Handled' = Handled
  <2>1. \A e \in 1 .. Proxy!Done : e \in 1 .. Len(events)
    BY <1>1
  <2> QED
    BY <1>3, <1>5, <2>1 DEF Handled
<1> QED
  BY <1>2, <1>6, <1>7, <1>8, <1>9 DEF ReplyInv

\* A handler ends, and what it did of the reply is whole.
LEMMA HandlerEnds ==
    ASSUME ReplyInv, chain # <<>>, Proxy!Finish, UNCHANGED <<mode, events>>,
           Reply(issued', buffer', Proxy!Done + 1, Texts, Forcing),
           Kept(issued', buffer', Handled)
             /\ (events[Proxy!Done + 1] = "text" =>
                   Kept(issued', buffer', Handled \cup {Proxy!Done + 1}))
    PROVE  ReplyInv'
<1>1. /\ Proxy!ProxyType /\ Proxy!ChainIsRest /\ Proxy!Done \in Nat
  BY FirstOfChain DEF ReplyInv
<1>2. /\ Proxy!ChainIsRest' /\ chain' \in Seq(Nat) /\ stage' = "begin"
      /\ Proxy!Done' = Proxy!Done + 1 /\ Proxy!Seen' = Proxy!Done + 1
  BY <1>1, ChainMoves
<1>3. Texts' = Texts /\ Forcing' = Forcing
  BY DEF Texts, Forcing
<1>4. Proxy!ProxyType'
  BY <1>1, <1>2 DEF Proxy!ProxyType, Reply, Chunk
<1>5. Kept(issued', buffer', Handled')
  <2>1. \A e \in 1 .. Proxy!Done + 1 : e \in 1 .. Proxy!Done \/ e = Proxy!Done + 1
    BY <1>1
  <2>2. \A e \in Handled' : e \in Handled \/ (e = Proxy!Done + 1 /\ events[Proxy!Done + 1] = "text")
    BY <1>2, <2>1 DEF Handled
  <2> QED
    BY <2>2 DEF Kept
<1> QED
  BY <1>1, <1>2, <1>3, <1>4, <1>5 DEF ReplyInv

LEMMA BufferTextStep ==
    ASSUME ReplyInv, Proxy!BufferText PROVE ReplyInv'
<1>1. /\ Proxy!ProxyType /\ Proxy!ChainIsRest /\ chain # <<>> /\ Proxy!Done \in Nat
      /\ Head(chain) = Proxy!Done + 1 /\ Proxy!Done + 1 \in 1 .. Len(events)
      /\ events[Proxy!Done + 1] = "text" /\ Proxy!Seen = Proxy!Done
      /\ Proxy!Finish /\ UNCHANGED <<mode, events>>
      /\ issued \in Seq(Chunk) /\ buffer \in Seq(Nat) /\ Proxy!Done + 1 \in Nat
  BY FirstOfChain DEF ReplyInv, Reply, Proxy!BufferText, Proxy!Handles, Proxy!Seen
<1>2. Proxy!Done + 1 \in Texts
  BY <1>1 DEF Texts, Proxy!Kinds
<1> DEFINE longer == Append(buffer, Proxy!Done + 1)
<1>3. Reply(issued, longer, Proxy!Done + 1, Texts, Forcing)
  BY <1>1, <1>2, ReplyBuffers DEF ReplyInv
<1>4. Kept(issued, longer, Handled \cup {Proxy!Done + 1})
  BY <1>1, KeptBuffers DEF ReplyInv
<1>5. \/ issued' = issued /\ buffer' = longer
      \/ issued' = Append(issued, [type |-> "text", ids |-> longer]) /\ buffer' = <<>>
  BY <1>1 DEF Proxy!BufferText, Proxy!Hand
<1>6. longer \in Seq(Nat)
  BY <1>1, AppendNat
<1> HIDE DEF longer
<1>7. /\ Reply(issued', buffer', Proxy!Done + 1, Texts, Forcing)
      /\ Kept(issued', buffer', Handled \cup {Proxy!Done + 1})
  BY <1>1, <1>3, <1>4, <1>5, <1>6, ReplyFlushes, KeptFlushes
<1>8. Kept(issued', buffer', Handled)
  BY <1>7 DEF Kept
<1> QED
  BY <1>1, <1>7, <1>8, HandlerEnds

LEMMA BeginWithFlushStep ==
    ASSUME ReplyInv, Proxy!BeginWithFlush PROVE ReplyInv'
<1>1. /\ Proxy!ProxyType /\ Proxy!ChainIsRest /\ chain # <<>> /\ Proxy!Done \in Nat
      /\ events[Head(chain)] \in Proxy!FlushFirst
      /\ Proxy!Seen = Proxy!Done /\ Proxy!ForceFlushText(TRUE)
      /\ stage' = "dispatch" /\ UNCHANGED <<mode, events, chain>>
  BY FirstOfChain DEF ReplyInv, Proxy!BeginWithFlush, Proxy!Handles, Proxy!Seen
<1>2. /\ issued' \in Seq(Chunk) /\ buffer' = <<>>
      /\ Reply(issued', buffer', Proxy!Seen, Texts, Forcing)
      /\ Kept(issued', buffer', Handled)
  BY <1>1, FlushOfReply
<1>3. Proxy!ChainIsRest' /\ Proxy!Done' = Proxy!Done /\ Proxy!Seen' = Proxy!Seen
  BY <1>1, <1>2, ChainStays
<1>4. Texts' = Texts /\ Forcing' = Forcing /\ Handled' = Handled
  BY <1>1, <1>3 DEF Texts, Forcing, Handled
<1>5. Proxy!ProxyType'
  BY <1>1, <1>2 DEF Proxy!ProxyType, Chunk
<1> QED
  BY <1>2, <1>3, <1>4, <1>5 DEF ReplyInv

LEMMA HandleStateStep ==
    ASSUME ReplyInv, Proxy!HandleState PROVE ReplyInv'
<1>1. /\ Proxy!ProxyType /\ Proxy!ChainIsRest /\ chain # <<>> /\ Proxy!Done \in Nat
      /\ Head(chain) = Proxy!Done + 1 /\ Proxy!Done + 1 \in 1 .. Len(events)
      /\ events[Proxy!Done + 1] \in Proxy!Kinds \ {"text", "agent_end"}
      /\ stage # "finish" /\ Proxy!Seen = Proxy!Done /\ Proxy!Ready
      /\ UNCHANGED <<mode, events>>
      /\ issued \in Seq(Chunk) /\ buffer \in Seq(Nat) /\ Proxy!Done + 1 \in Nat
  BY FirstOfChain DEF ReplyInv, Reply, Proxy!HandleState, Proxy!Handles, Proxy!Seen
<1>2. /\ Reply(issued, buffer, Proxy!Done, Texts, Forcing)
      /\ Kept(issued, buffer, Handled)
  BY <1>1 DEF ReplyInv
<1>3. Reply(issued, buffer, Proxy!Done + 1, Texts, Forcing)
  BY <1>1, <1>2, ReplyGrows
<1>4. CASE Proxy!Finish /\ UNCHANGED <<buffer, issued>>
  BY <1>1, <1>2, <1>3, <1>4, HandlerEnds
<1>5. CASE Proxy!DispatchState
  <2>1. /\ Reply(issued', buffer', Proxy!Done + 1, Texts, Forcing)
        /\ Kept(issued', buffer', Handled)
        /\ stage' = "finish" /\ chain' = chain
    <3>1. ASSUME NEW type \in {"task", "aux"},
                 issued' = Append(issued, [type |-> type, ids |-> <<Proxy!Done + 1>>]),
                 buffer' = buffer
          PROVE  /\ Reply(issued', buffer', Proxy!Done + 1, Texts, Forcing)
                 /\ Kept(issued', buffer', Handled)
      <4>1. Proxy!Done + 1 \in Forcing => buffer = <<>>
        BY <1>1 DEF Proxy!Ready, Proxy!ChainIsRest, Forcing
      <4>2. [type |-> type, ids |-> <<Proxy!Done + 1>>] \in Chunk
        BY <1>1 DEF Chunk
      <4> QED
        BY <1>1, <1>2, <3>1, <4>1, <4>2, ReplyMarks, KeptMarks
    <3>2. CASE mode = "rich"
      BY <1>1, <1>5, <3>1, <3>2 DEF Proxy!DispatchState, Proxy!Hand
    <3>3. CASE mode = "aux"
      BY <1>1, <1>5, <3>1, <3>3 DEF Proxy!DispatchState
    <3>4. CASE mode = "inline"
      <4>1. /\ buffer' = Append(buffer, Proxy!Done + 1) /\ issued' = issued
            /\ stage' = "finish" /\ chain' = chain
        BY <1>1, <1>5, <3>4 DEF Proxy!DispatchState
      <4>2. Proxy!Done + 1 \in Texts
        BY <1>1, <3>4 DEF Texts
      <4>3. Reply(issued', buffer', Proxy!Done + 1, Texts, Forcing)
        BY <1>2, <4>1, <4>2, ReplyBuffers
      <4>4. Kept(issued', buffer', Handled \cup {Proxy!Done + 1})
        BY <1>1, <1>2, <4>1, KeptBuffers
      <4> QED
        BY <4>1, <4>3, <4>4 DEF Kept
    <3> QED
      BY <1>1, <3>2, <3>3, <3>4 DEF Proxy!ProxyType
  <2>2. Proxy!ChainIsRest' /\ Proxy!Done' = Proxy!Done /\ Proxy!Seen' = Proxy!Done + 1
    BY <1>1, <2>1, ChainStays
  <2>3. Texts' = Texts /\ Forcing' = Forcing /\ Handled' = Handled
    BY <1>1, <2>2 DEF Texts, Forcing, Handled
  <2>4. Proxy!ProxyType'
    BY <1>1, <2>1 DEF Proxy!ProxyType, Reply, Chunk
  <2> QED
    BY <2>1, <2>2, <2>3, <2>4 DEF ReplyInv
<1> QED
  BY <1>4, <1>5 DEF Proxy!HandleState

LEMMA HandlerReturns ==
    ASSUME ReplyInv, Proxy!StateHandled \/ Proxy!HandleAgentEnd PROVE ReplyInv'
<1>1. /\ Proxy!ProxyType /\ Proxy!ChainIsRest /\ chain # <<>> /\ Proxy!Done \in Nat
      /\ Head(chain) = Proxy!Done + 1 /\ Proxy!Seen \in Nat
      /\ Proxy!Finish /\ UNCHANGED <<mode, events, buffer, issued>>
  BY FirstOfChain DEF ReplyInv, Proxy!StateHandled, Proxy!HandleAgentEnd, Proxy!Handles
<1>2. events[Proxy!Done + 1] # "text"
  BY <1>1 DEF Proxy!StateHandled, Proxy!HandleAgentEnd, Proxy!Handles, Proxy!ChainIsRest
<1>3. Proxy!Seen =< Proxy!Done + 1
  BY <1>1 DEF Proxy!Seen
<1>4. Proxy!Done + 1 \in Nat /\ Reply(issued, buffer, Proxy!Seen, Texts, Forcing)
  BY <1>1 DEF ReplyInv
<1>5. Reply(issued', buffer', Proxy!Done + 1, Texts, Forcing)
  BY <1>1, <1>3, <1>4, ReplyGrows
<1>6. Kept(issued', buffer', Handled)
  BY <1>1 DEF ReplyInv
<1> QED
  BY <1>1, <1>2, <1>5, <1>6, HandlerEnds

LEMMA InitReply == Proxy!Init => ReplyInv
<1> SUFFICES ASSUME Proxy!Init PROVE ReplyInv
  OBVIOUS
<1>1. /\ events = <<>> /\ chain = <<>> /\ buffer = <<>> /\ issued = <<>> /\ stage = "begin"
      /\ mode \in {"rich", "aux", "inline"}
  BY DEF Proxy!Init
<1>2. Len(<<>>) = 0 /\ 1 .. 0 = {}
  OBVIOUS
<1>3. Proxy!Done = 0 /\ Proxy!Seen = 0 /\ Handled = {}
  BY <1>1, <1>2 DEF Proxy!Done, Proxy!Seen, Handled
<1>4. Proxy!ProxyType /\ Proxy!ChainIsRest
  BY <1>1, <1>2, <1>3 DEF Proxy!ProxyType, Proxy!ChainIsRest
<1>5. issued \in Seq(Chunk) /\ buffer \in Seq(Nat) /\ Len(issued) = 0 /\ Len(buffer) = 0
  BY <1>1
<1>6. AreOf(issued, buffer, 0) /\ AllText(issued, buffer, Texts) /\ Behind(issued, buffer, Forcing)
  BY <1>2, <1>5 DEF AreOf, AllText, Behind
<1>7. Ordered(issued, buffer)
  BY <1>2, <1>5 DEF Ordered, Proxy!Ascending
<1> QED
  BY <1>3, <1>4, <1>5, <1>6, <1>7 DEF ReplyInv, Reply, Kept

LEMMA ProxyStep ==
    ASSUME ReplyInv, [ChildNext]_<<focus, vars, dockerVars, proxyVars, handleVars>>
    PROVE  ReplyInv'
<1> DEFINE Same == UNCHANGED <<mode, events, chain, stage>>
           SameText == UNCHANGED <<buffer, issued>>
           Flushes == \E await \in BOOLEAN : Proxy!ForceFlushText(await)
<1>1. CASE UNCHANGED proxyVars
  BY <1>1, QuietStep DEF proxyVars
<1>2. CASE Proxy!Start \/ Proxy!StreamOpened \/ Proxy!Stop \/ Proxy!Flushed \/ Proxy!StreamClosed
  <2>1. Same /\ SameText
    BY <1>2 DEF Proxy!Start, Proxy!StreamOpened, Proxy!Stop, Proxy!Flushed, Proxy!StreamClosed
  <2> QED
    BY <2>1, QuietStep
<1>3. CASE Proxy!FlushTimer
  <2>1. Same /\ (SameText \/ Flushes)
    BY <1>3 DEF Proxy!FlushTimer, Proxy!NoFlush
  <2> QED
    BY <2>1, QuietStep
<1>4. CASE Proxy!Drained
  <2>1. Same /\ (SameText \/ Flushes)
    BY <1>4 DEF Proxy!Drained, Proxy!NoFlush
  <2> QED
    BY <2>1, QuietStep
<1>5. ASSUME NEW n \in 1 .. Len(issued), Proxy!Return(n)
      PROVE  ReplyInv'
  BY <1>5, QuietStep DEF Proxy!Return
<1>6. ASSUME NEW kind \in Proxy!Kinds, Proxy!Arrive(kind)
      PROVE  ReplyInv'
  BY <1>6, ArriveStep
<1>7. CASE Proxy!Handle
  BY <1>7, BufferTextStep, BeginWithFlushStep, HandleStateStep, HandlerReturns DEF Proxy!Handle
<1> QED
  BY <1>1, <1>2, <1>3, <1>4, <1>5, <1>6, <1>7
     DEF ChildNext, Proxy!Next, Proxy!Close

\* The invariant says all that StreamingProxy's own does.
LEMMA ReplyInvIsStrong == ReplyInv => Proxy!ProxyInv
<1> SUFFICES ASSUME ReplyInv PROVE Proxy!ProxyInv
  OBVIOUS
<1>1. /\ Proxy!ProxyType /\ Proxy!ChainIsRest
      /\ Proxy!Done \in Nat /\ Proxy!Done =< Len(events) /\ Proxy!Seen \in Nat
      /\ Len(events) \in Nat /\ Len(chain) \in Nat
      /\ issued \in Seq(Chunk) /\ buffer \in Seq(Nat) /\ Len(issued) \in Nat
      /\ AreOf(issued, buffer, Proxy!Seen) /\ Ordered(issued, buffer)
      /\ AllText(issued, buffer, Texts) /\ Behind(issued, buffer, Forcing)
      /\ Kept(issued, buffer, Handled)
  BY FirstOfChain DEF ReplyInv, Reply
<1>2. Proxy!IdsAreSeen
  BY <1>1 DEF AreOf, Proxy!IdsAreSeen
<1>3. Proxy!Seen =< Len(events)
  <2>1. chain # <<>> => Proxy!Done + 1 \in 1 .. Len(events)
    BY <1>1, FirstOfChain
  <2> QED
    BY <1>1, <2>1 DEF Proxy!Seen, Proxy!ChainIsRest
<1>4. ASSUME NEW i \in 1 .. Len(issued), issued[i].type # "text",
             events[issued[i].ids[1]] \in Proxy!FlushFirst
      PROVE  Forces(issued[i], Forcing)
  <2>1. Len(issued[i].ids) = 1 /\ 1 \in 1 .. 1
    BY <1>1, <1>4 DEF AreOf
  <2>2. issued[i].ids[1] \in 1 .. Proxy!Seen
    BY <1>1, <2>1 DEF AreOf
  <2>3. \A e \in 1 .. Proxy!Seen : e \in 1 .. Len(events)
    BY <1>1, <1>3
  <2>4. issued[i].ids[1] \in Forcing
    BY <1>4, <2>2, <2>3 DEF Forcing, Proxy!FlushFirst
  <2> QED
    BY <1>4, <2>4 DEF Forces
<1>5. Proxy!BufferIsBehind
  BY <1>1, <1>4 DEF Behind, Proxy!BufferIsBehind, Proxy!FlushFirst
<1>6. Proxy!FlushedBefore
  BY <1>1, <1>4 DEF Behind, Proxy!FlushedBefore, Proxy!FlushFirst
<1>7. Proxy!InOrder
  BY <1>1 DEF Ordered, Proxy!InOrder, Proxy!TextChunks
<1>8. Proxy!NothingStrange
  BY <1>1 DEF AllText, Texts, Proxy!NothingStrange, Proxy!TextChunks, Proxy!Ids, Proxy!Kinds
<1>9. Proxy!NothingLost
  <2> SUFFICES ASSUME NEW e \in 1 .. Len(events), events[e] = "text", ~ Proxy!Contains(chain, e)
               PROVE  Proxy!Held(e)
    BY DEF Proxy!NothingLost, Proxy!Ids
  <2>1. e \in 1 .. Proxy!Done
    <3> SUFFICES ASSUME e > Proxy!Done PROVE FALSE
      BY <1>1
    <3>1. e - Proxy!Done \in 1 .. Len(chain) /\ Proxy!Done + (e - Proxy!Done) = e
      BY <1>1 DEF Proxy!Done
    <3>2. chain[e - Proxy!Done] = e
      BY <1>1, <3>1 DEF Proxy!ChainIsRest
    <3> QED
      BY <3>1, <3>2 DEF Proxy!Contains
  <2>2. e \in Handled
    BY <2>1 DEF Handled
  <2> QED
    BY <1>1, <2>2 DEF Kept, Proxy!Held, Proxy!TextChunks, Proxy!Contains
<1> QED
  BY <1>1, <1>2, <1>5, <1>6, <1>7, <1>8, <1>9
     DEF Proxy!ProxyInv, Proxy!ReplyIsWhole, Proxy!TextIsWhole

\* The reply is the text of the child, nothing lost, repeated or reordered, with
\* all the text before an event that forces a flush handed over before the event is.
THEOREM RepliesAreWhole == ChildSpec => []ReplyIsWhole
<1>1. ChildInit => ReplyInv
  BY InitReply DEF ChildInit
<1>2. ReplyInv => ReplyIsWhole
  BY ReplyInvIsStrong DEF Proxy!ProxyInv, ReplyIsWhole
<1> QED
  BY <1>1, <1>2, ProxyStep, PTL DEF ChildSpec

-----------------------------------------------------------------------------
(***************************************************************************)
(* What the message shows                                                  *)
(***************************************************************************)
HandleCall == [kind : {"edit", "append", "end"}, upto : Nat]

LEMMA InitHandle == Handle!Init => Handle!HandleInv
<1> SUFFICES ASSUME Handle!Init PROVE Handle!HandleInv
  OBVIOUS
<1>1. Handle!HandleType
  <2>1. calls \in Seq([kind : {"edit", "append", "end"}, upto : Nat])
    BY DEF Handle!Init
  <2>2. edit \in BOOLEAN /\ typing \in BOOLEAN /\ lastFailed \in BOOLEAN
    BY Zenon DEF Handle!Init
  <2>3. /\ handle \in {"discord", "native", "fallback"} /\ message = "none"
        /\ text = 0 /\ given = 0 /\ shown = 0
    BY DEF Handle!Init
  <2> QED
    BY <2>1, <2>2, <2>3 DEF Handle!HandleType
<1>2. Handle!Quiet
  BY DEF Handle!Init, Handle!Quiet
<1>3. Handle!EditCarriesAll
  BY DEF Handle!Init, Handle!EditCarriesAll
<1>4. Handle!PiecesAreCounted
  BY DEF Handle!Init, Handle!PiecesAreCounted
<1> QED
  BY <1>1, <1>2, <1>3, <1>4 DEF Handle!HandleInv

\* A call added at the end is the last one, and the others stay where they are.
LEMMA AddCall ==
    ASSUME NEW s \in Seq(HandleCall), NEW x \in HandleCall
    PROVE  /\ Append(s, x) \in Seq(HandleCall) /\ Append(s, x) # <<>>
           /\ Len(Append(s, x)) = Len(s) + 1
           /\ \A i \in 1 .. Len(s) : Append(s, x)[i] = s[i]
           /\ Append(s, x)[Len(s) + 1] = x
  OBVIOUS

\* The call that is settled is the first; the others move up.
LEMMA TakeCall ==
    ASSUME NEW s \in Seq(HandleCall), s # <<>>
    PROVE  /\ Tail(s) \in Seq(HandleCall) /\ Len(Tail(s)) = Len(s) - 1
           /\ \A i \in 1 .. Len(s) - 1 : Tail(s)[i] = s[i + 1]
           /\ Head(s) = s[1] /\ Head(s) \in HandleCall
           /\ Len(s) \in Nat \ {0}
           /\ Tail(s) = <<>> <=> Len(s) = 1
<1>1. Len(s) \in Nat \ {0} /\ Head(s) = s[1] /\ s[1] \in HandleCall
  OBVIOUS
<1>2. /\ Tail(s) \in Seq(HandleCall) /\ Len(Tail(s)) = Len(s) - 1
      /\ \A i \in 1 .. Len(s) - 1 : Tail(s)[i] = s[i + 1]
  BY <1>1
<1>3. \A t \in Seq(HandleCall) : t = <<>> <=> Len(t) = 0
  OBVIOUS
<1>4. Tail(s) = <<>> <=> Len(Tail(s)) = 0
  BY <1>2, <1>3
<1> QED
  BY <1>1, <1>2, <1>4

LEMMA HandleStep ==
    ASSUME Handle!HandleInv, [ChildNext]_<<focus, vars, dockerVars, proxyVars, handleVars>>
    PROVE  Handle!HandleInv'
<1>0. /\ Handle!HandleType /\ Handle!Quiet /\ Handle!EditCarriesAll /\ Handle!PiecesAreCounted
      /\ calls \in Seq(HandleCall)
  BY DEF Handle!HandleInv, Handle!HandleType, HandleCall
<1> USE DEF Handle!HandleInv
<1>1. CASE Handle!DiscordStart
  <2> USE <1>0, <1>1 DEF Handle!DiscordStart, Handle!Edit, Handle!HandleType, HandleCall
  <2>1. Handle!HandleType'
    OBVIOUS
  <2>2. Handle!Quiet'
    BY DEF Handle!Quiet
  <2>3. Handle!EditCarriesAll'
    BY DEF Handle!Quiet, Handle!EditCarriesAll
  <2>4. Handle!PiecesAreCounted'
    BY DEF Handle!Quiet, Handle!PiecesAreCounted
  <2> QED
    BY <2>1, <2>2, <2>3, <2>4
<1>2. CASE Handle!SlackStart
  <2> USE <1>0, <1>2 DEF Handle!SlackStart, Handle!Edit, Handle!HandleType, HandleCall
  <2>1. Handle!HandleType'
    OBVIOUS
  <2>2. Handle!Quiet'
    BY DEF Handle!Quiet
  <2>3. Handle!EditCarriesAll'
    BY DEF Handle!Quiet, Handle!EditCarriesAll
  <2>4. Handle!PiecesAreCounted'
    BY DEF Handle!Quiet, Handle!PiecesAreCounted
  <2> QED
    BY <2>1, <2>2, <2>3, <2>4
<1>3. CASE Handle!DiscordAppend
  <2> USE <1>0, <1>3 DEF Handle!DiscordAppend, Handle!Edit, Handle!HandleType, HandleCall
  <2>1. Handle!HandleType'
    OBVIOUS
  <2>2. Handle!Quiet'
    BY DEF Handle!Quiet
  <2>3. Handle!EditCarriesAll'
    BY DEF Handle!Quiet, Handle!EditCarriesAll
  <2>4. Handle!PiecesAreCounted'
    BY DEF Handle!Quiet, Handle!PiecesAreCounted
  <2> QED
    BY <2>1, <2>2, <2>3, <2>4
<1>4. CASE Handle!NativeAppend
  <2> USE <1>0, <1>4 DEF Handle!NativeAppend, Handle!Edit, Handle!HandleType, HandleCall
  <2>1. Handle!HandleType'
    BY AddCall
  <2>2. Handle!Quiet'
    BY AddCall DEF Handle!Quiet
  <2>3. Handle!EditCarriesAll'
    BY AddCall DEF Handle!Quiet, Handle!EditCarriesAll
  <2>4. Handle!PiecesAreCounted'
    <3>1. /\ [kind |-> "append", upto |-> 1] \in HandleCall
          /\ message = "open" /\ message' = "open" /\ given' = given + 1
          /\ calls' = Append(calls, [kind |-> "append", upto |-> 1])
          /\ UNCHANGED <<handle, shown, lastFailed>>
      OBVIOUS
    <3>2. /\ Len(calls') = Len(calls) + 1 /\ Len(calls) \in Nat
          /\ \A i \in 1 .. Len(calls) : calls'[i] = calls[i]
          /\ calls'[Len(calls) + 1] = [kind |-> "append", upto |-> 1]
      BY <3>1, AddCall
    <3> QED
      BY <3>1, <3>2 DEF Handle!PiecesAreCounted
  <2> QED
    BY <2>1, <2>2, <2>3, <2>4
<1>5. CASE Handle!FallbackAppend
  <2> USE <1>0, <1>5 DEF Handle!FallbackAppend, Handle!Edit, Handle!HandleType, HandleCall
  <2>1. Handle!HandleType'
    BY AddCall
  <2>2. Handle!Quiet'
    BY AddCall DEF Handle!Quiet
  <2>3. Handle!EditCarriesAll'
    BY AddCall DEF Handle!Quiet, Handle!EditCarriesAll
  <2>4. Handle!PiecesAreCounted'
    BY AddCall DEF Handle!Quiet, Handle!PiecesAreCounted
  <2> QED
    BY <2>1, <2>2, <2>3, <2>4
<1>6. CASE Handle!LateFallbackAppend
  <2> USE <1>0, <1>6 DEF Handle!LateFallbackAppend, Handle!Edit, Handle!HandleType, HandleCall
  <2>1. Handle!HandleType'
    BY AddCall
  <2>2. Handle!Quiet'
    BY AddCall DEF Handle!Quiet
  <2>3. Handle!EditCarriesAll'
    BY AddCall DEF Handle!Quiet, Handle!EditCarriesAll
  <2>4. Handle!PiecesAreCounted'
    BY AddCall DEF Handle!Quiet, Handle!PiecesAreCounted
  <2> QED
    BY <2>1, <2>2, <2>3, <2>4
<1>7. CASE Handle!Debounced
  <2> USE <1>0, <1>7 DEF Handle!Debounced, Handle!Edit, Handle!HandleType, HandleCall
  <2>1. Handle!HandleType'
    BY AddCall
  <2>2. Handle!Quiet'
    BY AddCall DEF Handle!Quiet
  <2>3. Handle!EditCarriesAll'
    BY AddCall DEF Handle!Quiet, Handle!EditCarriesAll
  <2>4. Handle!PiecesAreCounted'
    BY AddCall DEF Handle!Quiet, Handle!PiecesAreCounted
  <2> QED
    BY <2>1, <2>2, <2>3, <2>4
<1>8. CASE Handle!DiscordStop
  <2> USE <1>0, <1>8 DEF Handle!DiscordStop, Handle!Edit, Handle!HandleType, HandleCall
  <2>1. Handle!HandleType'
    BY AddCall
  <2>2. Handle!Quiet'
    BY AddCall DEF Handle!Quiet
  <2>3. Handle!EditCarriesAll'
    BY AddCall DEF Handle!Quiet, Handle!EditCarriesAll
  <2>4. Handle!PiecesAreCounted'
    BY AddCall DEF Handle!Quiet, Handle!PiecesAreCounted
  <2> QED
    BY <2>1, <2>2, <2>3, <2>4
<1>9. CASE Handle!NativeStop
  <2> USE <1>0, <1>9 DEF Handle!NativeStop, Handle!Edit, Handle!HandleType, HandleCall
  <2>1. Handle!HandleType'
    BY AddCall
  <2>2. Handle!Quiet'
    BY AddCall DEF Handle!Quiet
  <2>3. Handle!EditCarriesAll'
    BY AddCall DEF Handle!Quiet, Handle!EditCarriesAll
  <2>4. Handle!PiecesAreCounted'
    BY AddCall DEF Handle!Quiet, Handle!PiecesAreCounted
  <2> QED
    BY <2>1, <2>2, <2>3, <2>4
<1>10. CASE Handle!FallbackStop
  <2> USE <1>0, <1>10 DEF Handle!FallbackStop, Handle!Edit, Handle!HandleType, HandleCall
  <2>1. Handle!HandleType'
    BY AddCall
  <2>2. Handle!Quiet'
    BY AddCall DEF Handle!Quiet
  <2>3. Handle!EditCarriesAll'
    BY AddCall DEF Handle!Quiet, Handle!EditCarriesAll
  <2>4. Handle!PiecesAreCounted'
    BY AddCall DEF Handle!Quiet, Handle!PiecesAreCounted
  <2> QED
    BY <2>1, <2>2, <2>3, <2>4
<1>11. ASSUME NEW ok \in BOOLEAN, Handle!CallSettles(ok)
       PROVE  Handle!HandleInv'
  <2>0. /\ calls' \in Seq(HandleCall) /\ Len(calls') = Len(calls) - 1
        /\ \A i \in 1 .. Len(calls) - 1 : calls'[i] = calls[i + 1]
        /\ Head(calls) = calls[1] /\ calls[1] \in HandleCall
        /\ Len(calls) \in Nat \ {0}
        /\ calls' = <<>> <=> Len(calls) = 1
    BY <1>0, <1>11, TakeCall DEF Handle!CallSettles
  <2>5. /\ calls[1].kind \in {"edit", "append", "end"} /\ calls[1].upto \in Nat
        /\ UNCHANGED <<handle, text, given, edit, typing>>
        /\ message' = IF Len(calls) = 1 /\ message = "stopping" THEN "stopped" ELSE message
    BY <1>11, <2>0 DEF Handle!CallSettles, HandleCall
  <2>6. CASE calls[1].kind = "append"
    <3>1. /\ shown' = IF ok THEN shown + calls[1].upto ELSE shown
          /\ lastFailed' = (lastFailed \/ ~ok)
      BY <1>11, <2>0, <2>6 DEF Handle!CallSettles
    <3> USE <1>0, <2>0, <2>5, <2>6, <3>1
    <3>2. Handle!HandleType'
      BY DEF Handle!HandleType, HandleCall
    <3>3. Handle!Quiet'
      BY DEF Handle!Quiet, Handle!HandleType
    <3>4. Handle!EditCarriesAll'
      BY DEF Handle!EditCarriesAll, Handle!HandleType
    <3>5. Handle!PiecesAreCounted'
      <4> SUFFICES ASSUME handle = "native" PROVE Handle!PiecesAreCounted'
        BY DEF Handle!PiecesAreCounted
      <4>1. /\ message = "stopping" => Len(calls) > 1
            /\ message # "stopped" /\ message' = message
            /\ calls[1].upto = 1
        BY DEF Handle!PiecesAreCounted
      <4> DEFINE pieces == IF message = "stopping" THEN Len(calls) - 1 ELSE Len(calls)
      <4>2. /\ \A i \in 1 .. pieces : calls[i].kind = "append" /\ calls[i].upto = 1
            /\ message = "stopping" => calls[Len(calls)].kind = "end"
            /\ lastFailed \/ given = shown + pieces
        BY DEF Handle!PiecesAreCounted
      <4>3. pieces \in Nat /\ pieces >= 1
            /\ pieces - 1 = IF message' = "stopping" THEN Len(calls') - 1 ELSE Len(calls')
        BY <4>1
      <4>4. \A i \in 1 .. pieces - 1 : calls'[i].kind = "append" /\ calls'[i].upto = 1
        BY <4>2, <4>3
      <4>5. message' = "stopping" => calls'[Len(calls')].kind = "end"
        <5> SUFFICES ASSUME message = "stopping" PROVE calls'[Len(calls')] = calls[Len(calls)]
          BY <4>1, <4>2
        <5> QED
          BY <4>1
      <4>6. lastFailed' \/ given' = shown' + (pieces - 1)
        <5> HIDE DEF pieces
        <5>1. CASE lastFailed \/ ~ok
          BY <5>1
        <5>2. CASE ~lastFailed /\ ok
          BY <4>1, <4>2, <4>3, <5>2 DEF Handle!HandleType
        <5> QED
          BY <5>1, <5>2
      <4> HIDE DEF pieces
      <4> QED
        BY <4>1, <4>3, <4>4, <4>5, <4>6 DEF Handle!PiecesAreCounted
    <3> QED
      BY <3>2, <3>3, <3>4, <3>5
  <2>7. CASE calls[1].kind = "edit"
    <3>1. /\ shown' = IF ok THEN calls[1].upto ELSE shown
          /\ lastFailed' = ~ok
      BY <1>11, <2>0, <2>7 DEF Handle!CallSettles
    <3> USE <1>0, <2>0, <2>5, <2>7, <3>1
    <3>2. Handle!HandleType'
      BY DEF Handle!HandleType, HandleCall
    <3>3. Handle!Quiet'
      BY DEF Handle!Quiet, Handle!HandleType
    <3>4. Handle!EditCarriesAll'
      <4> SUFFICES ASSUME handle # "native" PROVE Handle!EditCarriesAll'
        BY DEF Handle!EditCarriesAll
      <4>1. text' = given' /\ \A i \in 1 .. Len(calls') : calls'[i].kind = "edit"
        BY DEF Handle!EditCarriesAll
      <4>2. CASE Len(calls) = 1
        BY <4>1, <4>2 DEF Handle!Quiet, Handle!EditCarriesAll, Handle!HandleType
      <4>3. CASE Len(calls) # 1
        <5>1. Len(calls') \in 1 .. Len(calls) - 1 /\ calls'[Len(calls')] = calls[Len(calls)]
          BY <4>3
        <5> QED
          BY <4>1, <4>3, <5>1 DEF Handle!EditCarriesAll, Handle!HandleType
      <4> QED
        BY <4>2, <4>3
    <3>5. Handle!PiecesAreCounted'
      BY DEF Handle!PiecesAreCounted, Handle!HandleType
    <3> QED
      BY <3>2, <3>3, <3>4, <3>5
  <2>8. CASE calls[1].kind = "end"
    <3>1. shown' = shown /\ lastFailed' = lastFailed
      BY <1>11, <2>0, <2>8 DEF Handle!CallSettles
    <3> USE <1>0, <2>0, <2>5, <2>8, <3>1
    <3>2. Handle!HandleType'
      BY DEF Handle!HandleType, HandleCall
    <3>3. Handle!Quiet'
      BY DEF Handle!Quiet, Handle!HandleType
    <3>4. Handle!EditCarriesAll'
      BY DEF Handle!EditCarriesAll, Handle!HandleType
    <3>5. Handle!PiecesAreCounted'
      BY DEF Handle!Quiet, Handle!PiecesAreCounted, Handle!HandleType
    <3> QED
      BY <3>2, <3>3, <3>4, <3>5
  <2> QED
    BY <2>5, <2>6, <2>7, <2>8
<1>12. CASE UNCHANGED handleVars
  BY <1>0, <1>12 DEF handleVars, Handle!HandleType, Handle!Quiet, Handle!EditCarriesAll,
     Handle!PiecesAreCounted
<1> QED
  BY <1>1, <1>2, <1>3, <1>4, <1>5, <1>6, <1>7, <1>8, <1>9, <1>10, <1>11, <1>12
     DEF ChildNext, Handle!Next

\* A reply that was stopped shows all its text, on Slack and on Discord, unless
\* the platform refused the end of it.
THEOREM StoppedRepliesAreShown == ChildSpec => []ShownIsWhole
<1>1. ChildInit => Handle!HandleInv
  BY InitHandle DEF ChildInit
<1>2. Handle!HandleInv => ShownIsWhole
  BY DEF Handle!HandleInv, Handle!HandleType, Handle!Quiet, Handle!EditCarriesAll,
         Handle!PiecesAreCounted, ShownIsWhole, Handle!ShownIsWhole
<1> QED
  BY <1>1, <1>2, HandleStep, PTL DEF ChildSpec
=============================================================================
