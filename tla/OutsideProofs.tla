--------------------------- MODULE OutsideProofs ---------------------------
(***************************************************************************)
(* Theorems about the parts of MCOutside, for every value of the constants *)
(* and over its specification: a step of another part leaves the variables *)
(* of this one alone.                                                      *)
(***************************************************************************)
EXTENDS MCOutside, Sequences, FiniteSetTheorems, TLAPS

\* The specification the run checks is one of the identity router's, whose
\* theorems hold of it (IdentityRouterProofs): the steps of others are stutters.
THEOREM OutsideIsTheRouter == OutsideSpec => Spec
<1>1. OutsideInit => Init
  BY DEF OutsideInit
<1>2. [OutsideNext]_outsideVars => [Next]_vars
  BY DEF OutsideNext, outsideVars
<1> QED
  BY <1>1, <1>2, PTL DEF OutsideSpec, Spec

LEMMA Numbers ==
    /\ Ttl \in Nat /\ Ttl > 0
    /\ MaxClock \in Nat
    /\ MaxVersion \in Nat
    /\ MaxJobs \in Nat
  BY BoundsAssumption

-----------------------------------------------------------------------------
(* The credential broker *)

Entry == [value : 0..MaxVersion, at : Nat]

\* What an entry holds was the secret at the instant it counts from.
GoodEntry(e) == e = None \/ (e \in Entry /\ e.at <= clock /\ e.at <= retired[e.value])

BrokerType ==
    /\ clock \in 0..MaxClock
    /\ secret \in 0..MaxVersion
    /\ retired \in [0..MaxVersion -> Nat]
    /\ use \in [Uses -> [pc : Broker!Steps, began : 0..MaxClock,
                         entry : Entry \cup {None}, token : (0..MaxVersion) \cup {None}]]

\* What a use holds at each step.
GoodUse(u) ==
    /\ use[u].began <= clock
    /\ use[u].pc \in {"asked", "answered"} => GoodEntry(use[u].entry)
    /\ use[u].pc \in {"answered", "signed"} => use[u].token \in 0..MaxVersion
    /\ use[u].pc = "answered" => use[u].began <= retired[use[u].token]
    /\ use[u].pc = "signed" => use[u].began < retired[use[u].token] + 2 * Ttl

BrokerInv ==
    /\ BrokerType
    /\ \A v \in 0..MaxVersion : v >= secret => retired[v] = Broker!Later
    /\ GoodEntry(kept)
    /\ \A u \in Uses : GoodUse(u)

LEMMA BrokerInit == Broker!Init => BrokerInv
  BY Numbers DEF Broker!Init, BrokerInv, BrokerType, GoodEntry, GoodUse, Entry, Broker!Later,
                 Broker!Versions, Broker!NewUse, Broker!Steps

\* A step of one use that leaves the others, the clock and the server alone.
LEMMA OneUse ==
  ASSUME BrokerInv, NEW u \in Uses, NEW new,
         use' = [use EXCEPT ![u] = new],
         new \in [pc : Broker!Steps, began : 0..MaxClock,
                  entry : Entry \cup {None}, token : (0..MaxVersion) \cup {None}],
         GoodUse(u)', GoodEntry(kept)', UNCHANGED <<clock, secret, retired>>
  PROVE  BrokerInv'
<1>1. BrokerType'
  BY DEF BrokerInv, BrokerType
<1>2. ASSUME NEW w \in Uses, w # u PROVE GoodUse(w)'
  BY <1>2 DEF BrokerInv, BrokerType, GoodUse, GoodEntry
<1> QED
  BY <1>1, <1>2 DEF BrokerInv, Broker!Later

LEMMA BrokerUseStep ==
  ASSUME BrokerInv, NEW u \in Uses,
         \/ Broker!Refuse(u) \/ Broker!FreshHit(u) \/ Broker!Ask(u) \/ Broker!ServerAnswers(u)
         \/ Broker!Arrive(u) \/ Broker!Degrade(u) \/ Broker!Forward(u) \/ Broker!UseAgain(u)
  PROVE  BrokerInv'
<1> DEFINE Record == [pc : Broker!Steps, began : 0..MaxClock,
                      entry : Entry \cup {None}, token : (0..MaxVersion) \cup {None}]
           Rest == UNCHANGED <<clock, secret, retired>>
<1> USE Numbers
<1>t. /\ use \in [Uses -> Record] /\ clock \in 0..MaxClock /\ secret \in 0..MaxVersion
      /\ retired \in [0..MaxVersion -> Nat] /\ GoodEntry(kept) /\ GoodUse(u)
  BY DEF BrokerInv, BrokerType
<1>n. \A end \in Broker!Steps : Broker!Over(end) \in Record
  BY DEF Broker!Over, Broker!NewUse
<1>1. ASSUME NEW end \in {"idle", "refused", "returned", "unavailable"},
             use' = [use EXCEPT ![u] = Broker!Over(end)], Rest, UNCHANGED kept
      PROVE  BrokerInv'
  <2>1. GoodUse(u)'
    BY <1>1, <1>t DEF GoodUse, Broker!Over, Broker!NewUse
  <2>2. GoodEntry(kept)'
    BY <1>1, <1>t DEF GoodEntry
  <2> QED
    BY <1>1, <1>n, <2>1, <2>2, OneUse DEF Broker!Steps
<1>2. CASE Broker!Refuse(u)
  BY <1>2, <1>1 DEF Broker!Refuse, Broker!server
<1>3. CASE Broker!FreshHit(u)
  <2> DEFINE new == [pc |-> "signed", began |-> clock, entry |-> None, token |-> kept.value]
  <2>1. use' = [use EXCEPT ![u] = new] /\ Rest /\ UNCHANGED kept /\ kept \in Entry
        /\ clock < kept.at + Ttl /\ kept.at <= retired[kept.value]
    BY <1>3, <1>t DEF Broker!FreshHit, Broker!server, Broker!Younger, GoodEntry
  <2>2. new \in Record
    BY <2>1, <1>t DEF Broker!Steps, Entry
  <2>3. GoodUse(u)'
    BY <2>1, <1>t DEF GoodUse, Entry
  <2>4. GoodEntry(kept)'
    BY <2>1, <1>t DEF GoodEntry
  <2> QED
    BY <2>1, <2>2, <2>3, <2>4, OneUse
<1>4. CASE Broker!Ask(u)
  <2> DEFINE new == [pc |-> "asked", began |-> clock, entry |-> kept, token |-> None]
  <2>1. use' = [use EXCEPT ![u] = new] /\ Rest /\ UNCHANGED kept
    BY <1>4 DEF Broker!Ask, Broker!server
  <2>2. new \in Record
    BY <1>t DEF Broker!Steps, GoodEntry
  <2>3. GoodEntry(kept)'
    BY <2>1, <1>t DEF GoodEntry
  <2>4. GoodUse(u)'
    BY <2>1, <1>t DEF GoodUse, GoodEntry
  <2> QED
    BY <2>1, <2>2, <2>3, <2>4, OneUse
<1>5. CASE Broker!ServerAnswers(u)
  <2> DEFINE new == [use[u] EXCEPT !.pc = "answered", !.token = secret]
  <2>1. use' = [use EXCEPT ![u] = new] /\ Rest /\ UNCHANGED kept /\ use[u].pc = "asked"
    BY <1>5 DEF Broker!ServerAnswers, Broker!server
  <2>2. new \in Record
    BY <1>t DEF Broker!Steps
  <2>3. GoodEntry(kept)'
    BY <2>1, <1>t DEF GoodEntry
  <2>4. retired[secret] = Broker!Later
    BY <1>t DEF BrokerInv
  <2>5. use[u].began <= retired[secret]
    BY <1>t, <2>4 DEF Broker!Later
  <2>6. GoodUse(u)'
    BY <2>1, <2>5, <1>t DEF GoodUse, GoodEntry
  <2> QED
    BY <2>1, <2>2, <2>3, <2>6, OneUse
<1>6. CASE Broker!Arrive(u)
  <2> DEFINE new == [use[u] EXCEPT !.pc = "signed", !.entry = None]
  <2>1. use' = [use EXCEPT ![u] = new] /\ Rest /\ use[u].pc = "answered"
        /\ kept' = [value |-> use[u].token, at |-> use[u].began]
    BY <1>6 DEF Broker!Arrive, Broker!server, Broker!KeptFrom
  <2>2. new \in Record
    BY <1>t DEF Broker!Steps
  <2>3. GoodEntry(kept)'
    BY <2>1, <1>t DEF GoodEntry, GoodUse, Entry
  <2>4. GoodUse(u)'
    BY <2>1, <1>t DEF GoodUse
  <2> QED
    BY <2>1, <2>2, <2>3, <2>4, OneUse
<1>7. CASE Broker!Degrade(u)
  <2> DEFINE e == use[u].entry
             new == [use[u] EXCEPT !.pc = "signed", !.entry = None, !.token = e.value]
  <2>1. CASE e # None /\ use[u].began < e.at + 2 * Ttl
    <3>1. use' = [use EXCEPT ![u] = new] /\ Rest /\ UNCHANGED kept /\ GoodEntry(e)
      BY <1>7, <1>t, <2>1 DEF Broker!Degrade, Broker!server, GoodUse
    <3>2. e \in Entry /\ e.at <= retired[e.value]
      BY <3>1, <2>1 DEF GoodEntry
    <3>3. new \in Record
      <4>1. e.value \in 0..MaxVersion
        BY <3>2 DEF Entry
      <4> DEFINE old == use[u]
                 v == e.value
      <4>2. old \in Record /\ v \in 0..MaxVersion /\ "signed" \in Broker!Steps
        BY <1>t, <4>1 DEF Broker!Steps
      <4>3. new = [[old EXCEPT !.pc = "signed", !.entry = None] EXCEPT !.token = v]
        OBVIOUS
      <4> HIDE DEF old, v
      <4>4. [old EXCEPT !.pc = "signed", !.entry = None] \in Record
        BY <4>2
      <4> HIDE DEF new
      <4> QED
        BY <4>2, <4>3, <4>4
    <3>4. GoodEntry(kept)'
      BY <3>1, <1>t DEF GoodEntry
    <3>5. GoodUse(u)'
      BY <3>1, <3>2, <2>1, <1>t DEF GoodUse, Entry
    <3> QED
      BY <3>1, <3>3, <3>4, <3>5, OneUse
  <2>2. CASE ~(e # None /\ use[u].began < e.at + 2 * Ttl)
    <3>1. use' = [use EXCEPT ![u] = Broker!Over("unavailable")] /\ Rest /\ UNCHANGED kept
      BY <1>7, <1>t, <2>2 DEF Broker!Degrade, Broker!server
    <3> QED
      BY <3>1, <1>1
  <2> QED
    BY <2>1, <2>2
<1>8. CASE Broker!Forward(u)
  BY <1>8, <1>1 DEF Broker!Forward, Broker!server
<1>9. CASE Broker!UseAgain(u)
  <2>1. Broker!NewUse = Broker!Over("idle")
    BY DEF Broker!Over, Broker!NewUse
  <2> QED
    BY <1>9, <2>1, <1>1 DEF Broker!UseAgain, Broker!server
<1> QED
  BY <1>2, <1>3, <1>4, <1>5, <1>6, <1>7, <1>8, <1>9

LEMMA BrokerStep == BrokerInv /\ [Broker!Next]_credVars => BrokerInv'
<1> SUFFICES ASSUME BrokerInv, [Broker!Next]_credVars PROVE BrokerInv'
  OBVIOUS
<1> USE Numbers
<1>1. ASSUME NEW u \in Uses,
             \/ Broker!Refuse(u) \/ Broker!FreshHit(u) \/ Broker!Ask(u) \/ Broker!ServerAnswers(u)
             \/ Broker!Arrive(u) \/ Broker!Degrade(u) \/ Broker!Forward(u) \/ Broker!UseAgain(u)
      PROVE  BrokerInv'
  BY <1>1, BrokerUseStep
<1>2. CASE Broker!Clear
  BY <1>2 DEF Broker!Clear, Broker!server, BrokerInv, BrokerType, GoodEntry, GoodUse, Broker!Later
<1>3. CASE Broker!Rotate
  <2>1. /\ secret < MaxVersion /\ secret' = secret + 1
        /\ retired' = [retired EXCEPT ![secret] = clock] /\ UNCHANGED <<clock, kept, use>>
    BY <1>3 DEF Broker!Rotate
  <2>2. BrokerType'
    BY <2>1 DEF BrokerInv, BrokerType
  <2>3. \A v \in 0..MaxVersion : v >= secret' => retired'[v] = Broker!Later'
    BY <2>1 DEF BrokerInv, BrokerType, Broker!Later
  <2>4. ASSUME NEW e, GoodEntry(e) PROVE GoodEntry(e)'
    BY <2>1, <2>4 DEF GoodEntry, Entry, BrokerInv, BrokerType
  <2>5. ASSUME NEW u \in Uses PROVE GoodUse(u)'
    <3>1. GoodUse(u) /\ use[u].began \in 0..MaxClock
      BY DEF BrokerInv, BrokerType
    <3>2. use[u].pc \in {"asked", "answered"} => GoodEntry(use[u].entry)'
      BY <3>1, <2>1, <2>4 DEF GoodUse
    <3>3. use[u].pc \in {"answered", "signed"}
             => retired'[use[u].token] \in {retired[use[u].token], clock}
      BY <3>1, <2>1 DEF GoodUse, BrokerInv, BrokerType
    <3> QED
      BY <3>1, <3>2, <3>3, <2>1 DEF GoodUse, BrokerInv, BrokerType
  <2> QED
    BY <2>1, <2>2, <2>3, <2>4, <2>5 DEF BrokerInv
<1>4. CASE Broker!Tick
  BY <1>4 DEF Broker!Tick, Broker!server, BrokerInv, BrokerType, GoodEntry, GoodUse, Entry, Broker!Later
<1>5. CASE UNCHANGED credVars
  BY <1>5 DEF credVars, BrokerInv, BrokerType, GoodEntry, GoodUse, Broker!Later
<1> QED
  BY <1>1, <1>2, <1>3, <1>4, <1>5 DEF Broker!Next

\* A use that begins two lifetimes or more after a version of the secret was
\* replaced does not sign with it, for any number of uses and any lifetime.
THEOREM RetiredTokensAreDropped == OutsideSpec => []RetiredTokenUnused
<1>1. OutsideInit => BrokerInv
  BY BrokerInit DEF OutsideInit
<1>2. [OutsideNext]_outsideVars => [Broker!Next]_credVars
  BY DEF OutsideNext, outsideVars
<1>3. BrokerInv => RetiredTokenUnused
  BY DEF BrokerInv, GoodUse, RetiredTokenUnused, Broker!RetiredTokenUnused
<1> QED
  BY <1>1, <1>2, <1>3, BrokerStep, PTL DEF OutsideSpec
-----------------------------------------------------------------------------
(* The scheduler *)

Row == [there : BOOLEAN, job : Nat, enabled : BOOLEAN]

SchedulerType ==
    /\ job \in Nat /\ made \in Nat
    /\ task \in [Tasks -> Row]
    /\ creating \in [Tasks -> [pc : {"idle", "every", "link", "done"}, job : Nat]]
    /\ removing \in [Tasks -> [pc : {"idle", "cancel", "delete", "done"}, job : Nat]]
    /\ run \in [Runs -> [pc : {"idle", "fired", "dispatch"}, job : Nat, row : Tasks \cup {None}]]
    /\ gone \in [Runs -> SUBSET Tasks]

\* A row is inserted once, before it can be removed, and a removal that has
\* returned leaves none: so what a run of the job finds is not removed.
QuietTask(t) ==
    /\ creating[t].pc = "idle" => removing[t].pc = "idle" /\ ~task[t].there
    /\ removing[t].pc = "done" => ~task[t].there

QuietRun(r) ==
    /\ \A t \in gone[r] : removing[t].pc = "done"
    /\ run[r].pc = "dispatch" => run[r].row \notin gone[r]

SchedulerInv ==
    /\ SchedulerType
    /\ \A t \in Tasks : QuietTask(t)
    /\ \A r \in Runs : QuietRun(r)

LEMMA SchedulerInit == Schedule!Init => SchedulerInv
  BY DEF Schedule!Init, SchedulerInv, SchedulerType, Row, QuietTask, QuietRun, Schedule!NoJob,
         Schedule!NoRow, Schedule!IdleRun

LEMMA RowsAreTyped ==
  ASSUME NEW rows \in [Tasks -> Row], NEW t \in Tasks
  PROVE  /\ [rows EXCEPT ![t].there = TRUE] \in [Tasks -> Row]
         /\ [rows EXCEPT ![t].enabled = ~@] \in [Tasks -> Row]
         /\ \A j \in Nat : [rows EXCEPT ![t].job = j] \in [Tasks -> Row]
         /\ [rows EXCEPT ![t] = Schedule!NoRow] \in [Tasks -> Row]
<1>1. [rows EXCEPT ![t].there = TRUE] \in [Tasks -> Row]
  BY DEF Row
<1>2. [rows EXCEPT ![t].enabled = ~@] \in [Tasks -> Row]
  BY DEF Row
<1>3. \A j \in Nat : [rows EXCEPT ![t].job = j] \in [Tasks -> Row]
  BY DEF Row
<1>4. [rows EXCEPT ![t] = Schedule!NoRow] \in [Tasks -> Row]
  BY DEF Row, Schedule!NoRow, Schedule!NoJob
<1> QED
  BY <1>1, <1>2, <1>3, <1>4

\* A step of a creation or a removal of one task.
LEMMA TaskStep ==
  ASSUME SchedulerInv, NEW t \in Tasks,
         \/ Schedule!CreateStub(t) \/ Schedule!Every(t) \/ Schedule!EveryFails(t)
         \/ Schedule!Link(t) \/ Schedule!CreateDies(t) \/ Schedule!SetEnabled(t)
         \/ Schedule!RemoveFinds(t) \/ Schedule!Cancel(t) \/ Schedule!Delete(t)
  PROVE  SchedulerInv'
<1> DEFINE Creation == [pc : {"idle", "every", "link", "done"}, job : Nat]
<1> USE DEF Schedule!NoJob, Schedule!NoRow, Schedule!ops
<1>t. SchedulerType /\ QuietTask(t)
  BY DEF SchedulerInv
<1>1. ASSUME SchedulerType', QuietTask(t)', UNCHANGED <<run, gone>>,
             \A s \in Tasks \ {t} : UNCHANGED <<task[s], creating[s], removing[s]>>,
             removing[t].pc = "done" => removing'[t].pc = "done"
      PROVE  SchedulerInv'
  <2>1. ASSUME NEW s \in Tasks PROVE QuietTask(s)'
    BY <1>1 DEF SchedulerInv, QuietTask
  <2>2. \A s \in Tasks : removing[s].pc = "done" => removing'[s].pc = "done"
    BY <1>1
  <2>3. ASSUME NEW r \in Runs PROVE QuietRun(r)'
    <3>1. gone[r] \subseteq Tasks /\ QuietRun(r)
      BY DEF SchedulerInv, SchedulerType
    <3> QED
      BY <1>1, <2>2, <3>1 DEF QuietRun
  <2> QED
    BY <1>1, <2>1, <2>3 DEF SchedulerInv
<1>2. CASE Schedule!CreateStub(t)
  <2>1. SchedulerType'
    <3>1. task' \in [Tasks -> Row]
      <4>1. task \in [Tasks -> Row]
        BY <1>t DEF SchedulerType
      <4>2. task' = [task EXCEPT ![t].there = TRUE]
        BY <1>2 DEF Schedule!CreateStub
      <4> QED
        BY <4>1, <4>2, RowsAreTyped
    <3>2. creating' \in [Tasks -> Creation]
      BY <1>t, <1>2 DEF Schedule!CreateStub, SchedulerType
    <3> QED
      BY <1>t, <1>2, <3>1, <3>2 DEF Schedule!CreateStub, SchedulerType
  <2>2. QuietTask(t)'
    BY <1>t, <1>2 DEF Schedule!CreateStub, SchedulerType, QuietTask
  <2>3. \A s \in Tasks \ {t} : UNCHANGED <<task[s], creating[s], removing[s]>>
    BY <1>t, <1>2 DEF Schedule!CreateStub, SchedulerType
  <2> QED
    BY <1>1, <1>2, <2>1, <2>2, <2>3 DEF Schedule!CreateStub
<1>3. CASE Schedule!Every(t)
  BY <1>t, <1>1, <1>3 DEF Schedule!Every, SchedulerType, QuietTask
<1>4. CASE Schedule!EveryFails(t)
  <2>1. SchedulerType'
    <3>1. task' \in [Tasks -> Row]
      <4>1. task \in [Tasks -> Row]
        BY <1>t DEF SchedulerType
      <4>2. task' = task \/ task' = [task EXCEPT ![t] = Schedule!NoRow]
        BY <1>4 DEF Schedule!EveryFails
      <4>3. [task EXCEPT ![t] = Schedule!NoRow] \in [Tasks -> Row]
        BY <4>1, RowsAreTyped
      <4> QED
        BY <4>1, <4>2, <4>3
    <3>2. creating' \in [Tasks -> Creation]
      BY <1>t, <1>4 DEF Schedule!EveryFails, SchedulerType
    <3> QED
      BY <1>t, <1>4, <3>1, <3>2 DEF Schedule!EveryFails, SchedulerType
  <2>2. QuietTask(t)'
    BY <1>t, <1>4 DEF Schedule!EveryFails, SchedulerType, QuietTask
  <2>3. \A s \in Tasks \ {t} : UNCHANGED <<task[s], creating[s], removing[s]>>
    BY <1>t, <1>4 DEF Schedule!EveryFails, SchedulerType
  <2> QED
    BY <1>1, <1>4, <2>1, <2>2, <2>3 DEF Schedule!EveryFails
<1>5. CASE Schedule!Link(t)
  <2>1. SchedulerType'
    <3>1. task' \in [Tasks -> Row]
      <4>1. task \in [Tasks -> Row]
        BY <1>t DEF SchedulerType
      <4>2. PICK j \in Nat : task' = [task EXCEPT ![t].job = j]
        BY <1>t, <1>5 DEF Schedule!Link, SchedulerType, Row, Creation
      <4> QED
        BY <4>1, <4>2, RowsAreTyped
    <3>2. creating' \in [Tasks -> Creation]
      BY <1>t, <1>5 DEF Schedule!Link, SchedulerType
    <3> QED
      BY <1>t, <1>5, <3>1, <3>2 DEF Schedule!Link, SchedulerType
  <2>2. QuietTask(t)'
    BY <1>t, <1>5 DEF Schedule!Link, SchedulerType, QuietTask
  <2>3. \A s \in Tasks \ {t} : UNCHANGED <<task[s], creating[s], removing[s]>>
    BY <1>t, <1>5 DEF Schedule!Link, SchedulerType
  <2> QED
    BY <1>1, <1>5, <2>1, <2>2, <2>3 DEF Schedule!Link
<1>6. CASE Schedule!CreateDies(t)
  BY <1>t, <1>1, <1>6 DEF Schedule!CreateDies, SchedulerType, QuietTask
<1>7. CASE Schedule!SetEnabled(t)
  <2>1. SchedulerType'
    <3>1. task' \in [Tasks -> Row]
      <4>1. task \in [Tasks -> Row]
        BY <1>t DEF SchedulerType
      <4>2. task' = [task EXCEPT ![t].enabled = ~@]
        BY <1>7 DEF Schedule!SetEnabled
      <4> QED
        BY <4>1, <4>2, RowsAreTyped
    <3>2. creating' \in [Tasks -> Creation]
      BY <1>t, <1>7 DEF Schedule!SetEnabled, SchedulerType
    <3> QED
      BY <1>t, <1>7, <3>1, <3>2 DEF Schedule!SetEnabled, SchedulerType
  <2>2. QuietTask(t)'
    BY <1>t, <1>7 DEF Schedule!SetEnabled, SchedulerType, QuietTask
  <2>3. \A s \in Tasks \ {t} : UNCHANGED <<task[s], creating[s], removing[s]>>
    BY <1>t, <1>7 DEF Schedule!SetEnabled, SchedulerType
  <2> QED
    BY <1>1, <1>7, <2>1, <2>2, <2>3 DEF Schedule!SetEnabled
<1>8. CASE Schedule!RemoveFinds(t)
  BY <1>t, <1>1, <1>8 DEF Row, Schedule!RemoveFinds, SchedulerType, QuietTask
<1>9. CASE Schedule!Cancel(t)
  <2>1. SchedulerType'
    <3>1. job' \in Nat
      BY <1>t, <1>9 DEF Schedule!Cancel, SchedulerType
    <3>2. removing' = [removing EXCEPT ![t] = [pc |-> "delete", job |-> 0]]
      BY <1>9 DEF Schedule!Cancel, Schedule!AfterCancelFails
    <3>3. removing' \in [Tasks -> [pc : {"idle", "cancel", "delete", "done"}, job : Nat]]
      BY <1>t, <3>2 DEF SchedulerType
    <3> QED
      BY <1>t, <1>9, <3>1, <3>3 DEF Schedule!Cancel, SchedulerType
  <2>2. QuietTask(t)'
    BY <1>t, <1>9 DEF Schedule!Cancel, Schedule!AfterCancelFails, SchedulerType, QuietTask
  <2> QED
    BY <1>t, <1>1, <1>9, <2>1, <2>2 DEF Schedule!Cancel, SchedulerType
<1>10. CASE Schedule!Delete(t)
  <2>1. SchedulerType' /\ QuietTask(t)'
    BY <1>t, <1>10 DEF Schedule!Delete, SchedulerType, QuietTask, Row
  <2> QED
    BY <1>t, <1>1, <1>10, <2>1 DEF Schedule!Delete, SchedulerType
<1> QED
  BY <1>2, <1>3, <1>4, <1>5, <1>6, <1>7, <1>8, <1>9, <1>10

LEMMA RunStep ==
  ASSUME SchedulerInv, NEW r \in Runs,
         \/ Schedule!Fire(r) \/ Schedule!Find(r) \/ Schedule!FindsNothing(r)
         \/ Schedule!Dispatch(r)
  PROVE  SchedulerInv'
<1> USE DEF Schedule!NoJob, Schedule!IdleRun, Schedule!ops
<1>t. SchedulerType /\ QuietRun(r)
  BY DEF SchedulerInv
<1>1. ASSUME SchedulerType', QuietRun(r)', UNCHANGED <<task, creating, removing>>,
             \A s \in Runs \ {r} : UNCHANGED <<run[s], gone[s]>>
      PROVE  SchedulerInv'
  <2>1. ASSUME NEW t \in Tasks PROVE QuietTask(t)'
    BY <1>1 DEF SchedulerInv, QuietTask
  <2>2. ASSUME NEW s \in Runs PROVE QuietRun(s)'
    BY <1>1 DEF SchedulerInv, QuietRun
  <2> QED
    BY <1>1, <2>1, <2>2 DEF SchedulerInv
<1>2. CASE Schedule!Fire(r)
  BY <1>t, <1>1, <1>2 DEF Schedule!Fire, SchedulerType, QuietRun
<1>3. CASE Schedule!Find(r)
  <2>1. PICK t \in Tasks : /\ task[t].there
                           /\ run' = [run EXCEPT ![r] = IF task[t].enabled
                                                        THEN [pc |-> "dispatch", job |-> 0, row |-> t]
                                                        ELSE Schedule!IdleRun]
                           /\ UNCHANGED <<job, made, task, creating, removing, gone>>
    BY <1>3 DEF Schedule!Find
  <2>2. t \notin gone[r]
    BY <2>1, <1>t DEF SchedulerInv, QuietTask, QuietRun
  <2>3. SchedulerType'
    BY <2>1, <1>t DEF SchedulerType
  <2>4. QuietRun(r)'
    BY <2>1, <2>2, <1>t DEF SchedulerType, QuietRun
  <2> QED
    BY <2>1, <2>3, <2>4, <1>1 DEF SchedulerType
<1>4. CASE Schedule!FindsNothing(r)
  BY <1>t, <1>1, <1>4 DEF Schedule!FindsNothing, SchedulerType, QuietRun
<1>5. CASE Schedule!Dispatch(r)
  BY <1>t, <1>1, <1>5 DEF Schedule!Dispatch, SchedulerType, QuietRun
<1> QED
  BY <1>2, <1>3, <1>4, <1>5

LEMMA SchedulerStep == SchedulerInv /\ [Schedule!Next]_schedulerVars => SchedulerInv'
<1> SUFFICES ASSUME SchedulerInv, [Schedule!Next]_schedulerVars PROVE SchedulerInv'
  OBVIOUS
<1>1. CASE Schedule!Start \/ Schedule!Stop \/ UNCHANGED schedulerVars
  BY <1>1 DEF Schedule!Start, Schedule!Stop, Schedule!ops, schedulerVars, SchedulerInv,
              SchedulerType, QuietTask, QuietRun
<1> QED
  BY <1>1, TaskStep, RunStep DEF Schedule!Next

\* No run of the job that begins after the removal of a task has returned
\* dispatches the task, for any number of tasks, runs and jobs.
THEOREM RemovedTasksAreQuiet == OutsideSpec => []RemovedIsQuiet
<1>1. OutsideInit => SchedulerInv
  BY SchedulerInit DEF OutsideInit
<1>2. [OutsideNext]_outsideVars => [Schedule!Next]_schedulerVars
  BY DEF OutsideNext, outsideVars
<1>3. SchedulerInv => RemovedIsQuiet
  BY DEF SchedulerInv, QuietRun, RemovedIsQuiet, Schedule!RemovedIsQuiet
<1> QED
  BY <1>1, <1>2, <1>3, SchedulerStep, PTL DEF OutsideSpec
-----------------------------------------------------------------------------
(* The desktops *)

Place == {"idle", "lock", "load", "save", "env", "unit", "record", "sidecar",
          "stopUnit", "release", "forget"}

DesktopType ==
    /\ slots \in [Desktops -> Nat]
    /\ DOMAIN listed = Desktops
    /\ recorded \subseteq Desktops
    /\ DOMAIN request = Requests

\* Who is past the lock holds it, and knows what the file says.
Knows(r) ==
    /\ request[r].at \in Place
    /\ request[r].at # "idle" => request[r].desktop \in Desktops
    /\ request[r].at \notin {"idle", "lock", "stopUnit"} => lock = r
    /\ request[r].at = "save" => request[r].seen = slots /\ slots[request[r].desktop] = 0
    /\ request[r].at \in {"env", "unit", "record", "sidecar"}
          => request[r].slot = slots[request[r].desktop] /\ request[r].slot # 0

\* What the table says of a desktop the file says too, and of no other.
Kept(d) ==
    /\ listed[d] # 0
    /\ slots[d] = listed[d] \/ Desktop!Leaving(d)
    /\ \A e \in Desktops \ {d} : slots[e] # listed[d]

DesktopInv ==
    /\ DesktopType
    /\ \A r \in Requests : Knows(r)
    /\ \A d, e \in Desktops : d # e /\ slots[d] # 0 => slots[e] # slots[d]
    /\ \A d \in recorded : Kept(d)
    /\ todo # {} => recorded = {} /\ \A r \in Requests : request[r].at = "idle"

LEMMA DesktopInit == Desktop!Init => DesktopInv
  BY DEF Desktop!Init, DesktopInv, DesktopType, Knows, Place, Kept, Desktop!Idle

\* At most one desktop is being released, by the holder of the lock.
LEMMA Distinct == DesktopInv => PortsAreKept
<1> SUFFICES ASSUME DesktopInv, NEW d \in recorded
             PROVE  /\ ~Desktop!Leaving(d) => slots[d] = listed[d]
                    /\ \A e \in recorded \ {d} : listed[e] # listed[d]
  BY DEF PortsAreKept, Desktop!PortsAreKept
<1>1. Kept(d) /\ d \in Desktops
  BY DEF DesktopInv, DesktopType
<1>2. ASSUME NEW e \in recorded, e # d PROVE listed[e] # listed[d]
  <2>1. Kept(e) /\ e \in Desktops
    BY DEF DesktopInv, DesktopType
  <2>2. ~(Desktop!Leaving(d) /\ Desktop!Leaving(e))
    BY <1>2 DEF DesktopInv, Knows, Desktop!Leaving, Desktop!At
  <2> QED
    BY <1>1, <1>2, <2>1, <2>2 DEF Kept
<1> QED
  BY <1>1, <1>2 DEF Kept

\* A step of one request that leaves the file and the table alone.
LEMMA Onward ==
  ASSUME DesktopInv, NEW r \in Requests, NEW new,
         request' = [request EXCEPT ![r] = new],
         request[r].at # "forget",
         lock' = lock \/ (lock = None /\ lock' = r) \/ (lock = r /\ lock' = None),
         Knows(r)', todo = {} \/ new.at = "idle",
         UNCHANGED <<slots, listed, recorded, todo>>
  PROVE  DesktopInv'
<1>1. request'[r] = new /\ \A q \in Requests \ {r} : request'[q] = request[q]
  BY DEF DesktopInv, DesktopType
<1>2. ASSUME NEW q \in Requests PROVE Knows(q)'
  <2>1. CASE q # r
    <3>1. Knows(q) /\ request'[q] = request[q]
      BY <1>1, <2>1 DEF DesktopInv
    <3>2. lock = q => lock' = q
      BY <2>1, NoneAssumption
    <3> QED
      BY <3>1, <3>2 DEF Knows
  <2> QED
    BY <2>1
<1>3. ASSUME NEW d \in recorded PROVE Kept(d)'
  <2>1. Desktop!Leaving(d) => Desktop!Leaving(d)'
    BY <1>1 DEF Desktop!Leaving, Desktop!At
  <2>2. Kept(d)
    BY DEF DesktopInv
  <2> QED
    BY <2>1, <2>2 DEF Kept
<1>4. DesktopType'
  BY DEF DesktopInv, DesktopType
<1> QED
  BY <1>1, <1>2, <1>3, <1>4 DEF DesktopInv

\* The others are outside the lock, and only the holder can be releasing a desktop.
LEMMA Holder ==
  ASSUME DesktopInv, NEW r \in Requests, lock = r
  PROVE  /\ \A q \in Requests \ {r} : request[q].at \in {"idle", "lock", "stopUnit"}
         /\ \A d \in Desktops : Desktop!Leaving(d) <=> request[r].desktop = d /\ request[r].at = "forget"
  BY DEF DesktopInv, Knows, Place, Desktop!Leaving, Desktop!At

\* A step of the holder that changes the file or the table.
LEMMA HolderStep ==
  ASSUME DesktopInv, NEW r \in Requests, lock = r, todo = {}, todo' = todo,
         NEW new, request' = [request EXCEPT ![r] = new], lock' \in {r, None},
         DesktopType', Knows(r)', \A d \in recorded' : Kept(d)',
         \A d, e \in Desktops : d # e /\ slots'[d] # 0 => slots'[e] # slots'[d]
  PROVE  DesktopInv'
<1>1. ASSUME NEW q \in Requests PROVE Knows(q)'
  <2>1. CASE q # r
    <3>1. request'[q] = request[q] /\ Knows(q)
      BY <2>1 DEF DesktopInv, DesktopType
    <3> QED
      BY <3>1, <2>1, Holder DEF Knows, Place
  <2> QED
    BY <2>1
<1> QED
  BY <1>1 DEF DesktopInv

LEMMA RequestStep ==
  ASSUME DesktopInv, NEW r \in Requests,
         \/ Desktop!StartBegins(r) \/ Desktop!TakeLock(r) \/ Desktop!Load(r) \/ Desktop!Save(r)
         \/ Desktop!WriteEnv(r) \/ Desktop!StartUnit(r) \/ Desktop!Record(r)
         \/ Desktop!WriteSidecar(r) \/ Desktop!StopBegins(r) \/ Desktop!StopUnit(r)
         \/ Desktop!Release(r) \/ Desktop!Forget(r) \/ Desktop!Fail(r)
  PROVE  DesktopInv'
<1> USE DEF Desktop!At, Desktop!Goes, Desktop!Returns, Desktop!Idle, Desktop!disk, Desktop!table,
            Desktop!bounds
<1>t. DesktopType /\ Knows(r) /\ (todo = {} \/ request[r].at = "idle")
  BY DEF DesktopInv
<1>1. ASSUME NEW what, NEW d \in Desktops, NEW place \in {"lock", "stopUnit"}, Desktop!Begin(r, what, d, place)
      PROVE  DesktopInv'
  <2> DEFINE new == [op |-> what, desktop |-> d, at |-> place, seen |-> None, slot |-> 0]
  <2>1. /\ request' = [request EXCEPT ![r] = new] /\ request[r].at = "idle" /\ todo = {}
        /\ UNCHANGED <<slots, listed, recorded, todo, lock>>
    BY <1>1 DEF Desktop!Begin
  <2>2. Knows(r)'
    BY <2>1, <1>t DEF DesktopType, Knows, Place
  <2> QED
    BY <2>1, <2>2, Onward
<1>2. CASE Desktop!TakeLock(r)
  <2> DEFINE new == [request[r] EXCEPT !.at = IF request[r].op = "start" THEN "load" ELSE "release"]
  <2>1. /\ request' = [request EXCEPT ![r] = new] /\ request[r].at = "lock"
        /\ lock = None /\ lock' = r /\ UNCHANGED <<slots, listed, recorded, todo>>
    BY <1>2 DEF Desktop!TakeLock
  <2>2. Knows(r)'
    BY <2>1, <1>t DEF DesktopType, Knows, Place
  <2>3. todo = {}
    BY <2>1, <1>t
  <2> QED
    BY <2>1, <2>2, <2>3, Onward
<1>3. ASSUME request' = [request EXCEPT ![r] = Desktop!Idle], request[r].at # "forget",
             lock' = lock \/ (lock = r /\ lock' = None),
             UNCHANGED <<slots, listed, recorded, todo>>
      PROVE  DesktopInv'
  <2>1. Knows(r)'
    BY <1>3, <1>t DEF DesktopType, Knows, Place
  <2> QED
    BY <1>3, <2>1, Onward
<1>4. CASE Desktop!Load(r)
  <2> DEFINE mine == slots[request[r].desktop]
             new == [request[r] EXCEPT !.at = "env", !.slot = mine]
             old == [request[r] EXCEPT !.at = "save", !.seen = slots]
  <2>1. request[r].at = "load" /\ lock = r /\ todo = {} /\ UNCHANGED <<slots, listed, recorded, todo>>
    BY <1>4, <1>t DEF Desktop!Load, Knows
  <2>2. CASE mine # 0
    <3>1. request' = [request EXCEPT ![r] = new] /\ UNCHANGED lock
      BY <1>4, <2>2 DEF Desktop!Load
    <3>2. Knows(r)'
      BY <2>1, <2>2, <3>1, <1>t DEF DesktopType, Knows, Place
    <3> QED
      BY <2>1, <3>1, <3>2, Onward
  <2>3. CASE mine = 0 /\ Desktop!Free(slots) # {}
    <3>1. request' = [request EXCEPT ![r] = old] /\ UNCHANGED lock
      BY <1>4, <2>3 DEF Desktop!Load
    <3>2. Knows(r)'
      BY <2>1, <2>3, <3>1, <1>t DEF DesktopType, Knows, Place
    <3> QED
      BY <2>1, <3>1, <3>2, Onward
  <2>4. CASE mine = 0 /\ Desktop!Free(slots) = {}
    BY <1>4, <2>1, <2>4, <1>3 DEF Desktop!Load
  <2> QED
    BY <2>2, <2>3, <2>4
<1>5. CASE Desktop!WriteEnv(r)
  <2>1. request[r].at = "env" /\ lock = r /\ todo = {} /\ UNCHANGED <<slots, listed, recorded, todo>>
    BY <1>5, <1>t DEF Desktop!WriteEnv, Knows
  <2>2. CASE request' = [request EXCEPT ![r].at = "unit"] /\ UNCHANGED lock
    <3>1. Knows(r)'
      BY <2>1, <2>2, <1>t DEF DesktopType, Knows, Place
    <3> QED
      BY <2>1, <2>2, <3>1, Onward
  <2>3. CASE request' = [request EXCEPT ![r] = Desktop!Idle] /\ lock' = None
    BY <2>1, <2>3, <1>3
  <2> QED
    BY <1>5, <2>2, <2>3 DEF Desktop!WriteEnv
<1>6. CASE Desktop!StartUnit(r)
  <2>1. /\ request' = [request EXCEPT ![r].at = "record"] /\ request[r].at = "unit"
        /\ todo = {} /\ UNCHANGED <<slots, listed, recorded, todo, lock>>
    BY <1>6, <1>t DEF Desktop!StartUnit
  <2>2. Knows(r)'
    BY <2>1, <1>t DEF DesktopType, Knows, Place
  <2> QED
    BY <2>1, <2>2, Onward
<1>7. CASE Desktop!StopUnit(r)
  <2>1. /\ request' = [request EXCEPT ![r].at = "lock"] /\ request[r].at = "stopUnit"
        /\ todo = {} /\ UNCHANGED <<slots, listed, recorded, todo, lock>>
    BY <1>7, <1>t DEF Desktop!StopUnit
  <2>2. Knows(r)'
    BY <2>1, <1>t DEF DesktopType, Knows, Place
  <2> QED
    BY <2>1, <2>2, Onward
<1>8. CASE Desktop!WriteSidecar(r)
  BY <1>8, <1>3, <1>t DEF Desktop!WriteSidecar, Knows
<1>9. CASE Desktop!Fail(r)
  BY <1>9, <1>3 DEF Desktop!Fail
<1>10. CASE Desktop!Save(r)
  <2> DEFINE d == request[r].desktop
  <2>1. PICK n \in Desktop!Free(request[r].seen) :
          /\ slots' = [request[r].seen EXCEPT ![d] = n]
          /\ request' = [request EXCEPT ![r].at = "env", ![r].seen = None, ![r].slot = n]
    BY <1>10 DEF Desktop!Save
  <2>2. /\ request[r].at = "save" /\ lock = r /\ todo = {} /\ request[r].seen = slots
        /\ d \in Desktops /\ slots[d] = 0 /\ UNCHANGED <<listed, recorded, todo, lock>>
    BY <1>10, <1>t DEF Desktop!Save, Knows
  <2>3. n \in Nat \ {0} /\ \A e \in Desktops : slots[e] # n
    BY <2>1, <2>2, BoundsAssumption DEF Desktop!Free, Desktop!Taken
  <2>4. slots' = [slots EXCEPT ![d] = n]
    BY <2>1, <2>2
  <2>5. DesktopType'
    BY <2>1, <2>2, <2>3, <2>4, <1>t DEF DesktopType
  <2>6. Knows(r)'
    BY <2>1, <2>2, <2>3, <2>4, <1>t DEF DesktopType, Knows, Place
  <2>7. ASSUME NEW e \in recorded PROVE Kept(e)'
    <3>1. Kept(e) /\ e \in Desktops /\ slots[e] = listed[e] /\ e # d
      BY <2>2, <1>t, Holder DEF DesktopInv, DesktopType, Kept
    <3> QED
      BY <3>1, <2>2, <2>3, <2>4, <1>t DEF Kept, DesktopType
  <2>8. \A e, f \in Desktops : e # f /\ slots'[e] # 0 => slots'[f] # slots'[e]
    BY <2>2, <2>3, <2>4, <1>t DEF DesktopInv, DesktopType
  <2> QED
    BY <2>1, <2>2, <2>5, <2>6, <2>7, <2>8, HolderStep
<1>11. CASE Desktop!Record(r)
  <2> DEFINE d == request[r].desktop
  <2>1. /\ listed' = [listed EXCEPT ![d] = request[r].slot] /\ recorded' = recorded \cup {d}
        /\ request' = [request EXCEPT ![r].at = "sidecar"] /\ UNCHANGED <<slots, todo, lock>>
    BY <1>11 DEF Desktop!Record
  <2>2. /\ request[r].at = "record" /\ lock = r /\ todo = {}
        /\ d \in Desktops /\ request[r].slot = slots[d] /\ slots[d] # 0
    BY <1>11, <1>t DEF Desktop!Record, Knows
  <2>3. DesktopType' /\ Knows(r)'
    BY <2>1, <2>2, <1>t DEF DesktopType, Knows, Place
  <2>4. ASSUME NEW e \in recorded' PROVE Kept(e)'
    <3>1. CASE e = d
      BY <2>1, <2>2, <3>1, <1>t DEF DesktopInv, DesktopType, Kept
    <3>2. CASE e # d
      <4>1. Kept(e) /\ e \in Desktops /\ slots[e] = listed[e]
        BY <2>1, <2>2, <3>2, <1>t, Holder DEF DesktopInv, DesktopType, Kept
      <4> QED
        BY <2>1, <3>2, <4>1, <1>t DEF Kept, DesktopType
    <3> QED
      BY <3>1, <3>2
  <2>5. \A e, f \in Desktops : e # f /\ slots'[e] # 0 => slots'[f] # slots'[e]
    BY <2>1 DEF DesktopInv
  <2> QED
    BY <2>1, <2>2, <2>3, <2>4, <2>5, HolderStep
<1>12. CASE Desktop!Release(r)
  <2> DEFINE d == request[r].desktop
  <2>1. /\ slots' = [slots EXCEPT ![d] = 0] /\ request' = [request EXCEPT ![r].at = "forget"]
        /\ UNCHANGED <<listed, recorded, todo, lock>>
    BY <1>12 DEF Desktop!Release
  <2>2. request[r].at = "release" /\ lock = r /\ todo = {} /\ d \in Desktops
    BY <1>12, <1>t DEF Desktop!Release, Knows
  <2>3. DesktopType' /\ Knows(r)'
    BY <2>1, <2>2, <1>t DEF DesktopType, Knows, Place
  <2>4. ASSUME NEW e \in recorded PROVE Kept(e)'
    <3>1. Kept(e) /\ e \in Desktops /\ slots[e] = listed[e]
      BY <2>2, Holder DEF DesktopInv, DesktopType, Kept
    <3>2. Desktop!Leaving(d)'
      BY <2>1, <2>2, <1>t DEF DesktopType, Desktop!Leaving
    <3> QED
      BY <2>1, <3>1, <3>2, <1>t DEF Kept, DesktopType
  <2>5. \A e, f \in Desktops : e # f /\ slots'[e] # 0 => slots'[f] # slots'[e]
    BY <2>1, <2>2, <1>t DEF DesktopInv, DesktopType
  <2> QED
    BY <2>1, <2>2, <2>3, <2>4, <2>5, HolderStep
<1>13. CASE Desktop!Forget(r)
  <2> DEFINE d == request[r].desktop
  <2>1. /\ listed' = [listed EXCEPT ![d] = 0] /\ recorded' = recorded \ {d}
        /\ request' = [request EXCEPT ![r] = Desktop!Idle] /\ lock' = None /\ UNCHANGED <<slots, todo>>
    BY <1>13 DEF Desktop!Forget
  <2>2. request[r].at = "forget" /\ lock = r /\ todo = {} /\ d \in Desktops
    BY <1>13, <1>t DEF Desktop!Forget, Knows
  <2>3. DesktopType' /\ Knows(r)'
    BY <2>1, <2>2, <1>t DEF DesktopType, Knows, Place
  <2>4. ASSUME NEW e \in recorded' PROVE Kept(e)'
    <3>1. Kept(e) /\ e \in Desktops /\ slots[e] = listed[e] /\ e # d
      BY <2>1, <2>2, Holder DEF DesktopInv, DesktopType, Kept
    <3> QED
      BY <2>1, <3>1, <1>t DEF Kept, DesktopType
  <2>5. \A e, f \in Desktops : e # f /\ slots'[e] # 0 => slots'[f] # slots'[e]
    BY <2>1 DEF DesktopInv
  <2> QED
    BY <2>1, <2>2, <2>3, <2>4, <2>5, HolderStep
<1> QED
  BY <1>1, <1>2, <1>4, <1>5, <1>6, <1>7, <1>8, <1>9, <1>10, <1>11, <1>12, <1>13
  DEF Desktop!StartBegins, Desktop!StopBegins

LEMMA DesktopStep == DesktopInv /\ [Desktop!Next]_desktopVars => DesktopInv'
<1> SUFFICES ASSUME DesktopInv, [Desktop!Next]_desktopVars PROVE DesktopInv'
  OBVIOUS
<1> USE DEF Desktop!disk, Desktop!table, Desktop!bounds
<1>t. DesktopType
  BY DEF DesktopInv
<1>1. CASE Desktop!Restart
  <2>1. /\ request' = [r \in Requests |-> Desktop!Idle] /\ recorded' = {} /\ UNCHANGED slots
        /\ listed' = [d \in Desktops |-> 0]
    BY <1>1 DEF Desktop!Restart
  <2>2. DesktopType' /\ \A r \in Requests : Knows(r)'
    BY <2>1, <1>t DEF DesktopType, Knows, Place, Desktop!Idle
  <2> QED
    BY <2>1, <2>2 DEF DesktopInv, Desktop!Idle
<1>2. ASSUME NEW d \in Desktops, Desktop!Rehydrate(d) PROVE DesktopInv'
  <2>1. /\ recorded = {} /\ \A r \in Requests : request[r].at = "idle"
        /\ UNCHANGED <<recorded, lock, request>>
    BY <1>2 DEF Desktop!Rehydrate, DesktopInv
  <2>2. \/ slots' = slots /\ listed' = [listed EXCEPT ![d] = envs[d]]
        \/ slots' = [slots EXCEPT ![d] = 0] /\ listed' = listed
    BY <1>2 DEF Desktop!Rehydrate
  <2>3. \A e, f \in Desktops : e # f /\ slots'[e] # 0 => slots'[f] # slots'[e]
    BY <2>2, <1>t DEF DesktopInv, DesktopType
  <2>4. \A r \in Requests : Knows(r)'
    BY <2>1 DEF DesktopInv, Knows
  <2>5. DesktopType'
    BY <2>1, <2>2, <1>t DEF DesktopType
  <2> QED
    BY <2>1, <2>3, <2>4, <2>5 DEF DesktopInv
<1>3. ASSUME UNCHANGED <<slots, listed, recorded, lock, request, todo>> PROVE DesktopInv'
  BY <1>3 DEF DesktopInv, DesktopType, Knows, Kept, Desktop!Leaving, Desktop!At
<1>4. CASE UNCHANGED desktopVars
  BY <1>4, <1>3 DEF desktopVars
<1>5. ASSUME NEW d \in Desktops, Desktop!UnitDies(d) PROVE DesktopInv'
  BY <1>5, <1>3 DEF Desktop!UnitDies
<1> QED
  BY <1>1, <1>2, <1>4, <1>5, RequestStep DEF Desktop!Next

\* A port that a start answered with stays the desktop's, in the allocations file
\* and in the table, and is that of no other, for any number of desktops, slots,
\* requests and restarts.
THEOREM AnsweredPortsAreKept == OutsideSpec => []PortsAreKept
<1>1. OutsideInit => DesktopInv
  BY DesktopInit DEF OutsideInit
<1>2. [OutsideNext]_outsideVars => [Desktop!Next]_desktopVars
  BY DEF OutsideNext, outsideVars, guestVars
<1> QED
  BY <1>1, <1>2, Distinct, DesktopStep, PTL DEF OutsideSpec

-----------------------------------------------------------------------------
(* The session table of the guest agent *)

Places == {"idle", "prepare", "launch", "insert", "send", "cancel", "close", "remove"}

GuestType ==
    /\ entry \in [Sessions -> Processes \cup {None}]
    /\ launched \in [Processes -> Sessions \cup {None}]
    /\ alive \subseteq Processes
    /\ handler \in [Handlers -> [op : {"none", "start", "send", "cancel", "close"},
                                 session : Sessions \cup {None}, at : Places,
                                 holds : Processes \cup {None}]]

\* A handler holds a process of its own session, and none before its launch.
OwnHold(h) ==
    /\ handler[h].at \in {"idle", "prepare", "launch"} => handler[h].holds = None
    /\ handler[h].at # "idle" => handler[h].session \in Sessions
    /\ handler[h].at \notin {"idle", "prepare", "launch"} => handler[h].holds \in Processes
    /\ handler[h].holds # None => launched[handler[h].holds] = handler[h].session

OwnEntry(s) == entry[s] # None => launched[entry[s]] = s

Entries == {s \in Sessions : entry[s] # None}

GuestInv ==
    /\ GuestType
    /\ \A h \in Handlers : OwnHold(h)
    /\ \A s \in Sessions : OwnEntry(s)
    /\ alive \subseteq Guest!Referenced
    /\ IsFiniteSet(Entries) /\ counted = Cardinality(Entries)

LEMMA GuestInit == Guest!Init => GuestInv
<1> SUFFICES ASSUME Guest!Init PROVE GuestInv
  OBVIOUS
<1>1. Entries = {}
  BY DEF Guest!Init, Entries
<1> QED
  BY <1>1, FS_EmptySet DEF Guest!Init, GuestInv, GuestType, OwnHold, OwnEntry, Guest!Done, Places

\* The sessions are counted, and every process that runs has an owner.
LEMMA GuestCounted == GuestInv => SessionsAreCounted
<1> SUFFICES ASSUME GuestInv PROVE SessionsAreCounted
  OBVIOUS
<1>1. ASSUME NEW p \in alive
      PROVE  \/ entry[launched[p]] = p
             \/ \E h \in Handlers : handler[h].holds = p /\ handler[h].session = launched[p]
  <2>1. p # None /\ p \in Guest!Referenced
    BY <1>1, NoneAssumption DEF GuestInv, GuestType
  <2>2. CASE \E s \in Sessions : entry[s] = p
    BY <2>1, <2>2 DEF GuestInv, OwnEntry
  <2>3. CASE \E h \in Handlers : handler[h].holds = p
    BY <2>1, <2>3 DEF GuestInv, OwnHold
  <2> QED
    BY <2>1, <2>2, <2>3 DEF Guest!Referenced
<1>2. counted = Guest!Cardinality({s \in Sessions : entry[s] # None})
  BY Zenon DEF GuestInv, Entries, Cardinality, Guest!Cardinality
<1> QED
  BY <1>1, <1>2, Zenon DEF SessionsAreCounted, Guest!SessionsAreCounted

\* One handler goes on or ends while the table stays as it is: what runs
\* afterwards is referenced.
LEMMA HandlerStep ==
  ASSUME GuestInv, NEW h \in Handlers, NEW new,
         handler' = [handler EXCEPT ![h] = new],
         new \in [op : {"none", "start", "send", "cancel", "close"},
                  session : Sessions \cup {None}, at : Places, holds : Processes \cup {None}],
         OwnHold(h)', UNCHANGED <<entry, counted, launched>>,
         alive' \subseteq alive, alive' \subseteq Guest!Referenced' \/ handler[h].holds \in {None, new.holds}
  PROVE  GuestInv'
<1>1. GuestType'
  BY DEF GuestInv, GuestType
<1>2. \A g \in Handlers : OwnHold(g)'
  <2> SUFFICES ASSUME NEW g \in Handlers, g # h PROVE OwnHold(g)'
    OBVIOUS
  <2>1. handler'[g] = handler[g]
    BY DEF GuestInv, GuestType
  <2> QED
    BY <2>1 DEF GuestInv, OwnHold
<1>3. alive' \subseteq Guest!Referenced'
  <2> SUFFICES ASSUME handler[h].holds \in {None, new.holds}, NEW p \in alive'
               PROVE  p \in Guest!Referenced'
    OBVIOUS
  <2>1. p # None /\ p \in Guest!Referenced
    BY NoneAssumption DEF GuestInv, GuestType
  <2>2. \A g \in Handlers : handler'[g] = IF g = h THEN new ELSE handler[g]
    BY DEF GuestInv, GuestType
  <2> QED
    BY <2>1, <2>2 DEF Guest!Referenced
<1> QED
  BY <1>1, <1>2, <1>3 DEF GuestInv, OwnEntry, Entries

\* A handler that ends by changing the entry of its session, with the count.
LEMMA EntryStep ==
  ASSUME GuestInv, NEW h \in Handlers, NEW s \in Sessions, NEW p \in Processes \cup {None},
         entry' = [entry EXCEPT ![s] = p], p # None => launched[p] = s,
         counted' = IF p = None THEN IF entry[s] # None /\ counted > 0 THEN counted - 1 ELSE counted
                                ELSE IF entry[s] = None THEN counted + 1 ELSE counted,
         handler' = [handler EXCEPT ![h] = Guest!Done],
         alive' = Guest!KillOnDrop(alive), UNCHANGED launched
  PROVE  GuestInv'
<1>t. GuestType /\ IsFiniteSet(Entries) /\ counted = Cardinality(Entries) /\ counted \in Nat
  BY FS_CardinalityType DEF GuestInv
<1>1. GuestType'
  BY <1>t DEF GuestType, Guest!Done, Guest!KillOnDrop, Places
<1>2. \A g \in Handlers : OwnHold(g)'
  <2>1. \A g \in Handlers : handler'[g] = IF g = h THEN Guest!Done ELSE handler[g]
    BY <1>t DEF GuestType
  <2> QED
    BY <2>1 DEF GuestInv, OwnHold, Guest!Done
<1>3. \A r \in Sessions : OwnEntry(r)'
  BY <1>t DEF GuestInv, GuestType, OwnEntry
<1>4. alive' \subseteq Guest!Referenced'
  BY DEF Guest!KillOnDrop
<1>5. IsFiniteSet(Entries') /\ counted' = Cardinality(Entries')
  <2>1. CASE p = None
    <3>1. Entries' = Entries \ {s} /\ (s \in Entries <=> entry[s] # None)
      BY <1>t, <2>1 DEF GuestType, Entries
    <3>2. s \in Entries => counted > 0
      BY <1>t, FS_EmptySet
    <3> QED
      BY <1>t, <2>1, <3>1, <3>2, FS_RemoveElement
  <2>2. CASE p # None
    <3>1. Entries' = Entries \cup {s} /\ (s \in Entries <=> entry[s] # None)
      BY <1>t, <2>2 DEF GuestType, Entries
    <3> QED
      BY <1>t, <2>2, <3>1, FS_AddElement
  <2> QED
    BY <2>1, <2>2
<1> QED
  BY <1>1, <1>2, <1>3, <1>4, <1>5 DEF GuestInv

LEMMA GuestStep == GuestInv /\ [Guest!Next]_sessionVars => GuestInv'
<1> SUFFICES ASSUME GuestInv, [Guest!Next]_sessionVars PROVE GuestInv'
  OBVIOUS
<1> DEFINE Request == [op : {"none", "start", "send", "cancel", "close"},
                       session : Sessions \cup {None}, at : Places, holds : Processes \cup {None}]
<1>t. GuestType /\ \A h \in Handlers : OwnHold(h) /\ handler[h] \in Request
  BY DEF GuestInv, GuestType
<1>d. Guest!Done \in Request
  BY DEF Guest!Done, Places
\* A handler that ends, the table untouched and what it alone held killed.
<1>e. ASSUME NEW h \in Handlers, Guest!Finishes(h), UNCHANGED <<entry, counted, launched>>,
             alive' \subseteq alive, alive' \subseteq Guest!Referenced' \/ handler[h].holds = None
      PROVE  GuestInv'
  <2>1. handler' = [handler EXCEPT ![h] = Guest!Done]
    BY <1>e DEF Guest!Finishes
  <2>2. OwnHold(h)'
    BY <2>1, <1>t DEF OwnHold, GuestType, Guest!Done
  <2> QED
    BY <1>d, <1>e, <2>1, <2>2, HandlerStep
<1>1. ASSUME NEW h \in Handlers, NEW s \in Sessions, Guest!StartBegins(h, s) PROVE GuestInv'
  <2> DEFINE new == [op |-> "start", session |-> s, at |-> "prepare", holds |-> None]
  <2>1. handler' = [handler EXCEPT ![h] = new] /\ UNCHANGED <<entry, counted, launched, alive>>
        /\ handler[h].holds = None /\ new \in Request
    BY <1>1, <1>t DEF Guest!StartBegins, Guest!Ready, OwnHold, Places
  <2>2. OwnHold(h)'
    BY <2>1, <1>t DEF OwnHold, GuestType
  <2> QED
    BY <2>1, <2>2, HandlerStep
<1>2. ASSUME NEW h \in Handlers, NEW s \in Sessions, NEW what \in {"send", "cancel", "close"},
             Guest!LookUp(h, what, s)
      PROVE  GuestInv'
  <2> DEFINE new == [op |-> what, session |-> s, at |-> what, holds |-> entry[s]]
  <2>1. handler' = [handler EXCEPT ![h] = new] /\ UNCHANGED <<entry, counted, launched, alive>>
        /\ handler[h].holds = None /\ new \in Request /\ entry[s] \in Processes
        /\ launched[entry[s]] = s
    BY <1>2, <1>t DEF Guest!LookUp, Guest!Ready, OwnHold, Places, GuestType, GuestInv, OwnEntry
  <2>2. OwnHold(h)'
    BY <2>1, <1>t DEF OwnHold, GuestType
  <2> QED
    BY <2>1, <2>2, HandlerStep
<1>3. ASSUME NEW h \in Handlers, Guest!Prepared(h) PROVE GuestInv'
  <2>0. handler[h].at = "prepare" /\ handler[h].holds = None /\ handler[h].session \in Sessions
        /\ UNCHANGED <<entry, counted, launched, alive>>
    BY <1>3, <1>t DEF Guest!Prepared, Guest!Ready, OwnHold
  <2>1. CASE Guest!Finishes(h)
    BY <1>e, <2>0, <2>1
  <2>2. CASE Guest!Moves(h, "launch")
    <3> DEFINE new == [handler[h] EXCEPT !.at = "launch"]
    <3>1. handler' = [handler EXCEPT ![h] = new] /\ new \in Request /\ new.holds = None
          /\ new.session \in Sessions /\ new.at = "launch"
      BY <2>0, <2>2, <1>t DEF Guest!Moves, Places
    <3>2. OwnHold(h)'
      BY <3>1, <1>t DEF OwnHold, GuestType
    <3> QED
      BY <2>0, <3>1, <3>2, HandlerStep
  <2> QED
    BY <1>3, <2>1, <2>2 DEF Guest!Prepared
<1>4. ASSUME NEW h \in Handlers, Guest!Launch(h) PROVE GuestInv'
  <2>0. handler[h].at = "launch" /\ handler[h].holds = None /\ handler[h].session \in Sessions
        /\ UNCHANGED <<entry, counted>>
    BY <1>4, <1>t DEF Guest!Launch, Guest!Ready, OwnHold
  <2>1. CASE Guest!Finishes(h) /\ UNCHANGED <<launched, alive>>
    BY <1>e, <2>0, <2>1
  <2>2. ASSUME NEW p \in Processes, launched[p] = None,
               launched' = [launched EXCEPT ![p] = handler[h].session],
               alive' = alive \cup {p},
               handler' = [handler EXCEPT ![h].at = "insert", ![h].holds = p]
        PROVE  GuestInv'
    <3> DEFINE new == [handler[h] EXCEPT !.at = "insert", !.holds = p]
    <3>1. /\ handler' = [handler EXCEPT ![h] = new] /\ new \in Request
          /\ new.holds = p /\ new.session = handler[h].session /\ new.at = "insert"
      BY <2>2, <1>t DEF Places
    <3> HIDE DEF new
    <3>n. p # None /\ \A s \in Sessions : s # None
      BY NoneAssumption
    <3>2. GuestType'
      BY <2>0, <2>2, <3>1, <1>t DEF GuestType
    <3>3. \A g \in Handlers : handler'[g] = IF g = h THEN new ELSE handler[g]
      BY <3>1, <1>t DEF GuestType
    <3>4. \A g \in Handlers : OwnHold(g)'
      <4> SUFFICES ASSUME NEW g \in Handlers PROVE OwnHold(g)'
        OBVIOUS
      <4>1. CASE g = h
        BY <4>1, <2>0, <2>2, <3>1, <3>3, <1>t DEF OwnHold, GuestType
      <4>2. CASE g # h
        <5>1. handler'[g] = handler[g] /\ OwnHold(g)
          BY <3>3, <4>2, <1>t
        <5>2. handler[g].holds # None => handler[g].session \in Sessions /\ handler[g].holds \in Processes
          BY <5>1, <1>t DEF OwnHold
        <5>3. handler[g].holds # None => handler[g].holds # p
          BY <5>1, <5>2, <2>2, <3>n DEF OwnHold
        <5> QED
          BY <5>1, <5>2, <5>3, <2>2, <1>t DEF OwnHold, GuestType
      <4> QED
        BY <4>1, <4>2
    <3>5. \A s \in Sessions : OwnEntry(s)'
      BY <2>0, <2>2, <3>n, <1>t DEF GuestInv, OwnEntry, GuestType
    <3>6. alive' \subseteq Guest!Referenced'
      <4> SUFFICES ASSUME NEW x \in alive' PROVE x \in Guest!Referenced'
        OBVIOUS
      <4>1. CASE x = p
        BY <4>1, <3>1, <3>3 DEF Guest!Referenced
      <4>2. CASE x # p
        <5>1. x \in Guest!Referenced /\ x # None
          BY <4>2, <2>2, NoneAssumption, <1>t DEF GuestInv, GuestType
        <5> QED
          BY <5>1, <2>0, <3>3 DEF Guest!Referenced
      <4> QED
        BY <4>1, <4>2
    <3> QED
      BY <2>0, <3>2, <3>4, <3>5, <3>6 DEF GuestInv, Entries
  <2> QED
    BY <1>4, <2>1, <2>2 DEF Guest!Launch
<1>5. ASSUME NEW h \in Handlers, Guest!Insert(h) PROVE GuestInv'
  <2>1. /\ handler[h].session \in Sessions /\ handler[h].holds \in Processes
        /\ launched[handler[h].holds] = handler[h].session /\ handler[h].holds # None
    BY <1>5, <1>t, NoneAssumption DEF Guest!Insert, Guest!Ready, OwnHold
  <2> QED
    BY <1>5, <2>1, EntryStep DEF Guest!Insert, Guest!Finishes
<1>6. ASSUME NEW h \in Handlers, Guest!Remove(h) PROVE GuestInv'
  <2>1. handler[h].session \in Sessions
    BY <1>6, <1>t DEF Guest!Remove, Guest!Ready, OwnHold
  <2> QED
    BY <1>6, <2>1, EntryStep DEF Guest!Remove, Guest!Finishes
<1>7. ASSUME NEW h \in Handlers, Guest!Send(h) PROVE GuestInv'
  BY <1>7, <1>e DEF Guest!Send, Guest!KillOnDrop
<1>8. ASSUME NEW h \in Handlers, Guest!Cancel(h) PROVE GuestInv'
  BY <1>8, <1>e DEF Guest!Cancel, Guest!KillOnDrop
<1>9. ASSUME NEW h \in Handlers, Guest!HangUp(h) PROVE GuestInv'
  BY <1>9, <1>e DEF Guest!HangUp, Guest!KillOnDrop
<1>10. ASSUME NEW h \in Handlers, Guest!Close(h) PROVE GuestInv'
  <2> DEFINE new == [handler[h] EXCEPT !.at = "remove"]
  <2>1. /\ handler' = [handler EXCEPT ![h] = new] /\ new \in Request
        /\ new.holds = handler[h].holds /\ new.session = handler[h].session /\ new.at = "remove"
        /\ UNCHANGED <<entry, counted, launched>> /\ alive' \subseteq alive
    BY <1>10, <1>t DEF Guest!Close, Guest!Moves, Places
  <2>2. handler[h].at = "close" /\ OwnHold(h)
    BY <1>10, <1>t DEF Guest!Close, Guest!Ready
  <2> HIDE DEF new
  <2>3. OwnHold(h)'
    BY <2>1, <2>2, <1>t DEF OwnHold, GuestType
  <2> QED
    BY <2>1, <2>3, HandlerStep
<1>11. ASSUME NEW p \in Processes, Guest!Exit(p) PROVE GuestInv'
  BY <1>11 DEF Guest!Exit, GuestInv, GuestType, OwnHold, OwnEntry, Entries, Guest!Referenced
<1>12. CASE UNCHANGED sessionVars
  BY <1>12 DEF sessionVars, GuestInv, GuestType, OwnHold, OwnEntry, Entries, Guest!Referenced
<1> QED
  BY <1>1, <1>2, <1>3, <1>4, <1>5, <1>6, <1>7, <1>8, <1>9, <1>10, <1>11, <1>12 DEF Guest!Next

\* The active sessions the guest agent reports are the entries of its table, and
\* no process runs on that neither the entry nor a handler of its session
\* refers to, for any number of sessions, processes and overlapping requests.
THEOREM GuestSessionsAreCounted == OutsideSpec => []SessionsAreCounted
<1>1. OutsideInit => GuestInv
  BY GuestInit DEF OutsideInit
<1>2. [OutsideNext]_outsideVars => [Guest!Next]_sessionVars
  BY DEF OutsideNext, outsideVars, guestVars
<1> QED
  BY <1>1, <1>2, GuestCounted, GuestStep, PTL DEF OutsideSpec

-----------------------------------------------------------------------------
(* The workspace manager *)

WorkspaceType ==
    /\ row \in [Workspace!Rows -> [state : Workspace!RowStates, known : BOOLEAN]]
    /\ box \in [Workspace!Rows -> Workspace!Boxes]
    /\ ensure \in [Ensures -> [pc : {"idle", "probe", "create", "box", "start", "publish", "clean",
                                     "mark", "returned", "failed"},
                               row : Workspace!Made \cup {Workspace!NoRow}]]
    /\ stop \in [Stops -> [pc : {"idle", "stop", "remove", "write", "done"},
                           row : Workspace!Made \cup {Workspace!NoRow},
                           aim : {"stopped", "reaped"}, known : BOOLEAN]]
    /\ overlapped \in BOOLEAN /\ leaked \in BOOLEAN

Ensuring(e) == ensure[e].pc \notin {"idle", "returned", "failed"}
Stopping(s) == stop[s].pc \notin {"idle", "done"}

OneAtATime ==
    /\ \A e, f \in Ensures : Ensuring(e) /\ Ensuring(f) => e = f
    /\ \A s, t \in Stops : Stopping(s) /\ Stopping(t) => s = t
    /\ \A e \in Ensures, s \in Stops : ~(Ensuring(e) /\ Stopping(s))

\* Only the container of the newest row runs: the row names it, or a boot still
\* holds it.  A boot begins when none runs, and works on the newest row.
NewestRuns(n) ==
    /\ \A r \in Workspace!Rows : box[r] = "running" =>
          /\ r = n
          /\ \/ row[r].state = "running" /\ row[r].known
             \/ \E e \in Ensures : ensure[e].pc \in {"publish", "clean"} /\ ensure[e].row = r
    /\ \A e \in Ensures :
          /\ ensure[e].pc \in {"box", "start", "publish", "clean", "mark"} => ensure[e].row = n
          /\ ensure[e].pc \in {"create", "box", "start", "mark"}
                => \A r \in Workspace!Rows : box[r] # "running"
          /\ ensure[e].pc = "probe"
                => \A r \in Workspace!Rows : box[r] = "running" => ensure[e].row = r
    /\ \A s \in Stops : stop[s].pc \in {"remove", "write"} =>
          \A r \in Workspace!Rows : box[r] = "running" => stop[s].row # r

WorkspaceInv ==
    /\ WorkspaceType
    /\ ~overlapped => OneAtATime
    /\ \E n \in 0..MaxRows : /\ Workspace!Made = 1..n
                             /\ ~overlapped /\ ~leaked => NewestRuns(n)

EnsureAt == {"idle", "probe", "create", "box", "start", "publish", "clean", "mark", "returned", "failed"}
StopAt == {"idle", "stop", "remove", "write", "done"}
Boot == {"box", "start", "publish", "clean", "mark"}

LEMMA Greatest ==
  ASSUME NEW n \in Nat, NEW C \in SUBSET (1..n), C # {}
  PROVE  \E r \in C : \A q \in C : r >= q
<1> DEFINE Above(r) == {q \in C : q > r}
           T == {Above(r) : r \in C}
<1>1. IsFiniteSet(C)
  <2>1. IsFiniteSet(1..n)
    BY FS_Interval
  <2> QED
    BY <2>1, FS_Subset
<1>2. T # {} /\ T \subseteq SUBSET C
  OBVIOUS
<1>3. IsWellFoundedOn(StrictSubsetOrdering(C), SUBSET C)
  BY <1>1, FS_StrictSubsetOrderingWellFounded, FS_FiniteSubsetsOfFinite
<1> HIDE DEF T
<1>4. PICK A \in T : \A B \in T : <<B, A>> \notin StrictSubsetOrdering(C)
  BY <1>2, <1>3, WFMin
<1>5. PICK r \in C : A = Above(r)
  BY DEF T
<1>6. ASSUME NEW q \in C, q > r PROVE FALSE
  <2>1. Above(q) \in T /\ Above(q) \in SUBSET C /\ A \in SUBSET C
    BY <1>2, <1>5 DEF T
  <2>2. Above(q) \subseteq A /\ q \in A /\ q \notin Above(q)
    <3>1. q \in Nat /\ r \in Nat /\ C \subseteq Nat
      OBVIOUS
    <3>2. \A x \in C : x > q => x > r
      BY <3>1, <1>6
    <3>3. ~(q > q)
      BY <3>1
    <3>4. q \in Above(r) /\ q \notin Above(q) /\ Above(q) \subseteq Above(r)
      BY <1>6, <3>2, <3>3, Zenon
    <3> QED
      BY <1>5, <3>4
  <2>3. <<Above(q), A>> \in StrictSubsetOrdering(C)
    BY <2>1, <2>2 DEF StrictSubsetOrdering
  <2> QED
    BY <1>4, <2>1, <2>3
<1>7. \A q \in C : r >= q
  BY <1>6
<1> QED
  BY <1>7

\* ByUserId returns a row there is, and the newest when that one is not reaped.
LEMMA FoundRow ==
  ASSUME NEW n \in 0..MaxRows, Workspace!Made = 1..n
  PROVE  /\ Workspace!ByUserId \in Workspace!Made \cup {Workspace!NoRow}
         /\ n > 0 /\ row[n].state # "reaped" => Workspace!ByUserId = n
<1> DEFINE C == {r \in Workspace!Made : row[r].state # "reaped"}
           Top(r) == r \in C /\ \A q \in C : r >= q
<1>0. n \in Nat /\ C \in SUBSET (1..n)
  BY BoundsAssumption
<1>1. Workspace!ByUserId = IF C = {} THEN Workspace!NoRow ELSE CHOOSE r \in C : \A q \in C : r >= q
  BY DEF Workspace!ByUserId
<1>2. C # {} => Workspace!ByUserId \in C /\ \A q \in C : Workspace!ByUserId >= q
  BY <1>0, <1>1, Greatest
<1>3. ASSUME n > 0, row[n].state # "reaped" PROVE Workspace!ByUserId = n
  <2>1. n \in C
    BY <1>0, <1>3
  <2> QED
    BY <1>0, <1>2, <2>1
<1> QED
  BY <1>1, <1>2, <1>3

LEMMA NextRowIs ==
  ASSUME NEW n \in 0..MaxRows, Workspace!Made = 1..n
  PROVE  Workspace!NextRow = n + 1
<1>1. n \in Int /\ n >= 0
  BY BoundsAssumption
<1>2. Cardinality(1..n) = n
  BY <1>1, FS_Interval
<1>3. Workspace!Cardinality(Workspace!Made) = Cardinality(1..n)
  BY Zenon DEF Cardinality, Workspace!Cardinality
<1> QED
  BY <1>2, <1>3 DEF Workspace!NextRow

LEMMA WorkspaceInit == Workspace!Init => WorkspaceInv
<1> SUFFICES ASSUME Workspace!Init PROVE WorkspaceInv
  OBVIOUS
<1>1. Workspace!Made = {} /\ 0 \in 0..MaxRows /\ 1..0 = {}
  BY BoundsAssumption DEF Workspace!Init, Workspace!Made
<1> QED
  BY <1>1 DEF Workspace!Init, WorkspaceInv, WorkspaceType, OneAtATime, NewestRuns, Ensuring, Stopping,
              Workspace!RowStates, Workspace!Boxes

\* A row that was made stays made.
LEMMA RowsStay ==
  ASSUME WorkspaceType, NEW r \in Workspace!Made \cup {Workspace!NoRow},
         NEW x \in [state : Workspace!RowStates, known : BOOLEAN], x.state # "none",
         row' = [row EXCEPT ![r] = x]
  PROVE  Workspace!Made' = Workspace!Made /\ row' \in [Workspace!Rows -> [state : Workspace!RowStates, known : BOOLEAN]]
<1>1. ASSUME NEW q \in Workspace!Rows PROVE row'[q] = IF q = r THEN x ELSE row[q]
  BY DEF WorkspaceType
<1>2. row' \in [Workspace!Rows -> [state : Workspace!RowStates, known : BOOLEAN]]
  BY DEF WorkspaceType
<1>3. r \in Workspace!Rows => row[r].state # "none"
  BY DEF Workspace!Made, Workspace!NoRow, Workspace!Rows
<1> QED
  BY <1>1, <1>2, <1>3 DEF Workspace!Made

\* A step of an ensure that is under way.
LEMMA EnsureGoesOn ==
  ASSUME WorkspaceInv, NEW e \in Ensures, Ensuring(e),
         NEW n \in 0..MaxRows, Workspace!Made = 1..n,
         NEW m \in 0..MaxRows, Workspace!Made' = 1..m, n <= m,
         NEW new \in [pc : EnsureAt, row : Workspace!Made' \cup {Workspace!NoRow}],
         ensure' = [ensure EXCEPT ![e] = new], UNCHANGED <<stop, overlapped>>,
         leaked' \in {leaked, TRUE},
         row' \in [Workspace!Rows -> [state : Workspace!RowStates, known : BOOLEAN]],
         box' \in [Workspace!Rows -> Workspace!Boxes],
         ~overlapped /\ ~leaked' =>
            /\ \A r \in Workspace!Rows : box'[r] = "running" =>
                  r = m /\ \/ row'[r].state = "running" /\ row'[r].known
                           \/ new.pc \in {"publish", "clean"} /\ new.row = r
            /\ new.pc \in Boot => new.row = m
            /\ new.pc \in {"create", "box", "start", "mark"} => \A r \in Workspace!Rows : box'[r] # "running"
            /\ new.pc # "probe"
  PROVE  WorkspaceInv'
<1>0. \A f \in Ensures : ensure'[f] = IF f = e THEN new ELSE ensure[f]
  BY DEF WorkspaceInv, WorkspaceType
<1>1. WorkspaceType'
  <2>1. ensure' \in [Ensures -> [pc : EnsureAt, row : Workspace!Made' \cup {Workspace!NoRow}]]
    <3>1. \A f \in Ensures : ensure[f] \in [pc : EnsureAt, row : Workspace!Made \cup {Workspace!NoRow}]
      BY DEF WorkspaceInv, WorkspaceType, EnsureAt
    <3>2. Workspace!Made \subseteq Workspace!Made'
      BY BoundsAssumption
    <3> QED
      BY <1>0, <3>1, <3>2 DEF WorkspaceInv, WorkspaceType
  <2>2. stop' \in [Stops -> [pc : StopAt, row : Workspace!Made' \cup {Workspace!NoRow},
                             aim : {"stopped", "reaped"}, known : BOOLEAN]]
    <3>1. stop \in [Stops -> [pc : StopAt, row : Workspace!Made \cup {Workspace!NoRow},
                             aim : {"stopped", "reaped"}, known : BOOLEAN]]
      BY DEF WorkspaceInv, WorkspaceType, StopAt
    <3>2. Workspace!Made \subseteq Workspace!Made'
      BY BoundsAssumption
    <3> QED
      BY <3>1, <3>2
  <2>3. overlapped' \in BOOLEAN /\ leaked' \in BOOLEAN
    BY DEF WorkspaceInv, WorkspaceType
  <2> QED
    BY <2>1, <2>2, <2>3 DEF WorkspaceType, EnsureAt, StopAt, Workspace!NoRow
<1>2. ASSUME ~overlapped
      PROVE  /\ \A f \in Ensures : f # e => ~Ensuring(f) /\ ~Ensuring(f)'
             /\ \A s \in Stops : ~Stopping(s) /\ ~Stopping(s)'
  BY <1>0, <1>2 DEF WorkspaceInv, OneAtATime, Ensuring, Stopping
<1>3. ~overlapped' => OneAtATime'
  BY <1>2 DEF OneAtATime
<1>4. ASSUME ~overlapped', ~leaked' PROVE NewestRuns(m)'
  <2>1. \A f \in Ensures : f # e => ensure'[f].pc \in {"idle", "returned", "failed"}
    BY <1>2, <1>4 DEF Ensuring
  <2>2. \A s \in Stops : stop'[s].pc \in {"idle", "done"}
    BY <1>2, <1>4 DEF Stopping
  <2>3. ensure'[e] = new
    BY <1>0
  <2> QED
    BY <1>4, <2>1, <2>2, <2>3 DEF NewestRuns, Boot
<1> QED
  BY <1>1, <1>3, <1>4 DEF WorkspaceInv

LEMMA EnsureStep ==
  ASSUME WorkspaceInv, NEW e \in Ensures,
         \/ Workspace!Find(e) \/ Workspace!Reattach(e) \/ Workspace!Replace(e) \/ Workspace!ProbeFails(e)
         \/ Workspace!CreateRow(e) \/ Workspace!CreateBox(e) \/ Workspace!StartBox(e)
         \/ Workspace!Publish(e) \/ Workspace!BootFails(e) \/ Workspace!Clean(e) \/ Workspace!Mark(e)
         \/ Workspace!AskAgain(e)
  PROVE  WorkspaceInv'
<1> DEFINE Calm == ~overlapped /\ ~leaked
           RowRecord == [state : Workspace!RowStates, known : BOOLEAN]
<1>t. /\ WorkspaceType /\ ensure[e] \in [pc : EnsureAt, row : Workspace!Made \cup {Workspace!NoRow}]
      /\ Workspace!NoRow \notin Workspace!Rows
  BY DEF WorkspaceInv, WorkspaceType, EnsureAt, Workspace!NoRow, Workspace!Rows
<1>n. PICK n \in 0..MaxRows : Workspace!Made = 1..n /\ (Calm => NewestRuns(n))
  BY DEF WorkspaceInv
<1>m. n \in Nat /\ Workspace!Made \subseteq Workspace!Rows
  BY BoundsAssumption DEF Workspace!Made
\* While it works alone, no container runs that its row does not name but its own.
<1>a. ASSUME Ensuring(e), Calm
      PROVE  /\ \A f \in Ensures : f # e => ensure[f].pc \in {"idle", "returned", "failed"}
             /\ \A r \in Workspace!Rows : box[r] = "running" =>
                   r = n /\ \/ row[r].state = "running" /\ row[r].known
                            \/ ensure[e].pc \in {"publish", "clean"} /\ ensure[e].row = r
             /\ ensure[e].pc \in Boot => ensure[e].row = n
             /\ ensure[e].pc \in {"create", "box", "start", "mark"} => \A r \in Workspace!Rows : box[r] # "running"
             /\ ensure[e].pc = "probe" => \A r \in Workspace!Rows : box[r] = "running" => ensure[e].row = r
  <2>1. \A f \in Ensures : f # e => ensure[f].pc \in {"idle", "returned", "failed"}
    BY <1>a DEF WorkspaceInv, OneAtATime, Ensuring
  <2> QED
    BY <1>a, <1>n, <2>1 DEF NewestRuns, Boot
\* Rows and containers stay; only the call goes on.
<1>g. ASSUME Ensuring(e), NEW new \in [pc : EnsureAt, row : Workspace!Made \cup {Workspace!NoRow}],
             ensure' = [ensure EXCEPT ![e] = new], UNCHANGED <<row, box, stop, overlapped, leaked>>,
             Calm => /\ new.pc \in Boot => new.row = n
                     /\ new.pc \in {"create", "box", "start", "mark"} => \A r \in Workspace!Rows : box[r] # "running"
                     /\ new.pc # "probe"
                     /\ \A r \in Workspace!Rows : box[r] = "running" =>
                           \/ row[r].state = "running" /\ row[r].known
                           \/ new.pc \in {"publish", "clean"} /\ new.row = r
      PROVE  WorkspaceInv'
  <2>1. Workspace!Made' = Workspace!Made
    BY <1>g DEF Workspace!Made
  <2>2. new \in [pc : EnsureAt, row : Workspace!Made' \cup {Workspace!NoRow}]
    BY <1>g, <2>1
  <2>3. row' \in [Workspace!Rows -> RowRecord] /\ box' \in [Workspace!Rows -> Workspace!Boxes]
    BY <1>g, <1>t DEF WorkspaceType
  <2>4. ~overlapped /\ ~leaked' =>
            /\ \A r \in Workspace!Rows : box'[r] = "running" =>
                  r = n /\ \/ row'[r].state = "running" /\ row'[r].known
                           \/ new.pc \in {"publish", "clean"} /\ new.row = r
            /\ new.pc \in Boot => new.row = n
            /\ new.pc \in {"create", "box", "start", "mark"} => \A r \in Workspace!Rows : box'[r] # "running"
            /\ new.pc # "probe"
    BY <1>g, <1>a
  <2>5. n <= n /\ Workspace!Made' = 1..n
    BY <1>m, <1>n, <2>1
  <2> QED
    BY <1>g, <1>n, <2>2, <2>3, <2>4, <2>5, EnsureGoesOn
\* The looking comes first: what was not under way is.
<1>1. CASE Workspace!Find(e)
  <2> DEFINE found == Workspace!ByUserId
             new == IF found # Workspace!NoRow /\ row[found].state \in Workspace!LiveStates
                      THEN [pc |-> "probe", row |-> found] ELSE [pc |-> "create", row |-> Workspace!NoRow]
  <2>1. /\ ensure[e].pc = "idle" /\ ensure' = [ensure EXCEPT ![e] = new]
        /\ overlapped' = (overlapped \/ Workspace!Busy) /\ UNCHANGED <<row, box, stop, leaked>>
    BY <1>1 DEF Workspace!Find
  <2>2. found \in Workspace!Made \cup {Workspace!NoRow} /\ (n > 0 /\ row[n].state # "reaped" => found = n)
    BY <1>n, FoundRow
  <2>3. new \in [pc : EnsureAt, row : Workspace!Made \cup {Workspace!NoRow}]
    BY <2>2 DEF EnsureAt
  <2>4. Workspace!Made' = Workspace!Made
    BY <2>1 DEF Workspace!Made
  <2>5. \A f \in Ensures : ensure'[f] = IF f = e THEN new ELSE ensure[f]
    BY <2>1, <1>t DEF WorkspaceType
  <2>6. new.pc \in {"probe", "create"}
    OBVIOUS
  <2>7. ASSUME Calm, NEW r \in Workspace!Rows, box[r] = "running", ~Workspace!Busy
        PROVE  new.pc = "probe" /\ new.row = r
    <3>1. r = n /\ row[r].state = "running" /\ r # 0 /\ r > 0
      BY <2>7, <1>n DEF NewestRuns, Workspace!Busy, Workspace!Rows
    <3>2. found = r
      BY <2>2, <3>1
    <3> QED
      BY <3>1, <3>2 DEF Workspace!LiveStates, Workspace!NoRow
  <2> HIDE DEF new, found
  <2>8. WorkspaceType'
    BY <2>1, <2>3, <2>4, <1>t DEF WorkspaceType, EnsureAt
  <2>9. ASSUME ~overlapped' PROVE /\ ~overlapped /\ ~Workspace!Busy
                                  /\ \A f \in Ensures : ~Ensuring(f)
                                  /\ \A s \in Stops : ~Stopping(s) /\ ~Stopping(s)'
    BY <2>1, <2>9, <1>t DEF Workspace!Busy, Ensuring, Stopping, WorkspaceType
  <2>10. ~overlapped' => OneAtATime'
    BY <2>5, <2>9 DEF OneAtATime, Ensuring
  <2>11. ASSUME ~overlapped', ~leaked' PROVE NewestRuns(n)'
    <3>1. \A f \in Ensures : f # e => ensure'[f].pc \in {"idle", "returned", "failed"}
      BY <2>5, <2>9, <2>11 DEF Ensuring
    <3>2. \A s \in Stops : stop'[s].pc \in {"idle", "done"}
      BY <2>9, <2>11 DEF Stopping
    <3>3. Calm /\ \A r \in Workspace!Rows : box[r] = "running" =>
                       r = n /\ row[r].state = "running" /\ row[r].known
      BY <2>1, <2>9, <2>11, <1>n DEF NewestRuns, Ensuring
    <3>4. ensure'[e] = new
      BY <2>5
    <3> QED
      BY <2>1, <2>6, <2>7, <2>9, <2>11, <3>1, <3>2, <3>3, <3>4 DEF NewestRuns
  <2> QED
    BY <1>n, <2>4, <2>8, <2>10, <2>11 DEF WorkspaceInv
<1>2. CASE Workspace!Reattach(e)
  <2> DEFINE new == [ensure[e] EXCEPT !.pc = "returned"]
  <2>1. /\ ensure[e].pc = "probe" /\ ensure' = [ensure EXCEPT ![e] = new] /\ Ensuring(e)
        /\ UNCHANGED <<row, box, stop, overlapped, leaked>>
    BY <1>2 DEF Workspace!Reattach, Workspace!Goto, Ensuring
  <2>2. new \in [pc : EnsureAt, row : Workspace!Made \cup {Workspace!NoRow}] /\ new.pc = "returned"
    BY <1>t DEF EnsureAt
  <2> HIDE DEF new
  <2> QED
    BY <2>1, <2>2, <1>a, <1>g DEF Boot
<1>3. CASE Workspace!Replace(e)
  <2> DEFINE new == [pc |-> "create", row |-> Workspace!NoRow]
  <2>1. /\ ensure[e].pc = "probe" /\ ensure' = [ensure EXCEPT ![e] = new] /\ Ensuring(e)
        /\ UNCHANGED <<row, box, stop, overlapped, leaked>> /\ ~Workspace!Alive(ensure[e].row)
    BY <1>3 DEF Workspace!Replace, Ensuring
  <2>2. new \in [pc : EnsureAt, row : Workspace!Made \cup {Workspace!NoRow}] /\ new.pc = "create"
    BY DEF EnsureAt
  <2>3. Calm => \A r \in Workspace!Rows : box[r] # "running"
    BY <2>1, <1>a DEF Workspace!Alive
  <2> HIDE DEF new
  <2> QED
    BY <2>1, <2>2, <2>3, <1>g DEF Boot
<1>4. CASE Workspace!ProbeFails(e)
  <2> DEFINE new == [ensure[e] EXCEPT !.pc = "failed"]
  <2>1. /\ ensure[e].pc \in {"probe", "create"} /\ ensure' = [ensure EXCEPT ![e] = new] /\ Ensuring(e)
        /\ UNCHANGED <<row, box, stop, overlapped, leaked>>
    BY <1>4 DEF Workspace!ProbeFails, Workspace!Goto, Ensuring
  <2>2. new \in [pc : EnsureAt, row : Workspace!Made \cup {Workspace!NoRow}] /\ new.pc = "failed"
    BY <1>t DEF EnsureAt
  <2> HIDE DEF new
  <2> QED
    BY <2>1, <2>2, <1>a, <1>g DEF Boot
<1>5. CASE Workspace!CreateRow(e)
  <2> DEFINE m == n + 1
             new == [pc |-> "box", row |-> m]
  <2>1. /\ ensure[e].pc = "create" /\ ensure' = [ensure EXCEPT ![e] = new] /\ Ensuring(e)
        /\ UNCHANGED <<box, stop, overlapped, leaked>> /\ m \in Workspace!Rows
        /\ row' = [row EXCEPT ![m].state = "provisioning"]
    BY <1>5, <1>n, NextRowIs DEF Workspace!CreateRow, Ensuring
  <2>2. /\ row' \in [Workspace!Rows -> RowRecord]
        /\ \A r \in Workspace!Rows : row'[r].state = IF r = m THEN "provisioning" ELSE row[r].state
    BY <2>1, <1>t DEF WorkspaceType, Workspace!RowStates
  <2>3. m \in 0..MaxRows /\ n <= m /\ 1..m = (1..n) \cup {m}
    BY <2>1, <1>m DEF Workspace!Rows
  <2>4. Workspace!Made' = 1..m
    BY <2>1, <2>2, <2>3, <1>n DEF Workspace!Made
  <2>5. new \in [pc : EnsureAt, row : Workspace!Made' \cup {Workspace!NoRow}] /\ new.pc = "box" /\ new.row = m
    BY <2>3, <2>4 DEF EnsureAt
  <2>6. box' \in [Workspace!Rows -> Workspace!Boxes] /\ leaked' \in {leaked, TRUE}
    BY <2>1, <1>t DEF WorkspaceType
  <2>7. Calm => \A r \in Workspace!Rows : box'[r] # "running"
    BY <2>1, <1>a
  <2> HIDE DEF new, m
  <2> QED
    BY <2>1, <2>2, <2>3, <2>4, <2>5, <2>6, <2>7, <1>n, EnsureGoesOn DEF Boot
\* Every later step works on the newest row; n stays.
<1>b. ASSUME Ensuring(e), NEW new \in [pc : EnsureAt, row : Workspace!Made \cup {Workspace!NoRow}],
             ensure' = [ensure EXCEPT ![e] = new], UNCHANGED <<stop, overlapped>>, leaked' \in {leaked, TRUE},
             Workspace!Made' = Workspace!Made, row' \in [Workspace!Rows -> RowRecord],
             box' \in [Workspace!Rows -> Workspace!Boxes], new.row = ensure[e].row,
             ensure[e].pc \in Boot, new.pc # "create", new.pc # "probe",
             ~overlapped /\ ~leaked' =>
                /\ \A r \in Workspace!Rows : box'[r] = "running" =>
                      r = n /\ \/ row'[r].state = "running" /\ row'[r].known
                               \/ new.pc \in {"publish", "clean"} /\ new.row = r
                /\ new.pc \in {"box", "start", "mark"} => \A r \in Workspace!Rows : box'[r] # "running"
      PROVE  WorkspaceInv'
  <2>0. ~overlapped /\ ~leaked' => Calm
    BY <1>b, <1>t DEF WorkspaceType
  <2>1. ~overlapped /\ ~leaked' => ensure[e].row = n
    BY <1>a, <1>b, <2>0
  <2>4. ~overlapped /\ ~leaked' =>
            /\ \A r \in Workspace!Rows : box'[r] = "running" =>
                  r = n /\ \/ row'[r].state = "running" /\ row'[r].known
                           \/ new.pc \in {"publish", "clean"} /\ new.row = r
            /\ new.pc \in Boot => new.row = n
            /\ new.pc \in {"create", "box", "start", "mark"} => \A r \in Workspace!Rows : box'[r] # "running"
            /\ new.pc # "probe"
    BY <1>b, <2>1
  <2>2. new \in [pc : EnsureAt, row : Workspace!Made' \cup {Workspace!NoRow}] /\ n <= n
    BY <1>b, <1>m
  <2>3. Workspace!Made' = 1..n
    BY <1>b, <1>n
  <2> QED
    BY <1>b, <1>n, <2>2, <2>3, <2>4, EnsureGoesOn
<1>6. CASE Workspace!CreateBox(e)
  <2> DEFINE new == [ensure[e] EXCEPT !.pc = "start"]
  <2>1. /\ ensure[e].pc = "box" /\ ensure' = [ensure EXCEPT ![e] = new] /\ Ensuring(e)
        /\ UNCHANGED <<row, stop, overlapped, leaked>> /\ box' = [box EXCEPT ![ensure[e].row] = "created"]
    BY <1>6 DEF Workspace!CreateBox, Workspace!Goto, Ensuring
  <2>2. /\ new \in [pc : EnsureAt, row : Workspace!Made \cup {Workspace!NoRow}]
        /\ new.pc = "start" /\ new.row = ensure[e].row
    BY <1>t DEF EnsureAt
  <2>3. /\ box' \in [Workspace!Rows -> Workspace!Boxes] /\ row' \in [Workspace!Rows -> RowRecord]
        /\ Workspace!Made' = Workspace!Made
    BY <2>1, <1>t DEF WorkspaceType, Workspace!Boxes, Workspace!Made
  <2>4. Calm => \A r \in Workspace!Rows : box'[r] # "running"
    BY <2>1, <1>a, <1>t DEF WorkspaceType
  <2> HIDE DEF new
  <2> QED
    BY <2>1, <2>2, <2>3, <2>4, <1>b DEF Boot
<1>7. CASE Workspace!StartBox(e)
  <2> DEFINE new == [ensure[e] EXCEPT !.pc = "publish"]
             own == ensure[e].row
  <2>1. /\ ensure[e].pc = "start" /\ ensure' = [ensure EXCEPT ![e] = new] /\ Ensuring(e)
        /\ UNCHANGED <<row, stop, overlapped, leaked>>
        /\ box' = [box EXCEPT ![own] = IF box[own] = "created" THEN "running" ELSE box[own]]
    BY <1>7 DEF Workspace!StartBox, Workspace!Goto, Ensuring
  <2>2. /\ new \in [pc : EnsureAt, row : Workspace!Made \cup {Workspace!NoRow}]
        /\ new.pc = "publish" /\ new.row = own
    BY <1>t DEF EnsureAt
  <2>3. /\ box' \in [Workspace!Rows -> Workspace!Boxes] /\ row' \in [Workspace!Rows -> RowRecord]
        /\ Workspace!Made' = Workspace!Made
    BY <2>1, <1>t DEF WorkspaceType, Workspace!Boxes, Workspace!Made
  <2>4. ASSUME Calm, NEW r \in Workspace!Rows, box'[r] = "running" PROVE r = own /\ r = n
    <3>1. box[r] # "running" /\ own = n
      BY <2>1, <2>4, <1>a DEF Boot
    <3> QED
      BY <2>1, <2>4, <3>1, <1>t DEF WorkspaceType
  <2> HIDE DEF new, own
  <2> QED
    BY <2>1, <2>2, <2>3, <2>4, <1>b DEF Boot, own
<1>8. CASE Workspace!Publish(e)
  <2> DEFINE new == [ensure[e] EXCEPT !.pc = "returned"]
             own == ensure[e].row
             x == [state |-> "running", known |-> TRUE]
  <2>1. /\ ensure[e].pc = "publish" /\ ensure' = [ensure EXCEPT ![e] = new] /\ Ensuring(e)
        /\ UNCHANGED <<box, stop, overlapped, leaked>> /\ row' = [row EXCEPT ![own] = x]
    BY <1>8 DEF Workspace!Publish, Workspace!Goto, Ensuring
  <2>2. /\ new \in [pc : EnsureAt, row : Workspace!Made \cup {Workspace!NoRow}]
        /\ new.pc = "returned" /\ new.row = own
    BY <1>t DEF EnsureAt
  <2>3. own \in Workspace!Made \cup {Workspace!NoRow} /\ x \in RowRecord /\ x.state # "none"
    BY <1>t DEF Workspace!RowStates
  <2>4. row' \in [Workspace!Rows -> RowRecord] /\ Workspace!Made' = Workspace!Made
    BY <2>1, <2>3, <1>t, RowsStay
  <2>5. box' \in [Workspace!Rows -> Workspace!Boxes]
    BY <2>1, <1>t DEF WorkspaceType
  <2>6. ASSUME Calm, NEW r \in Workspace!Rows, box'[r] = "running"
        PROVE  r = n /\ row'[r].state = "running" /\ row'[r].known
    <3>1. r = n /\ own = n
      BY <2>1, <2>6, <1>a DEF Boot
    <3> QED
      BY <2>1, <3>1, <1>t DEF WorkspaceType
  <2> HIDE DEF new, own, x
  <2> QED
    BY <2>1, <2>2, <2>4, <2>5, <2>6, <1>b DEF Boot, own
<1>9. CASE Workspace!BootFails(e)
  <2> DEFINE new == [ensure[e] EXCEPT !.pc = IF ensure[e].pc = "box" THEN "mark" ELSE "clean"]
  <2>1. /\ ensure[e].pc \in {"box", "start", "publish"} /\ ensure' = [ensure EXCEPT ![e] = new]
        /\ UNCHANGED <<row, box, stop, overlapped, leaked>> /\ Ensuring(e)
    BY <1>9 DEF Workspace!BootFails, Workspace!Goto, Ensuring
  <2>2. /\ new \in [pc : EnsureAt, row : Workspace!Made \cup {Workspace!NoRow}]
        /\ new.pc = (IF ensure[e].pc = "box" THEN "mark" ELSE "clean") /\ new.row = ensure[e].row
    BY <1>t DEF EnsureAt
  <2> HIDE DEF new
  <2> QED
    BY <2>1, <2>2, <1>a, <1>g DEF Boot
<1>10. CASE Workspace!Clean(e)
  <2> DEFINE new == [ensure[e] EXCEPT !.pc = "mark"]
             own == ensure[e].row
  <2>1. /\ ensure[e].pc = "clean" /\ ensure' = [ensure EXCEPT ![e] = new] /\ Ensuring(e)
        /\ UNCHANGED <<row, stop, overlapped>>
        /\ \/ box' = [box EXCEPT ![own] = "none"] /\ UNCHANGED leaked
           \/ leaked' = TRUE /\ UNCHANGED box
    BY <1>10 DEF Workspace!Clean, Workspace!Goto, Ensuring
  <2>2. /\ new \in [pc : EnsureAt, row : Workspace!Made \cup {Workspace!NoRow}]
        /\ new.pc = "mark" /\ new.row = own
    BY <1>t DEF EnsureAt
  <2>3. /\ box' \in [Workspace!Rows -> Workspace!Boxes] /\ row' \in [Workspace!Rows -> RowRecord]
        /\ Workspace!Made' = Workspace!Made /\ leaked' \in {leaked, TRUE}
    BY <2>1, <1>t DEF WorkspaceType, Workspace!Boxes, Workspace!Made
  <2>4. ASSUME ~overlapped, ~leaked', NEW r \in Workspace!Rows PROVE box'[r] # "running"
    <3>1. Calm /\ box' = [box EXCEPT ![own] = "none"]
      BY <2>1, <2>4
    <3>2. own = n /\ (box[r] = "running" => r = n)
      BY <2>1, <3>1, <1>a DEF Boot
    <3> QED
      BY <3>1, <3>2, <1>t DEF WorkspaceType
  <2> HIDE DEF new, own
  <2> QED
    BY <2>1, <2>2, <2>3, <2>4, <1>b DEF Boot, own
<1>11. CASE Workspace!Mark(e)
  <2> DEFINE new == [ensure[e] EXCEPT !.pc = "failed"]
             own == ensure[e].row
             x == [row[own] EXCEPT !.state = "failed"]
  <2>1. /\ ensure[e].pc = "mark" /\ ensure' = [ensure EXCEPT ![e] = new] /\ Ensuring(e)
        /\ UNCHANGED <<box, stop, overlapped, leaked>>
        /\ row' = [row EXCEPT ![own] = x] \/ UNCHANGED row
    BY <1>11 DEF Workspace!Mark, Workspace!Goto, Ensuring
  <2>2. /\ new \in [pc : EnsureAt, row : Workspace!Made \cup {Workspace!NoRow}]
        /\ new.pc = "failed" /\ new.row = own
    BY <1>t DEF EnsureAt
  <2>3. row' \in [Workspace!Rows -> RowRecord] /\ Workspace!Made' = Workspace!Made
    <3>1. CASE UNCHANGED row
      BY <3>1, <1>t DEF WorkspaceType, Workspace!Made
    <3>2. CASE row' = [row EXCEPT ![own] = x] /\ own = Workspace!NoRow
      <4>1. row' = row
        BY <3>2, <1>t DEF WorkspaceType
      <4> QED
        BY <4>1, <1>t DEF WorkspaceType, Workspace!Made
    <3>3. CASE row' = [row EXCEPT ![own] = x] /\ own \in Workspace!Made
      <4>1. x \in RowRecord /\ x.state # "none"
        BY <3>3, <1>t, <1>m DEF WorkspaceType, Workspace!RowStates
      <4> QED
        BY <3>3, <4>1, <1>t, RowsStay
    <3> QED
      BY <2>1, <3>1, <3>2, <3>3, <1>t
  <2>4. box' \in [Workspace!Rows -> Workspace!Boxes] /\ leaked' \in {leaked, TRUE}
    BY <2>1, <1>t DEF WorkspaceType
  <2>5. Calm => \A r \in Workspace!Rows : box'[r] # "running"
    BY <2>1, <1>a
  <2> HIDE DEF new, own, x
  <2> QED
    BY <2>1, <2>2, <2>3, <2>4, <2>5, <1>b DEF Boot, own
<1>12. CASE Workspace!AskAgain(e)
  <2> DEFINE new == [pc |-> "idle", row |-> Workspace!NoRow]
  <2>1. /\ ensure[e].pc \in {"returned", "failed"} /\ ensure' = [ensure EXCEPT ![e] = new]
        /\ UNCHANGED <<row, box, stop, overlapped, leaked>>
    BY <1>12 DEF Workspace!AskAgain
  <2>2. /\ new \in [pc : EnsureAt, row : Workspace!Made \cup {Workspace!NoRow}]
        /\ new.pc = "idle"
    BY DEF EnsureAt
  <2> HIDE DEF new
  <2>3. \A f \in Ensures : ensure'[f] = IF f = e THEN new ELSE ensure[f]
    BY <2>1, <1>t DEF WorkspaceType
  <2>4. WorkspaceType' /\ Workspace!Made' = Workspace!Made
    BY <2>1, <2>2, <1>t DEF WorkspaceType, EnsureAt, Workspace!Made
  <2>5. ~overlapped' => OneAtATime'
    BY <2>1, <2>2, <2>3 DEF WorkspaceInv, OneAtATime, Ensuring, Stopping
  <2>6. Calm => NewestRuns(n)'
    <3> SUFFICES ASSUME Calm PROVE NewestRuns(n)'
      OBVIOUS
    <3>1. \A f \in Ensures : ensure'[f] = ensure[f] \/ (f = e /\ ensure'[f].pc = "idle")
      BY <2>2, <2>3
    <3>2. \A f \in Ensures : ensure[f].pc \in {"publish", "clean"} => ensure'[f] = ensure[f]
      BY <2>1, <2>3
    <3> QED
      BY <2>1, <3>1, <3>2, <1>n DEF NewestRuns
  <2> QED
    BY <2>1, <2>4, <2>5, <2>6, <1>n DEF WorkspaceInv
<1> QED
  BY <1>1, <1>2, <1>3, <1>4, <1>5, <1>6, <1>7, <1>8, <1>9, <1>10, <1>11, <1>12

LEMMA StopStep ==
  ASSUME WorkspaceInv, NEW s \in Stops,
         \/ \E r \in Workspace!Rows, aim \in {"stopped", "reaped"} : Workspace!StopBegins(s, r, aim)
         \/ Workspace!StopBox(s) \/ Workspace!RemoveBox(s) \/ Workspace!StopFails(s) \/ Workspace!StopWrites(s)
  PROVE  WorkspaceInv'
<1> DEFINE Calm == ~overlapped /\ ~leaked
           RowRecord == [state : Workspace!RowStates, known : BOOLEAN]
           StopRecord == [pc : StopAt, row : Workspace!Made \cup {Workspace!NoRow},
                          aim : {"stopped", "reaped"}, known : BOOLEAN]
           own == stop[s].row
<1>t. WorkspaceType /\ stop[s] \in StopRecord
  BY DEF WorkspaceInv, WorkspaceType, StopAt
<1>n. PICK n \in 0..MaxRows : Workspace!Made = 1..n /\ (Calm => NewestRuns(n))
  BY DEF WorkspaceInv
\* A step of a stop that is under way: a container runs only if it did.
<1>g. ASSUME Stopping(s), NEW new \in StopRecord, stop' = [stop EXCEPT ![s] = new],
             UNCHANGED <<ensure, overlapped, leaked>>, Workspace!Made' = Workspace!Made,
             row' \in [Workspace!Rows -> RowRecord], box' \in [Workspace!Rows -> Workspace!Boxes],
             \A r \in Workspace!Rows : box'[r] = "running" => box[r] = "running",
             Calm => /\ \A r \in Workspace!Rows : box'[r] = "running" => row'[r] = row[r]
                     /\ new.pc \in {"remove", "write"} =>
                           \A r \in Workspace!Rows : box'[r] = "running" => new.row # r
      PROVE  WorkspaceInv'
  <2>1. \A t \in Stops : stop'[t] = IF t = s THEN new ELSE stop[t]
    BY <1>g, <1>t DEF WorkspaceType
  <2>2. WorkspaceType'
    BY <1>g, <1>t DEF WorkspaceType, StopAt
  <2>3. ~overlapped => /\ \A e \in Ensures : ~Ensuring(e) /\ ~Ensuring(e)'
                       /\ \A t \in Stops : t # s => ~Stopping(t) /\ ~Stopping(t)'
    BY <1>g, <2>1 DEF WorkspaceInv, OneAtATime, Ensuring, Stopping
  <2>4. ~overlapped' => OneAtATime'
    BY <1>g, <2>3 DEF OneAtATime
  <2>5. Calm => NewestRuns(n)'
    <3> SUFFICES ASSUME Calm PROVE NewestRuns(n)'
      OBVIOUS
    <3>1. \A t \in Stops : t # s => stop'[t].pc \notin {"remove", "write"}
      BY <2>3 DEF Stopping
    <3> QED
      BY <1>g, <2>1, <3>1, <1>n DEF NewestRuns
  <2> QED
    BY <1>g, <2>2, <2>4, <2>5, <1>n DEF WorkspaceInv
<1>1. ASSUME NEW r \in Workspace!Rows, NEW aim \in {"stopped", "reaped"}, Workspace!StopBegins(s, r, aim)
      PROVE  WorkspaceInv'
  <2> DEFINE new == [pc |-> IF row[r].known THEN "stop" ELSE "write",
                     row |-> r, aim |-> aim, known |-> row[r].known]
  <2>1. /\ stop[s].pc = "idle" /\ r \in Workspace!Made /\ stop' = [stop EXCEPT ![s] = new]
        /\ overlapped' = (overlapped \/ Workspace!Busy) /\ UNCHANGED <<row, box, ensure, leaked>>
    BY <1>1 DEF Workspace!StopBegins
  <2>2. new \in StopRecord /\ new.pc = (IF row[r].known THEN "stop" ELSE "write") /\ new.row = r
    BY <2>1, <1>t DEF WorkspaceType, StopAt
  <2> HIDE DEF new
  <2>3. \A t \in Stops : stop'[t] = IF t = s THEN new ELSE stop[t]
    BY <2>1, <1>t DEF WorkspaceType
  <2>4. WorkspaceType' /\ Workspace!Made' = Workspace!Made
    BY <2>1, <2>2, <1>t DEF WorkspaceType, StopAt, Workspace!Made
  <2>5. ASSUME ~overlapped' PROVE /\ ~overlapped /\ ~Workspace!Busy
                                  /\ \A e \in Ensures : ~Ensuring(e) /\ ~Ensuring(e)'
                                  /\ \A t \in Stops : t # s => ~Stopping(t) /\ ~Stopping(t)'
    BY <2>1, <2>3, <2>5, <1>t DEF Workspace!Busy, Ensuring, Stopping, WorkspaceType
  <2>6. ~overlapped' => OneAtATime'
    <3> SUFFICES ASSUME ~overlapped' PROVE OneAtATime'
      OBVIOUS
    <3>1. /\ \A e \in Ensures : ~Ensuring(e)'
          /\ \A t \in Stops : t # s => ~Stopping(t)'
      BY <2>5
    <3> QED
      BY <3>1 DEF OneAtATime
  <2>7. ASSUME ~overlapped', ~leaked' PROVE NewestRuns(n)'
    <3>1. Calm /\ \A q \in Workspace!Rows : box[q] = "running" =>
                       q = n /\ row[q].state = "running" /\ row[q].known
      BY <2>1, <2>5, <2>7, <1>n DEF NewestRuns, Ensuring
    <3>2. \A t \in Stops : t # s => stop'[t].pc \notin {"remove", "write"}
      <4>1. \A t \in Stops : t # s => ~Stopping(t)'
        BY <2>5, <2>7
      <4> QED
        BY <4>1 DEF Stopping
    <3>3. \A e \in Ensures : ensure'[e].pc \in {"idle", "returned", "failed"}
      BY <2>5, <2>7 DEF Ensuring
    <3>4. box[r] = "running" => new.pc = "stop"
      BY <2>2, <3>1
    <3> QED
      BY <2>1, <2>2, <2>3, <3>1, <3>2, <3>3, <3>4 DEF NewestRuns
  <2> QED
    BY <2>4, <2>6, <2>7, <1>n DEF WorkspaceInv
<1>2. CASE Workspace!StopBox(s)
  <2> DEFINE new(q) == [stop[s] EXCEPT !.pc = q]
  <2>1. /\ stop[s].pc = "stop" /\ Stopping(s) /\ UNCHANGED <<row, ensure, overlapped, leaked>>
        /\ \/ box[own] = "running" /\ box' = [box EXCEPT ![own] = "exited"] /\ stop' = [stop EXCEPT ![s] = new("remove")]
           \/ box[own] = "none" /\ UNCHANGED box /\ stop' = [stop EXCEPT ![s] = new("write")]
    BY <1>2 DEF Workspace!StopBox, Stopping
  <2>2. \A q \in {"remove", "write"} : new(q) \in StopRecord /\ new(q).row = own
    BY <1>t DEF StopAt
  <2>3. /\ Workspace!Made' = Workspace!Made /\ row' \in [Workspace!Rows -> RowRecord]
        /\ box' \in [Workspace!Rows -> Workspace!Boxes]
        /\ \A r \in Workspace!Rows : box'[r] = "running" => box[r] = "running" /\ r # own
    BY <2>1, <1>t DEF WorkspaceType, Workspace!Made, Workspace!Boxes
  <2> HIDE DEF new, own
  <2> QED
    BY <2>1, <2>2, <2>3, <1>g
<1>3. CASE Workspace!RemoveBox(s)
  <2> DEFINE new == [stop[s] EXCEPT !.pc = "write"]
  <2>1. /\ stop[s].pc = "remove" /\ Stopping(s) /\ UNCHANGED <<row, ensure, overlapped, leaked>>
        /\ box' = [box EXCEPT ![own] = "none"] /\ stop' = [stop EXCEPT ![s] = new]
    BY <1>3 DEF Workspace!RemoveBox, Stopping
  <2>2. new \in StopRecord /\ new.row = own
    BY <1>t DEF StopAt
  <2>3. /\ Workspace!Made' = Workspace!Made /\ row' \in [Workspace!Rows -> RowRecord]
        /\ box' \in [Workspace!Rows -> Workspace!Boxes]
        /\ \A r \in Workspace!Rows : box'[r] = "running" => box[r] = "running" /\ r # own
    BY <2>1, <1>t DEF WorkspaceType, Workspace!Made, Workspace!Boxes
  <2> HIDE DEF new, own
  <2> QED
    BY <2>1, <2>2, <2>3, <1>g
<1>4. CASE Workspace!StopFails(s)
  <2> DEFINE new == [stop[s] EXCEPT !.pc = "done"]
  <2>1. /\ Stopping(s) /\ UNCHANGED <<row, box, ensure, overlapped, leaked>> /\ stop' = [stop EXCEPT ![s] = new]
    BY <1>4 DEF Workspace!StopFails, Stopping
  <2>2. new \in StopRecord /\ new.pc = "done"
    BY <1>t DEF StopAt
  <2>3. /\ Workspace!Made' = Workspace!Made /\ row' \in [Workspace!Rows -> RowRecord]
        /\ box' \in [Workspace!Rows -> Workspace!Boxes]
    BY <2>1, <1>t DEF WorkspaceType, Workspace!Made
  <2> HIDE DEF new, own
  <2> QED
    BY <2>1, <2>2, <2>3, <1>g
<1>5. CASE Workspace!StopWrites(s)
  <2> DEFINE new == [stop[s] EXCEPT !.pc = "done"]
             x == [row[own] EXCEPT !.state = stop[s].aim]
  <2>1. /\ stop[s].pc = "write" /\ Stopping(s) /\ UNCHANGED <<box, ensure, overlapped, leaked>>
        /\ row' = [row EXCEPT ![own] = x] /\ stop' = [stop EXCEPT ![s] = new]
    BY <1>5 DEF Workspace!StopWrites, Stopping
  <2>2. new \in StopRecord /\ new.pc = "done"
    BY <1>t DEF StopAt
  <2>3. Workspace!Made' = Workspace!Made /\ row' \in [Workspace!Rows -> RowRecord]
    <3>1. CASE own = Workspace!NoRow
      <4>1. row' = row
        BY <2>1, <3>1, <1>t DEF WorkspaceType, Workspace!Rows, Workspace!NoRow
      <4> QED
        BY <4>1, <1>t DEF WorkspaceType, Workspace!Made
    <3>2. CASE own \in Workspace!Made
      <4>1. x \in RowRecord /\ x.state # "none"
        BY <3>2, <1>t DEF WorkspaceType, Workspace!RowStates, Workspace!Made
      <4> QED
        BY <2>1, <3>2, <4>1, <1>t, RowsStay
    <3> QED
      BY <3>1, <3>2, <1>t
  <2>4. box' \in [Workspace!Rows -> Workspace!Boxes]
    BY <2>1, <1>t DEF WorkspaceType
  <2>5. ASSUME Calm, NEW r \in Workspace!Rows, box'[r] = "running" PROVE row'[r] = row[r]
    <3>1. r # own
      BY <2>1, <2>5, <1>n DEF NewestRuns
    <3> QED
      BY <2>1, <3>1, <1>t DEF WorkspaceType
  <2> HIDE DEF new, own, x
  <2> QED
    BY <2>1, <2>2, <2>3, <2>4, <2>5, <1>g
<1> QED
  BY <1>1, <1>2, <1>3, <1>4, <1>5

LEMMA WorkspaceStep == WorkspaceInv /\ [Workspace!Next]_workspaceVars => WorkspaceInv'
<1> SUFFICES ASSUME WorkspaceInv, [Workspace!Next]_workspaceVars PROVE WorkspaceInv'
  OBVIOUS
<1>t. WorkspaceType
  BY DEF WorkspaceInv
<1>n. PICK n \in 0..MaxRows : Workspace!Made = 1..n /\ (~overlapped /\ ~leaked => NewestRuns(n))
  BY DEF WorkspaceInv
\* Docker ends a container or forgets it.
<1>1. ASSUME NEW r \in Workspace!Rows, Workspace!BoxDies(r) \/ Workspace!BoxRemoved(r) PROVE WorkspaceInv'
  <2>1. /\ UNCHANGED <<row, ensure, stop, overlapped, leaked>>
        /\ box' = [box EXCEPT ![r] = "exited"] \/ box' = [box EXCEPT ![r] = "none"]
    BY <1>1 DEF Workspace!BoxDies, Workspace!BoxRemoved
  <2>2. /\ box' \in [Workspace!Rows -> Workspace!Boxes] /\ Workspace!Made' = Workspace!Made
        /\ \A q \in Workspace!Rows : box'[q] = "running" => box[q] = "running"
    BY <2>1, <1>t DEF WorkspaceType, Workspace!Boxes, Workspace!Made
  <2>3. WorkspaceType'
    BY <2>1, <2>2, <1>t DEF WorkspaceType
  <2>4. ~overlapped' => OneAtATime'
    BY <2>1 DEF WorkspaceInv, OneAtATime, Ensuring, Stopping
  <2>5. ~overlapped' /\ ~leaked' => NewestRuns(n)'
    BY <2>1, <2>2, <1>n DEF NewestRuns
  <2> QED
    BY <2>2, <2>3, <2>4, <2>5, <1>n DEF WorkspaceInv
<1>2. CASE Workspace!Crash
  <2>1. /\ ensure' = [e \in Ensures |-> [pc |-> "idle", row |-> Workspace!NoRow]]
        /\ stop' = [s \in Stops |-> [stop[s] EXCEPT !.pc = IF stop[s].pc = "idle" THEN "idle" ELSE "done"]]
        /\ leaked' = TRUE /\ UNCHANGED <<row, box, overlapped>>
    BY <1>2 DEF Workspace!Crash
  <2>2. Workspace!Made' = Workspace!Made
    BY <2>1 DEF Workspace!Made
  <2>3. /\ \A s \in Stops : stop'[s].pc \in {"idle", "done"}
        /\ stop' \in [Stops -> [pc : StopAt, row : Workspace!Made \cup {Workspace!NoRow},
                               aim : {"stopped", "reaped"}, known : BOOLEAN]]
    <3>1. ASSUME NEW s \in Stops
          PROVE  /\ stop'[s].pc \in {"idle", "done"}
                 /\ stop'[s] \in [pc : StopAt, row : Workspace!Made \cup {Workspace!NoRow},
                                   aim : {"stopped", "reaped"}, known : BOOLEAN]
      <4>1. stop[s] \in [pc : StopAt, row : Workspace!Made \cup {Workspace!NoRow},
                         aim : {"stopped", "reaped"}, known : BOOLEAN]
        BY <1>t DEF WorkspaceType, StopAt
      <4>2. stop'[s] = [stop[s] EXCEPT !.pc = IF stop[s].pc = "idle" THEN "idle" ELSE "done"]
        BY <2>1
      <4> QED
        BY <4>1, <4>2 DEF StopAt
    <3> QED
      BY <2>1, <3>1
  <2>5. WorkspaceType'
    BY <2>1, <2>2, <2>3, <1>t DEF WorkspaceType, StopAt
  <2>4. OneAtATime'
    BY <2>1, <2>3 DEF OneAtATime, Ensuring, Stopping
  <2> QED
    BY <2>1, <2>2, <2>4, <2>5, <1>n DEF WorkspaceInv
<1>3. CASE UNCHANGED workspaceVars
  BY <1>3 DEF workspaceVars, WorkspaceInv, WorkspaceType, Workspace!Made, OneAtATime, NewestRuns, Ensuring, Stopping
<1> QED
  BY <1>1, <1>2, <1>3, EnsureStep, StopStep DEF Workspace!Next

\* As long as no two operations of the workspace manager overlapped, no crash
\* left a container behind and no cleanup failed, one container of the user runs
\* at most, for any number of rows and calls of ensure, stop and reap.
THEOREM OneBoxRuns == OutsideSpec => []SingleBox
<1>1. OutsideInit => WorkspaceInv
  BY WorkspaceInit DEF OutsideInit
<1>2. [OutsideNext]_outsideVars => [Workspace!Next]_workspaceVars
  BY DEF OutsideNext, outsideVars
<1>3. WorkspaceInv => SingleBox
  <2> SUFFICES ASSUME WorkspaceInv, ~overlapped, ~leaked
               PROVE  Workspace!Cardinality({r \in Workspace!Rows : box[r] = "running"}) <= 1
    BY DEF SingleBox, Workspace!SingleBox
  <2> DEFINE Running == {r \in Workspace!Rows : box[r] = "running"}
  <2>1. PICK n \in 0..MaxRows : NewestRuns(n)
    BY DEF WorkspaceInv
  <2>2. Running \in SUBSET {n}
    BY <2>1 DEF NewestRuns
  <2>3. IsFiniteSet({n}) /\ Cardinality({n}) = 1
    BY FS_Singleton
  <2>4. Cardinality(Running) <= 1
    BY <2>2, <2>3, FS_Subset
  <2>5. Workspace!Cardinality(Running) = Cardinality(Running)
    BY Zenon DEF Cardinality, Workspace!Cardinality
  <2> QED
    BY <2>4, <2>5
<1> QED
  BY <1>1, <1>2, <1>3, WorkspaceStep, PTL DEF OutsideSpec

-----------------------------------------------------------------------------
(* The live page of a plan *)

PageRecord == [route : Plans \cup {None}, view : {"home", "loading", "plan", "error"},
               plan : Plans \cup {None}, version : Nat, live : Streams \cup {None},
               newest : [Plans -> Nat], late : BOOLEAN, visits : Nat]
FileRecord == [version : Nat, notice : BOOLEAN, timer : BOOLEAN, missed : Nat]
LoadRecord == [state : {"free", "asked", "answered", "refused"}, for : {"visit", "change"},
               plan : Plans \cup {None}, version : Nat]
StreamRecord == [state : {"free", "connecting", "open", "dead"}, plan : Plans \cup {None}, inbox : Nat]

PageType ==
    /\ file \in [Plans -> FileRecord]
    /\ page \in PageRecord
    /\ load \in [Loads -> LoadRecord]
    /\ stream \in [Streams -> StreamRecord]
    /\ \A l \in Loads : load[l].state # "free" => load[l].plan \in Plans
    /\ \A s \in Streams : stream[s].state # "free" => stream[s].plan \in Plans

\* Nothing is newer than the file.
FileIsNewest ==
    /\ \A p \in Plans : page.newest[p] <= file[p].version
    /\ \A l \in Loads : load[l].state = "answered" => load[l].version <= file[load[l].plan].version

\* The page has drawn the latest version of the plan, will hear of it, or is excused.
Heard(p) ==
    \/ page.newest[p] = file[p].version
    \/ file[p].missed = file[p].version
    \/ file[p].version \in Unparsable
    \/ file[p].notice \/ file[p].timer
    \/ \E s \in Streams : stream[s].plan = p /\ stream[s].inbox > 0
    \/ \E l \in Loads : /\ load[l].plan = p
                        /\ \/ load[l].state = "asked"
                           \/ load[l].state = "answered" /\ load[l].version = file[p].version

\* What the screen says of the route.
Screen ==
    /\ page.view = "home" => page.route = None
    /\ page.view = "loading" => \E l \in Loads : /\ load[l].state # "free" /\ load[l].for = "visit"
                                                 /\ load[l].plan = page.route
    /\ page.view = "plan" => page.plan \in Plans
    /\ page.view = "plan" /\ ~page.late => page.plan = page.route /\ page.version = page.newest[page.plan]

PageInv == PageType /\ FileIsNewest /\ Screen /\ (page.route # None => Heard(page.route))

LEMMA PageInit == Page!Init => PageInv
<1> SUFFICES ASSUME Page!Init PROVE PageInv
  OBVIOUS
<1>1. PageType
  BY DEF Page!Init, PageType, PageRecord, FileRecord, LoadRecord, StreamRecord, Page!NoLoad, Page!NoStream
<1>2. FileIsNewest
  BY DEF Page!Init, FileIsNewest, Page!NoLoad
<1>3. Screen /\ page.route = None
  BY DEF Page!Init, Screen
<1> QED
  BY <1>1, <1>2, <1>3 DEF PageInv

\* The file changes, or what is known of its change travels to the page: the
\* screen stays, and so do the requests.
LEMMA FileStep ==
  ASSUME PageInv, NEW p \in Plans, Page!Edit(p) \/ Page!Notice(p) \/ Page!Announce(p)
  PROVE  PageInv'
<1>t. PageType /\ file[p] \in FileRecord
  BY DEF PageInv, PageType
<1>1. CASE Page!Edit(p) \/ Page!Notice(p)
  <2>1. UNCHANGED <<page, load, stream>>
    BY <1>1 DEF Page!Edit, Page!Notice
  <2>2. \/ file' = [file EXCEPT ![p] = [file[p] EXCEPT !.version = file[p].version + 1, !.notice = TRUE]]
        \/ file' = [file EXCEPT ![p] = [file[p] EXCEPT !.notice = FALSE, !.timer = TRUE]]
    BY <1>1 DEF Page!Edit, Page!Notice
  <2>3. /\ file' \in [Plans -> FileRecord] /\ file'[p].version >= file[p].version
        /\ file'[p].notice \/ file'[p].timer
        /\ \A q \in Plans : q # p => file'[q] = file[q]
    <3>1. ASSUME NEW x, x \in FileRecord, x.version >= file[p].version, x.notice \/ x.timer,
                 file' = [file EXCEPT ![p] = x]
          PROVE  /\ file' \in [Plans -> FileRecord] /\ file'[p].version >= file[p].version
                 /\ file'[p].notice \/ file'[p].timer
                 /\ \A q \in Plans : q # p => file'[q] = file[q]
      BY <3>1, <1>t DEF PageType
    <3>2. CASE file' = [file EXCEPT ![p] = [file[p] EXCEPT !.version = file[p].version + 1, !.notice = TRUE]]
      <4> DEFINE x == [file[p] EXCEPT !.version = file[p].version + 1, !.notice = TRUE]
      <4>0. file[p].version + 1 \in Nat
        BY <1>t DEF FileRecord
      <4>1. x \in FileRecord
        BY <4>0, <1>t DEF FileRecord
      <4>2. file[p].version \in Nat /\ x.version = file[p].version + 1
        BY <1>t DEF FileRecord
      <4>3. x.notice
        BY <1>t, Zenon DEF FileRecord
      <4>4. x.version >= file[p].version
        BY <4>2
      <4> HIDE DEF x
      <4> QED
        BY <3>1, <3>2, <4>1, <4>3, <4>4 DEF x
    <3>3. CASE file' = [file EXCEPT ![p] = [file[p] EXCEPT !.notice = FALSE, !.timer = TRUE]]
      <4> DEFINE x == [file[p] EXCEPT !.notice = FALSE, !.timer = TRUE]
      <4>1. x \in FileRecord
        BY <1>t DEF FileRecord
      <4>2. file[p].version \in Nat /\ x.version = file[p].version
        BY <1>t DEF FileRecord
      <4>3. x.timer
        BY <1>t, Zenon DEF FileRecord
      <4>4. x.version >= file[p].version
        BY <4>2
      <4> HIDE DEF x
      <4> QED
        BY <3>1, <3>3, <4>1, <4>3, <4>4 DEF x
    <3> QED
      BY <2>2, <3>2, <3>3
  <2>4. PageType'
    BY <2>1, <2>3, <1>t DEF PageType
  <2>5. FileIsNewest'
    <3>1. ASSUME NEW q \in Plans PROVE page.newest[q] <= file'[q].version
      <4>1. page.newest[q] \in Nat /\ file[q].version \in Nat /\ file'[q].version \in Nat
        BY <2>3, <1>t DEF PageType, PageRecord, FileRecord
      <4>2. page.newest[q] <= file[q].version /\ file'[q].version >= file[q].version
        BY <2>3, <4>1 DEF PageInv, FileIsNewest
      <4> QED
        BY <4>1, <4>2
    <3>2. ASSUME NEW l \in Loads, load[l].state = "answered" PROVE load[l].version <= file'[load[l].plan].version
      <4>1. load[l].plan \in Plans /\ load[l].version \in Nat
        BY <3>2, <1>t DEF PageType, LoadRecord
      <4>2. file[load[l].plan].version \in Nat /\ file'[load[l].plan].version \in Nat
        BY <2>3, <4>1, <1>t DEF PageType, FileRecord
      <4>3. /\ load[l].version <= file[load[l].plan].version
            /\ file'[load[l].plan].version >= file[load[l].plan].version
        BY <2>3, <3>2, <4>1, <4>2 DEF PageInv, FileIsNewest
      <4> QED
        BY <4>1, <4>2, <4>3
    <3> QED
      BY <2>1, <3>1, <3>2 DEF FileIsNewest
  <2>6. \A q \in Plans : Heard(q) => Heard(q)'
    BY <2>1, <2>3 DEF Heard
  <2> QED
    BY <2>1, <2>4, <2>5, <2>6, <1>t DEF PageInv, Screen, PageType, PageRecord
<1>2. CASE Page!Announce(p)
  <2> DEFINE to == Page!Subscribers(p)
             new == [file[p] EXCEPT !.timer = FALSE, !.missed = IF to = {} THEN file[p].version ELSE file[p].missed]
  <2>1. /\ UNCHANGED <<page, load>> /\ file' = [file EXCEPT ![p] = new]
        /\ stream' = [s \in Streams |-> IF s \in to THEN [stream[s] EXCEPT !.inbox = stream[s].inbox + 1] ELSE stream[s]]
    BY <1>2 DEF Page!Announce
  <2>2. /\ new \in FileRecord /\ new.version = file[p].version /\ new.notice = file[p].notice
        /\ new.missed = IF to = {} THEN file[p].version ELSE file[p].missed
    BY <1>t DEF FileRecord
  <2> HIDE DEF new
  <2>3. \A q \in Plans : file'[q] = IF q = p THEN new ELSE file[q]
    BY <2>1, <1>t DEF PageType
  <2>4. ASSUME NEW s \in Streams
        PROVE  /\ stream'[s] \in StreamRecord /\ stream'[s].plan = stream[s].plan
               /\ stream'[s].inbox >= stream[s].inbox
               /\ s \in to => stream'[s].inbox > 0
    <3>1. stream[s] \in StreamRecord
      BY <1>t DEF PageType
    <3>2. CASE s \in to
      <4>1. stream'[s] = [stream[s] EXCEPT !.inbox = stream[s].inbox + 1]
        BY <2>1, <3>2
      <4> QED
        BY <3>1, <4>1 DEF StreamRecord
    <3>3. CASE s \notin to
      BY <2>1, <3>1, <3>3 DEF StreamRecord
    <3> QED
      BY <3>2, <3>3
  <2>5. PageType'
    <3>1. stream' \in [Streams -> StreamRecord]
      BY <2>1, <2>4
    <3>2. file' \in [Plans -> FileRecord]
      BY <2>1, <2>2, <1>t DEF PageType
    <3> QED
      BY <2>1, <3>1, <3>2, <1>t DEF PageType
  <2>6. \A q \in Plans : file'[q].version = file[q].version
    BY <2>2, <2>3
  <2>7. FileIsNewest'
    BY <2>1, <2>6, <1>t DEF PageInv, FileIsNewest, PageType
  <2>8. ASSUME NEW q \in Plans, Heard(q) PROVE Heard(q)'
    <3>1. \A s \in Streams : stream[s].inbox > 0 => stream'[s].inbox > 0
      <4> SUFFICES ASSUME NEW s \in Streams, stream[s].inbox > 0 PROVE stream'[s].inbox > 0
        OBVIOUS
      <4>1. stream[s].inbox \in Nat /\ stream'[s].inbox \in Nat
        BY <2>4, <1>t DEF PageType, StreamRecord
      <4> QED
        BY <2>4, <4>1
    <3>2. CASE q # p
      BY <2>1, <2>3, <2>4, <2>8, <3>1, <3>2 DEF Heard
    <3>3. CASE q = p /\ to = {}
      BY <2>2, <2>3, <3>3 DEF Heard
    <3>4. CASE q = p /\ to # {}
      <4>1. PICK s \in Streams : s \in to /\ stream[s].plan = p
        BY <3>4 DEF Page!Subscribers, Page!Connected
      <4> QED
        BY <2>4, <3>4, <4>1 DEF Heard
    <3> QED
      BY <3>2, <3>3, <3>4
  <2> QED
    BY <2>1, <2>5, <2>7, <2>8, <1>t DEF PageInv, Screen, PageType, PageRecord
<1> QED
  BY <1>1, <1>2

\* A stream of the page opens, is refused or breaks; a message is taken off one.
LEMMA StreamStep ==
  ASSUME PageInv, NEW s \in Streams, Page!Connect(s) \/ Page!Drop(s) \/ Page!Receive(s)
  PROVE  PageInv'
<1>t. PageType /\ stream[s] \in StreamRecord
  BY DEF PageInv, PageType
<1>1. CASE Page!Connect(s)
  <2> DEFINE new == [stream[s] EXCEPT !.state = IF Page!Pooled < MaxStreams THEN "open" ELSE "dead"]
  <2>1. UNCHANGED <<file, page, load>> /\ stream' = [stream EXCEPT ![s] = new]
    BY <1>1 DEF Page!Connect
  <2>a. stream[s].plan \in Plans
    BY <1>1, <1>t DEF Page!Connect, PageType
  <2>2. new \in StreamRecord /\ new.plan = stream[s].plan /\ new.inbox = stream[s].inbox
    BY <1>t DEF StreamRecord
  <2> HIDE DEF new
  <2>3. \A t \in Streams : stream'[t].plan = stream[t].plan /\ stream'[t].inbox = stream[t].inbox
    BY <2>1, <2>2, <1>t DEF PageType
  <2>4. PageType'
    <3>1. stream' \in [Streams -> StreamRecord]
      BY <2>1, <2>2, <1>t DEF PageType
    <3>2. \A t \in Streams : stream'[t].state # "free" => stream'[t].plan \in Plans
      BY <2>1, <2>a, <2>2, <1>t DEF PageType
    <3> QED
      BY <2>1, <3>1, <3>2, <1>t DEF PageType
  <2>5. \A q \in Plans : Heard(q) => Heard(q)'
    BY <2>1, <2>3 DEF Heard
  <2> QED
    BY <2>1, <2>4, <2>5, <1>t DEF PageInv, Screen, FileIsNewest, PageType, PageRecord
<1>2. CASE Page!Drop(s)
  <2> DEFINE new == [stream[s] EXCEPT !.state = "connecting", !.inbox = 0]
             of == stream[s].plan
             x == [file[of] EXCEPT !.missed = file[of].version]
  <2>1. /\ UNCHANGED <<page, load>> /\ stream' = [stream EXCEPT ![s] = new]
        /\ file' = IF stream[s].inbox = 0 THEN file ELSE [file EXCEPT ![of] = x]
    BY <1>2 DEF Page!Drop
  <2>2. new \in StreamRecord /\ new.plan = of
    BY <1>t DEF StreamRecord
  <2>a. of \in Plans
    BY <1>2, <1>t DEF Page!Drop, Page!Connected, PageType
  <2>3. of \in Plans => x \in FileRecord /\ x = [file[of] EXCEPT !.missed = file[of].version]
    BY <1>t DEF PageType, FileRecord
  <2>4. /\ file' \in [Plans -> FileRecord]
        /\ \A q \in Plans : /\ file'[q].version = file[q].version /\ file'[q].notice = file[q].notice
                            /\ file'[q].timer = file[q].timer
                            /\ file'[q].missed = file[q].missed \/ file'[q].missed = file'[q].version
                            /\ q = of /\ stream[s].inbox # 0 => file'[q].missed = file'[q].version
    <3>1. CASE stream[s].inbox = 0 \/ of \notin Plans
      <4>1. file' = file
        BY <2>1, <3>1, <1>t DEF PageType
      <4> QED
        BY <3>1, <4>1, <1>t DEF PageType
    <3>2. CASE stream[s].inbox # 0 /\ of \in Plans
      <4>1. file[of] \in FileRecord /\ \A q \in Plans : file'[q] = IF q = of THEN x ELSE file[q]
        BY <2>1, <3>2, <1>t DEF PageType
      <4>2. /\ x.version = file[of].version /\ x.notice = file[of].notice
            /\ x.timer = file[of].timer /\ x.missed = file[of].version
        BY <4>1 DEF FileRecord
      <4>3. file' \in [Plans -> FileRecord]
        BY <2>1, <2>3, <3>2, <1>t DEF PageType
      <4> HIDE DEF x
      <4> QED
        BY <3>2, <4>1, <4>2, <4>3
    <3> QED
      BY <3>1, <3>2
  <2>5. PageType'
    <3>1. stream' \in [Streams -> StreamRecord]
      BY <2>1, <2>2, <1>t DEF PageType
    <3>2. \A t \in Streams : stream'[t].state # "free" => stream'[t].plan \in Plans
      BY <2>1, <2>a, <2>2, <1>t DEF PageType
    <3> QED
      BY <2>1, <2>4, <3>1, <3>2, <1>t DEF PageType
  <2>6. FileIsNewest'
    BY <2>1, <2>4, <1>t DEF PageInv, FileIsNewest, PageType
  <2>7. ASSUME NEW q \in Plans, Heard(q) PROVE Heard(q)'
    <3>1. CASE q = of /\ stream[s].inbox # 0
      BY <2>4, <3>1 DEF Heard
    <3>2. CASE ~(q = of /\ stream[s].inbox # 0)
      <4>1. \A t \in Streams : stream[t].plan = q /\ stream[t].inbox > 0 => stream'[t] = stream[t]
        <5> SUFFICES ASSUME NEW t \in Streams, stream[t].plan = q, stream[t].inbox > 0 PROVE stream'[t] = stream[t]
          OBVIOUS
        <5>1. t # s
          BY <3>2
        <5> QED
          BY <2>1, <5>1, <1>t DEF PageType
      <4> QED
        BY <2>1, <2>4, <2>7, <4>1 DEF Heard
    <3> QED
      BY <3>1, <3>2
  <2> QED
    BY <2>1, <2>5, <2>6, <2>7, <1>t DEF PageInv, Screen, PageType, PageRecord
<1>3. CASE Page!Receive(s)
  <2> DEFINE new == [stream[s] EXCEPT !.inbox = stream[s].inbox - 1]
  <2>1. PICK l \in Loads :
          /\ load[l].state = "free"
          /\ load' = [load EXCEPT ![l] = [state |-> "asked", for |-> "change", plan |-> stream[s].plan, version |-> 0]]
    BY <1>3 DEF Page!Receive, Page!Ask
  <2>2. /\ UNCHANGED <<file, page>> /\ stream' = [stream EXCEPT ![s] = new] /\ stream[s].inbox > 0
    BY <1>3 DEF Page!Receive
  <2>3. new \in StreamRecord /\ new.plan = stream[s].plan
    BY <2>2, <1>t DEF StreamRecord
  <2>4. stream[s].plan \in Plans \cup {None}
    BY <1>t DEF StreamRecord
  <2> HIDE DEF new
  <2>5. \A m \in Loads : load'[m] = IF m = l THEN [state |-> "asked", for |-> "change", plan |-> stream[s].plan, version |-> 0]
                                             ELSE load[m]
    BY <2>1, <1>t DEF PageType
  <2>6. stream[s].plan \in Plans
    BY <1>3, <1>t DEF Page!Receive, Page!Connected, PageType
  <2>7. PageType'
    <3>1. load' \in [Loads -> LoadRecord]
      BY <2>1, <2>4, <1>t DEF PageType, LoadRecord
    <3>2. \A m \in Loads : load'[m].state # "free" => load'[m].plan \in Plans
      BY <2>5, <2>6, <1>t DEF PageType
    <3>3. stream' \in [Streams -> StreamRecord]
      BY <2>2, <2>3, <1>t DEF PageType
    <3> QED
      <4>1. \A t \in Streams : stream'[t].state # "free" => stream'[t].plan \in Plans
        BY <2>2, <2>3, <2>6, <1>t DEF PageType
      <4> QED
        BY <2>2, <3>1, <3>2, <3>3, <4>1, <1>t DEF PageType
  <2>8. FileIsNewest'
    BY <2>2, <2>5 DEF PageInv, FileIsNewest
  <2>9. Screen'
    <3>1. \A m \in Loads : load[m].state # "free" => load'[m] = load[m]
      BY <2>1, <2>5
    <3> QED
      BY <2>2, <3>1, <1>t DEF PageInv, Screen, PageType, PageRecord
  <2>10. ASSUME NEW q \in Plans, Heard(q) PROVE Heard(q)'
    <3>1. CASE q = stream[s].plan
      <4>1. load'[l].plan = q /\ load'[l].state = "asked"
        BY <2>5, <3>1
      <4> QED
        BY <4>1 DEF Heard
    <3>2. CASE q # stream[s].plan
      <4>1. \A m \in Loads : load[m].state # "free" => load'[m] = load[m]
        BY <2>1, <2>5
      <4>2. \A t \in Streams : stream[t].plan = q => stream'[t] = stream[t]
        BY <2>2, <3>2, <1>t DEF PageType
      <4> QED
        BY <2>2, <2>10, <4>1, <4>2 DEF Heard
    <3> QED
      BY <3>1, <3>2
  <2> QED
    BY <2>2, <2>7, <2>8, <2>9, <2>10, <1>t DEF PageInv, PageType, PageRecord
<1> QED
  BY <1>1, <1>2, <1>3

\* The page goes to another route.
LEMMA VisitStep ==
  ASSUME PageInv, NEW p \in Plans \cup {None}, Page!Visit(p)
  PROVE  PageInv'
<1>t. PageType /\ page \in PageRecord /\ None \notin Plans
  BY NoneAssumption DEF PageInv, PageType
<1>1. /\ stream' = Page!TornDown /\ UNCHANGED file
      /\ page' = [page EXCEPT !.route = p, !.live = None, !.visits = page.visits + 1,
                              !.view = IF p = None THEN "home" ELSE "loading"]
      /\ IF p = None THEN UNCHANGED load ELSE \E l \in Loads : Page!Ask(l, "visit", p)
  BY DEF Page!Visit
<1>2. /\ page' \in PageRecord /\ page'.route = p /\ page'.newest = page.newest
      /\ page'.view = IF p = None THEN "home" ELSE "loading"
  <2>1. page.visits + 1 \in Nat
    BY <1>t DEF PageRecord
  <2> QED
    BY <1>1, <2>1, <1>t DEF PageRecord
<1>3. stream' \in [Streams -> StreamRecord] /\ \A s \in Streams : stream'[s].state # "free" => stream'[s].plan \in Plans
  <2> SUFFICES ASSUME NEW s \in Streams
               PROVE  stream'[s] \in StreamRecord /\ (stream'[s].state # "free" => stream'[s].plan \in Plans)
    BY <1>1 DEF Page!TornDown
  <2>1. stream'[s] = Page!NoStream \/ stream'[s] = stream[s]
    BY <1>1 DEF Page!TornDown
  <2> QED
    BY <2>1, <1>t DEF PageType, Page!NoStream, StreamRecord
<1>4. CASE p = None
  <2>1. PageType'
    BY <1>1, <1>2, <1>3, <1>4, <1>t DEF PageType
  <2> QED
    BY <1>1, <1>2, <1>4, <2>1 DEF PageInv, Screen, FileIsNewest
<1>5. CASE p # None
  <2> DEFINE new == [state |-> "asked", for |-> "visit", plan |-> p, version |-> 0]
  <2>1. PICK l \in Loads : load[l].state = "free" /\ load' = [load EXCEPT ![l] = new]
    BY <1>1, <1>5 DEF Page!Ask
  <2>2. \A m \in Loads : load'[m] = IF m = l THEN new ELSE load[m]
    BY <2>1, <1>t DEF PageType
  <2>3. load' \in [Loads -> LoadRecord]
    BY <2>1, <1>t DEF PageType, LoadRecord
  <2>4. PageType'
    BY <1>1, <1>2, <1>3, <1>5, <2>2, <2>3, <1>t DEF PageType
  <2>5. FileIsNewest'
    BY <1>1, <1>2, <2>2 DEF PageInv, FileIsNewest
  <2>6. Screen' /\ Heard(p)'
    BY <1>2, <1>5, <2>2 DEF Screen, Heard
  <2> QED
    BY <1>2, <2>4, <2>5, <2>6 DEF PageInv
<1> QED
  BY <1>4, <1>5

\* A request is answered, or lost on the way.
LEMMA AnswerStep ==
  ASSUME PageInv, NEW l \in Loads, Page!Answer(l) \/ Page!Lose(l)
  PROVE  PageInv'
<1> DEFINE p == load[l].plan
<1>t. PageType /\ load[l] \in LoadRecord /\ page \in PageRecord
  BY DEF PageInv, PageType
<1>p. p \in Plans /\ load[l].state # "free" /\ file[p] \in FileRecord
  BY <1>t DEF Page!Answer, Page!Lose, PageType
<1>k. ASSUME NEW new \in LoadRecord, load' = [load EXCEPT ![l] = new], new.plan = p, new.for = load[l].for,
             new.state # "free", new.state = "answered" => new.version = file[p].version,
             UNCHANGED <<page, stream>>, file' \in [Plans -> FileRecord],
             \A q \in Plans : /\ file'[q].version = file[q].version /\ file'[q].notice = file[q].notice
                              /\ file'[q].timer = file[q].timer
                              /\ file'[q].missed = file[q].missed \/ file'[q].missed = file'[q].version,
             \/ new.state = "answered" \/ file[p].version \in Unparsable \/ file'[p].missed = file[p].version
      PROVE  PageInv'
  <2>1. \A m \in Loads : load'[m] = IF m = l THEN new ELSE load[m]
    BY <1>k, <1>t DEF PageType
  <2>2. PageType'
    BY <1>k, <1>p, <2>1, <1>t DEF PageType
  <2>3. FileIsNewest'
    <3>1. file[p].version <= file[p].version
      BY <1>p DEF FileRecord
    <3> QED
      BY <1>k, <1>p, <2>1, <3>1, <1>t DEF PageInv, FileIsNewest, PageType
  <2>4. Screen'
    <3>1. page.view = "loading" => \E m \in Loads : /\ load[m].state # "free" /\ load[m].for = "visit"
                                                    /\ load[m].plan = page.route
      BY DEF PageInv, Screen
    <3>2. \A m \in Loads : /\ load[m].state # "free" => load'[m].state # "free"
                           /\ load'[m].for = load[m].for /\ load'[m].plan = load[m].plan
      BY <1>k, <2>1
    <3> QED
      BY <1>k, <3>1, <3>2 DEF PageInv, Screen
  <2>5. ASSUME NEW q \in Plans, Heard(q) PROVE Heard(q)'
    <3>1. CASE q = p
      BY <1>k, <1>p, <2>1, <3>1 DEF Heard
    <3>2. CASE q # p
      BY <1>k, <2>1, <2>5, <3>2 DEF Heard
    <3> QED
      BY <3>1, <3>2
  <2> QED
    BY <1>k, <2>2, <2>3, <2>4, <2>5, <1>t DEF PageInv, PageRecord
<1>1. CASE Page!Answer(l)
  <2> DEFINE bad == file[p].version \in Unparsable
             new == [load[l] EXCEPT !.version = file[p].version, !.state = IF bad THEN "refused" ELSE "answered"]
  <2>1. load' = [load EXCEPT ![l] = new] /\ UNCHANGED <<file, page, stream>>
    BY <1>1 DEF Page!Answer
  <2>2. /\ new \in LoadRecord /\ new.plan = p /\ new.for = load[l].for /\ new.version = file[p].version
        /\ new.state = IF bad THEN "refused" ELSE "answered"
    BY <1>p, <1>t DEF LoadRecord, FileRecord
  <2>3. file' \in [Plans -> FileRecord]
    BY <2>1, <1>t DEF PageType
  <2> HIDE DEF new
  <2> QED
    BY <2>1, <2>2, <2>3, <1>k
<1>2. CASE Page!Lose(l)
  <2> DEFINE new == [load[l] EXCEPT !.state = "refused"]
             x == [file[p] EXCEPT !.missed = file[p].version]
  <2>1. load' = [load EXCEPT ![l] = new] /\ file' = [file EXCEPT ![p] = x] /\ UNCHANGED <<page, stream>>
    BY <1>2 DEF Page!Lose
  <2>2. new \in LoadRecord /\ new.plan = p /\ new.for = load[l].for /\ new.state = "refused"
    BY <1>t DEF LoadRecord
  <2>3. /\ x \in FileRecord /\ x.version = file[p].version /\ x.notice = file[p].notice
        /\ x.timer = file[p].timer /\ x.missed = file[p].version
    BY <1>p DEF FileRecord
  <2> HIDE DEF new, x
  <2>4. file' \in [Plans -> FileRecord] /\ \A q \in Plans : file'[q] = IF q = p THEN x ELSE file[q]
    BY <2>1, <2>3, <1>t DEF PageType
  <2>5. \A q \in Plans : /\ file'[q].version = file[q].version /\ file'[q].notice = file[q].notice
                         /\ file'[q].timer = file[q].timer
                         /\ file'[q].missed = file[q].missed \/ file'[q].missed = file'[q].version
    BY <2>3, <2>4
  <2>6. file'[p].missed = file[p].version
    BY <2>3, <2>4, <1>p
  <2> QED
    BY <2>1, <2>2, <2>4, <2>5, <2>6, <1>k
<1> QED
  BY <1>1, <1>2

\* What is drawn is the latest that was, or late.
LEMMA DrawStep ==
  ASSUME PageInv, NEW l \in Loads, load[l].state = "answered",
         load' = [load EXCEPT ![l] = Page!NoLoad], UNCHANGED file, page' \in PageRecord,
         page'.route = page.route,
         LET d == Page!Drawn(load[l].plan, load[l].version) IN
             /\ page'.view = d.view /\ page'.plan = d.plan /\ page'.version = d.version
             /\ page'.newest = d.newest /\ page'.late = d.late,
         stream' \in [Streams -> StreamRecord],
         \A s \in Streams : /\ stream'[s].state # "free" => stream'[s].plan \in Plans
                            /\ stream[s].inbox > 0 => stream'[s] = stream[s]
  PROVE  PageInv'
<1> DEFINE p == load[l].plan
           v == load[l].version
<1>t. PageType /\ load[l] \in LoadRecord /\ page \in PageRecord
  BY DEF PageInv, PageType
<1>p. p \in Plans /\ v \in Nat /\ file[p] \in FileRecord /\ file[p].version \in Nat /\ v <= file[p].version
  BY <1>t DEF PageType, LoadRecord, FileRecord, PageInv, FileIsNewest
<1>1. /\ page'.view = "plan" /\ page'.plan = p /\ page'.version = v
      /\ page'.newest = [page.newest EXCEPT ![p] = IF v > page.newest[p] THEN v ELSE page.newest[p]]
      /\ page'.late = (p # page.route \/ v < page.newest[p])
  BY <1>t DEF Page!Drawn, PageRecord
<1>2. /\ \A q \in Plans : page.newest[q] \in Nat
      /\ \A q \in Plans : page'.newest[q] = IF q = p /\ v > page.newest[p] THEN v ELSE page.newest[q]
  BY <1>1, <1>t DEF PageRecord
<1>3. \A m \in Loads : load'[m] = IF m = l THEN Page!NoLoad ELSE load[m]
  BY <1>t DEF PageType
<1>4. PageType'
  <2>1. load' \in [Loads -> LoadRecord]
    BY <1>t DEF PageType, LoadRecord, Page!NoLoad
  <2>2. \A m \in Loads : load'[m].state # "free" => load'[m].plan \in Plans
    BY <1>3, <1>t DEF PageType, Page!NoLoad
  <2> QED
    BY <2>1, <2>2, <1>t DEF PageType
<1>5. FileIsNewest'
  <2>1. \A q \in Plans : page'.newest[q] <= file[q].version
    BY <1>2, <1>p DEF PageInv, FileIsNewest
  <2>2. \A m \in Loads : load'[m].state = "answered" => load'[m].version <= file[load'[m].plan].version
    BY <1>3 DEF PageInv, FileIsNewest, Page!NoLoad
  <2> QED
    BY <2>1, <2>2 DEF FileIsNewest
<1>6. Screen'
  <2>1. ASSUME ~page'.late PROVE p = page.route /\ v = page'.newest[p]
    <3>1. p = page.route /\ ~(v < page.newest[p])
      BY <1>1, <2>1, Zenon
    <3> QED
      BY <1>2, <1>p, <3>1
  <2> QED
    BY <1>1, <1>p, <2>1 DEF Screen
<1>7. ASSUME NEW q \in Plans, Heard(q) PROVE Heard(q)'
  <2>1. CASE \/ file[q].missed = file[q].version \/ file[q].version \in Unparsable
             \/ file[q].notice \/ file[q].timer
    BY <2>1 DEF Heard
  <2>2. CASE page.newest[q] = file[q].version
    <3>1. page'.newest[q] = file[q].version
      BY <1>2, <1>p, <2>2
    <3> QED
      BY <3>1 DEF Heard
  <2>3. CASE \E s \in Streams : stream[s].plan = q /\ stream[s].inbox > 0
    BY <2>3 DEF Heard
  <2>4. ASSUME NEW m \in Loads, load[m].plan = q,
               load[m].state = "asked" \/ (load[m].state = "answered" /\ load[m].version = file[q].version)
        PROVE  Heard(q)'
    <3>1. CASE m = l
      <4>1. page'.newest[q] = file[q].version
        <5>1. q = p /\ v = file[q].version /\ page.newest[q] <= file[q].version
          BY <2>4, <3>1 DEF PageInv, FileIsNewest
        <5>2. page'.newest[q] = IF v > page.newest[q] THEN v ELSE page.newest[q]
          BY <1>2, <5>1
        <5>3. page.newest[q] \in Nat /\ v \in Nat
          BY <1>2, <1>p
        <5> HIDE DEF p, v
        <5> QED
          BY <5>1, <5>2, <5>3
      <4> QED
        BY <4>1 DEF Heard
    <3>2. CASE m # l
      BY <1>3, <2>4, <3>2 DEF Heard
    <3> QED
      BY <3>1, <3>2
  <2> QED
    BY <1>7, <2>1, <2>2, <2>3, <2>4 DEF Heard
<1> QED
  BY <1>4, <1>5, <1>6, <1>7, <1>t DEF PageInv, PageRecord

\* A request ends: the page draws, says it failed, or is left as it is.
LEMMA LoadStep ==
  ASSUME PageInv, NEW l \in Loads, Page!VisitDraws(l) \/ Page!VisitFails(l) \/ Page!ChangeDraws(l)
  PROVE  PageInv'
<1> DEFINE p == load[l].plan
           v == load[l].version
<1>t. PageType /\ load[l] \in LoadRecord /\ page \in PageRecord
  BY DEF PageInv, PageType
<1>0. load' = [load EXCEPT ![l] = Page!NoLoad] /\ UNCHANGED file
  BY DEF Page!VisitDraws, Page!VisitFails, Page!ChangeDraws
<1>p. p \in Plans /\ v \in Nat
  BY <1>t DEF Page!VisitDraws, Page!VisitFails, Page!ChangeDraws, PageType, LoadRecord
<1>d. Page!Drawn(p, v) \in PageRecord /\ Page!Drawn(p, v).route = page.route
  BY <1>p, <1>t DEF Page!Drawn, PageRecord
<1>3. \A m \in Loads : load'[m] = IF m = l THEN Page!NoLoad ELSE load[m]
  BY <1>0, <1>t DEF PageType
<1>4. /\ load' \in [Loads -> LoadRecord]
      /\ \A m \in Loads : load'[m].state # "free" => load'[m].plan \in Plans
  BY <1>0, <1>3, <1>t DEF PageType, LoadRecord, Page!NoLoad
<1>1. CASE Page!VisitDraws(l)
  <2> DEFINE d == Page!Drawn(p, v)
  <2>1. PICK s \in Streams :
          /\ stream[s] = Page!NoStream
          /\ stream' = [stream EXCEPT ![s] = [state |-> "connecting", plan |-> p, inbox |-> 0]]
          /\ page' = [d EXCEPT !.live = s]
    BY <1>1 DEF Page!VisitDraws
  <2>2. load[l].state = "answered"
    BY <1>1 DEF Page!VisitDraws
  <2> HIDE DEF d
  <2>3. /\ page' \in PageRecord /\ page'.route = page.route /\ page'.view = d.view /\ page'.plan = d.plan
        /\ page'.version = d.version /\ page'.newest = d.newest /\ page'.late = d.late
    BY <2>1, <1>d DEF PageRecord, d
  <2>4. /\ stream' \in [Streams -> StreamRecord]
        /\ \A r \in Streams : stream'[r].state # "free" => stream'[r].plan \in Plans
    BY <2>1, <1>p, <1>t DEF PageType, StreamRecord
  <2>5. \A r \in Streams : stream[r].inbox > 0 => stream'[r] = stream[r]
    BY <2>1, <1>t DEF PageType, Page!NoStream
  <2> QED
    BY <1>0, <2>2, <2>3, <2>4, <2>5, DrawStep DEF d
<1>2. CASE Page!VisitFails(l)
  <2>1. load[l].state = "refused" /\ UNCHANGED stream /\ page' = [page EXCEPT !.view = "error", !.plan = None]
    BY <1>2 DEF Page!VisitFails
  <2>2. /\ page' \in PageRecord /\ page'.view = "error" /\ page'.route = page.route /\ page'.newest = page.newest
    BY <2>1, <1>t DEF PageRecord
  <2>3. PageType'
    BY <1>0, <1>4, <2>1, <2>2, <1>t DEF PageType
  <2>4. FileIsNewest'
    BY <1>0, <1>3, <2>2 DEF PageInv, FileIsNewest, Page!NoLoad
  <2>5. \A q \in Plans : Heard(q) => Heard(q)'
    BY <1>0, <1>3, <2>1, <2>2 DEF Heard
  <2> QED
    BY <2>2, <2>3, <2>4, <2>5, <1>t DEF PageInv, Screen, PageRecord
<1>5. CASE Page!ChangeDraws(l) /\ load[l].state = "answered" /\ page.route = p
  <2>1. page' = Page!Drawn(p, v) /\ UNCHANGED stream
    BY <1>5 DEF Page!ChangeDraws
  <2> QED
    BY <1>0, <1>5, <1>d, <2>1, <1>t, DrawStep DEF PageType
<1>6. CASE Page!ChangeDraws(l) /\ ~(load[l].state = "answered" /\ page.route = p)
  <2>1. page' = page /\ UNCHANGED stream /\ load[l].for = "change" /\ load[l].state \in {"answered", "refused"}
    BY <1>6 DEF Page!ChangeDraws
  <2>2. PageType'
    BY <1>0, <1>4, <2>1, <1>t DEF PageType
  <2>3. FileIsNewest'
    BY <1>0, <1>3, <2>1 DEF PageInv, FileIsNewest, Page!NoLoad
  <2>4. Screen'
    <3>1. \A m \in Loads : load[m].for = "visit" => load'[m] = load[m]
      BY <1>3, <2>1
    <3> QED
      BY <2>1, <3>1 DEF PageInv, Screen
  <2>5. page.route # None => Heard(page.route)'
    <3>1. \A m \in Loads : load[m].plan = page.route /\ load[m].state \in {"asked", "answered"} => load'[m] = load[m]
      BY <1>3, <1>6, <2>1
    <3> QED
      BY <1>0, <2>1, <3>1 DEF PageInv, Heard
  <2> QED
    BY <2>1, <2>2, <2>3, <2>4, <2>5 DEF PageInv
<1> QED
  BY <1>1, <1>2, <1>5, <1>6

LEMMA PageStep == PageInv /\ [Page!Next]_pageVars => PageInv'
<1> SUFFICES ASSUME PageInv, [Page!Next]_pageVars PROVE PageInv'
  OBVIOUS
<1>1. CASE UNCHANGED pageVars
  BY <1>1 DEF pageVars, PageInv, PageType, FileIsNewest, Screen, Heard
<1> QED
  BY <1>1, FileStep, StreamStep, VisitStep, AnswerStep, LoadStep DEF Page!Next

\* With nothing under way the page shows the plan of its route as it is on disk,
\* or says why it does not, for any number of plans, edits, requests and streams.
THEOREM PagesCatchUp == OutsideSpec => []PageCatchesUp
<1>1. OutsideInit => PageInv
  BY PageInit DEF OutsideInit
<1>2. [OutsideNext]_outsideVars => [Page!Next]_pageVars
  BY DEF OutsideNext, outsideVars
<1>3. PageInv => PageCatchesUp
  <2> SUFFICES ASSUME PageInv, page.route # None, ~Page!UnderWay(page.route), page.view # "error", ~page.late
               PROVE  /\ page.view = "plan" /\ page.plan = page.route
                      /\ \/ page.version = file[page.route].version
                         \/ file[page.route].missed = file[page.route].version
                         \/ file[page.route].version \in Unparsable
    BY DEF PageCatchesUp, Page!PageCatchesUp
  <2>1. \A l \in Loads : load[l].state = "free"
    BY DEF Page!UnderWay
  <2>2. page.view = "plan"
    BY <2>1 DEF PageInv, PageType, PageRecord, Screen
  <2>3. page.plan = page.route /\ page.version = page.newest[page.route]
    BY <2>2 DEF PageInv, Screen
  <2>4. Heard(page.route)
    BY DEF PageInv
  <2> QED
    BY <2>1, <2>2, <2>3, <2>4 DEF Heard, Page!UnderWay
<1> QED
  BY <1>1, <1>2, <1>3, PageStep, PTL DEF OutsideSpec

-----------------------------------------------------------------------------
(* The daemon *)

DaemonInv ==
    /\ part \in [Daemon!Parts -> {"absent", "starting", "up", "down"}]
    /\ building \in 0..Daemon!Done /\ stopping \in Nat /\ early \in BOOLEAN
    /\ stopping = 0 => ~early /\ \A p \in Daemon!Parts : part[p] # "down"
    /\ ~early /\ stopping > 0 =>
          /\ building = Daemon!Done
          /\ \A p \in Daemon!Parts : part[p] = "down" =>
                \E i \in 1..Len(Daemon!StopOrder) : i < stopping /\ Daemon!StopOrder[i] = p
          /\ \A i \in 1..Len(Daemon!StopOrder) : i < stopping => part[Daemon!StopOrder[i]] # "up"

LEMMA DaemonInit == Daemon!Init => DaemonInv
<1> SUFFICES ASSUME Daemon!Init PROVE DaemonInv
  OBVIOUS
<1>1. Daemon!Done = 16
  BY DEF Daemon!Done, Daemon!BuildOrder
<1>2. building = 0 /\ stopping = 0 /\ early = FALSE /\ part = [p \in Daemon!Parts |-> "absent"]
  BY DEF Daemon!Init
<1>3. part \in [Daemon!Parts -> {"absent", "starting", "up", "down"}]
  BY <1>2
<1>4. \A p \in Daemon!Parts : part[p] # "down"
  BY <1>2
<1>5. building \in 0..Daemon!Done /\ stopping \in Nat /\ ~(stopping > 0)
  BY <1>1, <1>2
<1>6. early \in BOOLEAN /\ ~early
  BY <1>2, Zenon
<1> QED
  BY <1>3, <1>4, <1>5, <1>6, Zenon DEF DaemonInv

\* The order of stop: who uses a part comes before it.
LEMMA UsersComeFirst ==
  ASSUME NEW p \in Daemon!Parts, NEW q \in Daemon!Needs(p), <<p, q>> \notin Daemon!Outlived,
         NEW i \in 1..Len(Daemon!StopOrder), Daemon!StopOrder[i] = q
  PROVE  \E j \in 1..Len(Daemon!StopOrder) : j < i /\ Daemon!StopOrder[j] = p
<1>1. /\ Len(Daemon!StopOrder) = 12
      /\ Daemon!StopOrder[2] = "control" /\ Daemon!StopOrder[3] = "slack" /\ Daemon!StopOrder[4] = "discord"
      /\ Daemon!StopOrder[5] = "router" /\ Daemon!StopOrder[6] = "http"
      /\ Daemon!StopOrder[1] = "metrics"
  BY DEF Daemon!StopOrder
<1>2. q \in {"router", "identity", "creds", "hooks", "supervisor", "mongo", "memory"}
  BY DEF Daemon!Needs
<1>3. CASE p = "control"
  <2>1. q # "metrics" /\ q # "control"
    BY <1>2
  <2>2. 2 < i
    BY <1>1, <2>1
  <2> QED
    BY <1>1, <1>3, <2>2
<1>4. CASE p \in {"slack", "discord"}
  <2>1. 4 < i
    BY <1>1, <1>2
  <2> QED
    BY <1>1, <1>4, <2>1
<1>5. CASE p = "router"
  <2>1. q \in {"mongo", "memory", "creds"}
    BY <1>5 DEF Daemon!Needs
  <2>2. 5 < i
    BY <1>1, <2>1
  <2> QED
    BY <1>1, <1>5, <2>2
<1>6. CASE p = "http"
  <2>1. q \in {"mongo", "supervisor"}
    BY <1>6 DEF Daemon!Needs, Daemon!Outlived
  <2>2. 6 < i
    BY <1>1, <2>1
  <2> QED
    BY <1>1, <1>6, <2>2
<1> QED
  BY <1>3, <1>4, <1>5, <1>6 DEF Daemon!Needs, Daemon!Outlived

\* start builds a part: not while stop is taking down what start was through with.
LEMMA BuildStep ==
  ASSUME DaemonInv, NEW p \in Daemon!Parts, Daemon!Starts(p) \/ Daemon!LeftOut(p)
  PROVE  DaemonInv'
<1>1. /\ building \in 1..Len(Daemon!BuildOrder) /\ UNCHANGED <<stopping, early>>
      /\ part' = part \/ \E x \in {"absent", "starting", "up"} : part' = [part EXCEPT ![p] = x]
      /\ building' \in {building, building + 1}
  BY DEF Daemon!Starts, Daemon!LeftOut, Daemon!Skip, Daemon!Begin, Daemon!Finish, Daemon!Building
<1>2. building # Daemon!Done /\ building' \in 0..Daemon!Done
  BY <1>1 DEF Daemon!Done, Daemon!BuildOrder
<1>3. early \/ stopping = 0
  BY <1>2 DEF DaemonInv
<1>4. part' \in [Daemon!Parts -> {"absent", "starting", "up", "down"}]
  BY <1>1 DEF DaemonInv
<1>5. \A r \in Daemon!Parts : part'[r] = "down" => part[r] = "down"
  BY <1>1 DEF DaemonInv
<1> QED
  BY <1>1, <1>2, <1>3, <1>4, <1>5 DEF DaemonInv

LEMMA DaemonStep == DaemonInv /\ [Daemon!Next]_daemonVars => DaemonInv'
<1> SUFFICES ASSUME DaemonInv, [Daemon!Next]_daemonVars PROVE DaemonInv'
  OBVIOUS
<1>o. Len(Daemon!BuildOrder) = 15 /\ Daemon!Done = 16 /\ Len(Daemon!StopOrder) = 12
  BY DEF Daemon!Done, Daemon!BuildOrder, Daemon!StopOrder
<1>1. CASE Daemon!StartBegins
  BY <1>1, <1>o DEF DaemonInv, Daemon!StartBegins
<1>2. ASSUME NEW p \in Daemon!Parts, Daemon!Starts(p) \/ Daemon!LeftOut(p) PROVE DaemonInv'
  BY <1>2, BuildStep
<1>3. CASE Daemon!StartThrows \/ Daemon!StopEnds
  BY <1>3 DEF DaemonInv, Daemon!StartThrows, Daemon!StopEnds
<1>4. CASE Daemon!Cause
  <2>1. UNCHANGED <<part, building>>
    BY <1>4 DEF Daemon!Cause
  <2>2. CASE stopping = 0
    <3>1. stopping' = 1 /\ early' = (building # Daemon!Done)
      BY <1>4, <2>2 DEF Daemon!Cause
    <3>2. early' \in BOOLEAN /\ (~early' => building = Daemon!Done)
      BY <3>1, Zenon
    <3>3. \A p \in Daemon!Parts : part[p] # "down"
      BY <2>2 DEF DaemonInv
    <3>4. \A i \in 1..Len(Daemon!StopOrder) : ~(i < 1)
      OBVIOUS
    <3> QED
      BY <2>1, <3>1, <3>2, <3>3, <3>4 DEF DaemonInv
  <2>3. CASE stopping # 0
    BY <1>4, <2>1, <2>3 DEF DaemonInv, Daemon!Cause
  <2> QED
    BY <2>2, <2>3
<1>5. CASE Daemon!StopPart
  <2> DEFINE p == Daemon!StopOrder[stopping]
  <2>1. /\ stopping \in 1..Len(Daemon!StopOrder) /\ stopping' = stopping + 1 /\ UNCHANGED <<building, early>>
        /\ part' = IF Daemon!Known(p) THEN [part EXCEPT ![p] = "down"] ELSE part
    BY <1>5 DEF Daemon!StopPart
  <2>2. p \in Daemon!Parts
    BY <2>1 DEF Daemon!StopOrder, Daemon!Parts, Daemon!BuildOrder, Daemon!ToSet
  <2> HIDE DEF p
  <2>3. /\ part' \in [Daemon!Parts -> {"absent", "starting", "up", "down"}]
        /\ \A r \in Daemon!Parts : part'[r] = "down" => part[r] = "down" \/ r = p
        /\ \A r \in Daemon!Parts : part'[r] = "up" => part[r] = "up" /\ r # p
    BY <2>1, <2>2 DEF DaemonInv, Daemon!Known
  <2>4. ASSUME ~early, NEW r \in Daemon!Parts, part'[r] = "down"
        PROVE  \E i \in 1..Len(Daemon!StopOrder) : i < stopping' /\ Daemon!StopOrder[i] = r
    BY <2>1, <2>3, <2>4 DEF DaemonInv, p
  <2>5. ASSUME ~early, NEW i \in 1..Len(Daemon!StopOrder), i < stopping'
        PROVE  part'[Daemon!StopOrder[i]] # "up"
    <3>1. Daemon!StopOrder[i] \in Daemon!Parts
      BY DEF Daemon!StopOrder, Daemon!Parts, Daemon!BuildOrder, Daemon!ToSet
    <3>2. i < stopping \/ Daemon!StopOrder[i] = p
      BY <2>1, <2>5 DEF p
    <3> QED
      BY <2>1, <2>3, <2>5, <3>1, <3>2 DEF DaemonInv
  <2>6. stopping' \in Nat /\ stopping' # 0 /\ stopping > 0
    BY <2>1 DEF DaemonInv
  <2> QED
    BY <2>1, <2>3, <2>4, <2>5, <2>6 DEF DaemonInv
<1>6. CASE UNCHANGED daemonVars
  BY <1>6 DEF daemonVars, DaemonInv
<1>7. {"memory", "identity", "creds", "mongo", "supervisor", "mcp", "oauth", "http", "hooks", "router",
       "slack", "discord", "control", "scheduler", "metrics"} \subseteq Daemon!Parts
  BY DEF Daemon!Parts, Daemon!BuildOrder, Daemon!ToSet
<1> QED
  BY <1>1, <1>2, <1>3, <1>4, <1>5, <1>6, <1>7
     DEF Daemon!Next, Daemon!BuildMemory, Daemon!BuildIdentity, Daemon!BuildCreds, Daemon!ConnectMongo,
         Daemon!BuildSupervisor, Daemon!BuildMcp, Daemon!BuildOAuth, Daemon!StartHttp, Daemon!BuildHooks,
         Daemon!StartRouter, Daemon!StartSlack, Daemon!StartDiscord, Daemon!StartControl,
         Daemon!BuildScheduler, Daemon!StartMetrics

\* A stop that start was through before takes a part down only after the parts
\* that use it, whichever parts the configuration enables; Outlived lists the
\* pairs for which the order of stop has it the other way.
THEOREM PartsOutliveTheirUsers == OutsideSpec => []UsersStopFirst
<1>1. OutsideInit => DaemonInv
  BY DaemonInit DEF OutsideInit
<1>2. [OutsideNext]_outsideVars => [Daemon!Next]_daemonVars
  BY DEF OutsideNext, outsideVars
<1>3. DaemonInv => UsersStopFirst
  <2> SUFFICES ASSUME DaemonInv, ~early, NEW p \in Daemon!Parts, NEW q \in Daemon!Needs(p),
                      <<p, q>> \notin Daemon!Outlived, part[q] = "down", part[p] = "up"
               PROVE  FALSE
    BY DEF UsersStopFirst, Daemon!UsersStopFirst
  <2>1. q \in Daemon!Parts
    BY DEF Daemon!Needs, Daemon!Parts, Daemon!BuildOrder, Daemon!ToSet
  <2>2. stopping > 0
    BY <2>1 DEF DaemonInv
  <2>3. PICK i \in 1..Len(Daemon!StopOrder) : i < stopping /\ Daemon!StopOrder[i] = q
    BY <2>1, <2>2 DEF DaemonInv
  <2>4. PICK j \in 1..Len(Daemon!StopOrder) : j < i /\ Daemon!StopOrder[j] = p
    BY <2>3, UsersComeFirst
  <2>5. j < stopping
    BY <2>3, <2>4 DEF DaemonInv
  <2> QED
    BY <2>2, <2>4, <2>5 DEF DaemonInv
<1> QED
  BY <1>1, <1>2, <1>3, DaemonStep, PTL DEF OutsideSpec
=============================================================================
