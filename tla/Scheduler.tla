---- MODULE Scheduler ----
(***************************************************************************)
(* bridge/core/scheduler.js over db/repositories/scheduled-task-repo.js    *)
(* and agenda: creations and removals of tasks beside each other and       *)
(* beside the job's runs.  A task's row is inserted without a job, linked  *)
(* to it by a second write, and found by the job's id when the job runs.   *)
(*                                                                         *)
(* agenda.every keeps one job for a name, and all tasks use one name: it   *)
(* makes the job or changes the one there is.                              *)
(***************************************************************************)
EXTENDS Naturals, FiniteSets

CONSTANTS
    Tasks,
    Runs,        \* bound: runs of the job under way at once
    MaxJobs,     \* bound: jobs ever made
    None

NoJob == 0
JobIds == 1..MaxJobs

VARIABLES
    agenda,      \* "stopped" or "started"
    job,         \* the job there is, or NoJob
    made,        \* jobs made so far
    task,        \* [Tasks -> the row: whether it is there, its job, enabled]
    creating,    \* [Tasks -> the step of its creation and the job it got]
    removing,    \* [Tasks -> the step of its removal and the job it read]
    run,         \* [Runs -> the step, the job and the row of the run]
    gone         \* history: [Runs -> tasks whose removal had returned when it began]

schedulerVars == <<agenda, job, made, task, creating, removing, run, gone>>
ops == <<creating, removing>>

NoRow == [there |-> FALSE, job |-> NoJob, enabled |-> TRUE]
IdleRun == [pc |-> "idle", job |-> NoJob, row |-> None]

Init ==
    /\ agenda = "stopped"
    /\ job = NoJob
    /\ made = 0
    /\ task = [t \in Tasks |-> NoRow]
    /\ creating = [t \in Tasks |-> [pc |-> "idle", job |-> NoJob]]
    /\ removing = [t \in Tasks |-> [pc |-> "idle", job |-> NoJob]]
    /\ run = [r \in Runs |-> IdleRun]
    /\ gone = [r \in Runs |-> {}]

Start ==
    /\ agenda = "stopped"
    /\ agenda' = "started"
    /\ UNCHANGED <<job, made, task, ops, run, gone>>

\* stop: runs under way go on; what agenda throws is ignored.
Stop ==
    /\ agenda = "started"
    /\ agenda' = "stopped"
    /\ UNCHANGED <<job, made, task, ops, run, gone>>

-----------------------------------------------------------------------------
(* create *)

\* A creation that is refused changes nothing.
CreateStub(t) ==
    /\ creating[t].pc = "idle"
    /\ creating' = [creating EXCEPT ![t].pc = "every"]
    /\ task' = [task EXCEPT ![t].there = TRUE]
    /\ UNCHANGED <<agenda, job, made, removing, run, gone>>

Every(t) ==
    /\ creating[t].pc = "every"
    /\ \/ job # NoJob /\ UNCHANGED <<job, made>>
       \/ job = NoJob /\ made < MaxJobs /\ made' = made + 1 /\ job' = made + 1
    /\ creating' = [creating EXCEPT ![t] = [pc |-> "link", job |-> job']]
    /\ UNCHANGED <<agenda, task, removing, run, gone>>

\* agenda refuses: the row goes again, if the database lets it.
EveryFails(t) ==
    /\ creating[t].pc = "every"
    /\ creating' = [creating EXCEPT ![t].pc = "done"]
    /\ task' \in {task, [task EXCEPT ![t] = NoRow]}
    /\ UNCHANGED <<agenda, job, made, removing, run, gone>>

\* _patchAgendaJobId: a row that was removed meanwhile stays away.
Link(t) ==
    /\ creating[t].pc = "link"
    /\ creating' = [creating EXCEPT ![t] = [pc |-> "done", job |-> NoJob]]
    /\ task' = [task EXCEPT ![t].job = IF task[t].there THEN creating[t].job ELSE NoJob]
    /\ UNCHANGED <<agenda, job, made, removing, run, gone>>

\* The daemon dies between the writes, or one of them throws: the row keeps
\* no job.
CreateDies(t) ==
    /\ creating[t].pc \in {"every", "link"}
    /\ creating' = [creating EXCEPT ![t] = [pc |-> "done", job |-> NoJob]]
    /\ UNCHANGED <<agenda, job, made, task, removing, run, gone>>

\* ScheduledTaskRepo.setEnabled.
SetEnabled(t) ==
    /\ task[t].there
    /\ task' = [task EXCEPT ![t].enabled = ~@]
    /\ UNCHANGED <<agenda, job, made, ops, run, gone>>

-----------------------------------------------------------------------------
(* remove *)

\* A task that is not there is removed already.
RemoveFinds(t) ==
    /\ removing[t].pc = "idle"
    /\ creating[t].pc # "idle"
    /\ removing' = [removing EXCEPT ![t] = [pc |-> IF task[t].there THEN "cancel" ELSE "done",
                                            job |-> task[t].job]]
    /\ UNCHANGED <<agenda, job, made, task, creating, run, gone>>

\* Fault: a job that cannot be cancelled keeps its row.
AfterCancelFailsKept == "done"

AfterCancelFails == "delete"

Cancel(t) ==
    /\ removing[t].pc = "cancel"
    /\ \/ /\ job' = IF removing[t].job = job THEN NoJob ELSE job
          /\ removing' = [removing EXCEPT ![t] = [pc |-> "delete", job |-> NoJob]]
       \/ /\ removing[t].job # NoJob
          /\ removing' = [removing EXCEPT ![t] = [pc |-> AfterCancelFails, job |-> NoJob]]
          /\ UNCHANGED job
    /\ UNCHANGED <<agenda, made, task, creating, run, gone>>

Delete(t) ==
    /\ removing[t].pc = "delete"
    /\ task' = [task EXCEPT ![t] = NoRow]
    /\ removing' = [removing EXCEPT ![t].pc = "done"]
    /\ UNCHANGED <<agenda, job, made, creating, run, gone>>

-----------------------------------------------------------------------------
(* The handler of the job *)

Fire(r) ==
    /\ agenda = "started"
    /\ job # NoJob
    /\ run[r].pc = "idle"
    /\ run' = [run EXCEPT ![r] = [pc |-> "fired", job |-> job, row |-> None]]
    /\ gone' = [gone EXCEPT ![r] = {t \in Tasks : removing[t].pc = "done"}]
    /\ UNCHANGED <<agenda, job, made, task, ops>>

\* findByAgendaJobId: some row with the job; a disabled one is skipped.
Find(r) ==
    LET rows == {t \in Tasks : task[t].there /\ task[t].job = run[r].job} IN
    /\ run[r].pc = "fired"
    /\ \E t \in rows :
          run' = [run EXCEPT ![r] = IF task[t].enabled
                                    THEN [pc |-> "dispatch", job |-> NoJob, row |-> t]
                                    ELSE IdleRun]
    /\ UNCHANGED <<agenda, job, made, task, ops, gone>>

\* No row, or the database fails.
FindsNothing(r) ==
    /\ run[r].pc = "fired"
    /\ run' = [run EXCEPT ![r] = IdleRun]
    /\ gone' = [gone EXCEPT ![r] = {}]
    /\ UNCHANGED <<agenda, job, made, task, ops>>

\* The dispatcher, and the two writes of the run's times into a row that may
\* be gone; nothing it throws reaches agenda.
Dispatch(r) ==
    /\ run[r].pc = "dispatch"
    /\ run' = [run EXCEPT ![r] = IdleRun]
    /\ gone' = [gone EXCEPT ![r] = {}]
    /\ UNCHANGED <<agenda, job, made, task, ops>>

Next ==
    \/ Start \/ Stop
    \/ \E t \in Tasks :
          \/ CreateStub(t) \/ Every(t) \/ EveryFails(t) \/ Link(t) \/ CreateDies(t)
          \/ SetEnabled(t) \/ RemoveFinds(t) \/ Cancel(t) \/ Delete(t)
    \/ \E r \in Runs : Fire(r) \/ Find(r) \/ FindsNothing(r) \/ Dispatch(r)

-----------------------------------------------------------------------------

\* A run of the job that begins after the removal of a task has returned does
\* not dispatch it, although the job runs on when its cancellation failed, when
\* other tasks share it, or when the removal came between the creation's writes.
RemovedIsQuiet ==
    \A r \in Runs : run[r].pc = "dispatch" => run[r].row \notin gone[r]
====
