----------------------------- MODULE PlansStore -----------------------------
(***************************************************************************)
(* engineering-plugin/lib/store.js and the reconcile of lib/inbox.js: the  *)
(* events file of one plan, appended to, answered and reconciled by the    *)
(* processes that work on the repository (servers, the extension, the      *)
(* `plan` command).                                                        *)
(*                                                                         *)
(* A process runs each operation synchronously, so only other processes    *)
(* come between its file system calls; a write is a rename.  An event is   *)
(* its id, the file a status for each id, and "none" is one not there.     *)
(* Rejected and deferred go the way of incorporated.                       *)
(***************************************************************************)
EXTENDS FiniteSets, Naturals

CONSTANTS
    Writers,     \* the processes that append and respond (HTTP servers)
    Reconcilers, \* the other ones: they only reconcile
    Events,      \* ids of events
    Blocks,      \* those of type "block"
    MaxEvents,   \* limits.maxEventsPerPlan
    MaxTries,    \* attempts at the lock before "lock timeout" (200)
    None

VARIABLES
    file,    \* event -> its status in <slug>.events.json
    latch,   \* the process whose lock file exists, or None
    op,      \* process -> the operation it is in
    acked,   \* history: the events whose append returned to its caller
    robbed,  \* history: an append removed the lock file of another process
    forgotten \* history: those of acked that were in the file when a read failed

storeVars == <<file, latch, op, acked, robbed, forgotten>>

Processes == Writers \cup Reconcilers
Status == {"open", "acknowledged", "blocked", "incorporated"}
Contents == [Events -> Status \cup {"none"}]
Nothing == [e \in Events |-> "none"]
Idle == [at |-> "idle", event |-> None, tries |-> 0, copy |-> Nothing]

Init ==
    /\ file = Nothing
    /\ latch = None
    /\ op = [p \in Processes |-> Idle]
    /\ acked = {}
    /\ robbed = FALSE
    /\ forgotten = {}

At(p, step) == op[p].at = step
Goto(p, step) == op' = [op EXCEPT ![p].at = step]
Returns(p) == op' = [op EXCEPT ![p] = Idle]
Present(contents) == {e \in Events : contents[e] # "none"}

-----------------------------------------------------------------------------
\* The life of an event

CanTransition(from, to) ==
    \/ from = "open" /\ to \in {"acknowledged", "blocked"}
    \/ from = "acknowledged" /\ to \in {"incorporated", "blocked"}
    \/ from = "blocked" /\ to \in {"acknowledged", "incorporated"}

IsActive(e, contents) == e \in Blocks /\ contents[e] \in Status \ {"incorporated"}

\* Every event that is not settled is acknowledged and decided: a block stays a
\* block, the rest is incorporated.  The pass throws at a block that is one
\* already.
Decided(e, status) ==
    IF status \in {"none", "incorporated"} THEN status
    ELSE IF e \in Blocks THEN "blocked" ELSE "incorporated"
Reconciled(contents) == [e \in Events |-> Decided(e, contents[e])]
ReconcileThrows(contents) == \E e \in Blocks : contents[e] = "blocked"

-----------------------------------------------------------------------------
\* appendEvent

AppendBegins(p, e) ==
    /\ At(p, "idle") /\ e \notin acked /\ \A q \in Processes : op[q].event # e
    /\ op' = [op EXCEPT ![p].at = "lock", ![p].event = e]
    /\ UNCHANGED <<file, latch, acked, robbed, forgotten>>

\* Fault: the lock file is opened without O_EXCL.
LockShared(p) ==
    /\ At(p, "lock")
    /\ latch' = p
    /\ Goto(p, "read")
    /\ UNCHANGED <<file, acked, robbed, forgotten>>

LockTaken(p) ==
    /\ At(p, "lock") /\ latch = None
    /\ latch' = p
    /\ Goto(p, "read")
    /\ UNCHANGED <<file, acked, robbed, forgotten>>

\* Another process has the lock: spin, up to the last attempt.
LockBusy(p) ==
    /\ At(p, "lock") /\ latch # None
    /\ \/ op[p].tries < MaxTries /\ op' = [op EXCEPT ![p].tries = @ + 1]
       \/ op[p].tries = MaxTries /\ Returns(p)
    /\ UNCHANGED <<file, latch, acked, robbed, forgotten>>

\* readJsonArray: a file that cannot be read, or is no JSON array, reads as one
\* without events.
Reads(contents) ==
    \/ contents = file /\ UNCHANGED forgotten
    \/ contents = Nothing /\ forgotten' = forgotten \cup (acked \cap Present(file))

AppendReads(p, contents) ==
    /\ At(p, "read") /\ Reads(contents)
    /\ IF Cardinality(Present(contents)) < MaxEvents
       THEN op' = [op EXCEPT ![p].at = "write", ![p].copy = contents]
       ELSE Goto(p, "failed")
    /\ UNCHANGED <<file, latch, acked, robbed>>

AppendWrites(p) ==
    /\ At(p, "write")
    /\ file' = [op[p].copy EXCEPT ![op[p].event] = "open"]
    /\ Goto(p, "written")
    /\ UNCHANGED <<latch, acked, robbed, forgotten>>

\* The disk refuses the write.
WriteFails(p) ==
    /\ At(p, "write") \/ At(p, "rewrite")
    /\ IF At(p, "write") THEN Goto(p, "failed") ELSE Returns(p)
    /\ UNCHANGED <<file, latch, acked, robbed, forgotten>>

Unlatched(p) ==
    /\ latch' = None
    /\ robbed' = (robbed \/ latch \notin {None, p})

\* finally: the lock file goes, whoever created the one that is there.
Unlock(p) ==
    /\ At(p, "written")
    /\ Unlatched(p)
    /\ acked' = acked \cup {op[p].event}
    /\ Returns(p)
    /\ UNCHANGED <<file, forgotten>>

UnlockFailed(p) ==
    /\ At(p, "failed")
    /\ Unlatched(p)
    /\ Goto(p, "caught")
    /\ UNCHANGED <<file, acked, forgotten>>

\* catch: and once more.
UnlockAgain(p) ==
    /\ At(p, "caught")
    /\ Unlatched(p)
    /\ Returns(p)
    /\ UNCHANGED <<file, acked, forgotten>>

-----------------------------------------------------------------------------
\* respondToEvent and reconcile read the file, and write all of it, unlocked.
\* An event in a file that cannot be read is not found.

Respond(p, e, to) ==
    /\ At(p, "idle") /\ e \in Present(file)
    /\ LET from == IF file[e] = "open" /\ to # "acknowledged" THEN "acknowledged" ELSE file[e]
       IN /\ CanTransition(from, to)
          /\ op' = [op EXCEPT ![p] = [Idle EXCEPT !.at = "rewrite", !.event = e,
                                                  !.copy = [file EXCEPT ![e] = to]]]
    /\ UNCHANGED <<file, latch, acked, robbed, forgotten>>

Reconcile(p, contents) ==
    /\ At(p, "idle") /\ Reads(contents)
    /\ ~ReconcileThrows(contents)
    /\ op' = [op EXCEPT ![p].at = "rewrite", ![p].copy = Reconciled(contents)]
    /\ UNCHANGED <<file, latch, acked, robbed>>

Rewrite(p) ==
    /\ At(p, "rewrite")
    /\ file' = op[p].copy
    /\ Returns(p)
    /\ UNCHANGED <<latch, acked, robbed, forgotten>>

-----------------------------------------------------------------------------

\* The process dies; what it had created stays, and it is started again.
Crash(p) ==
    /\ ~At(p, "idle")
    /\ Returns(p)
    /\ UNCHANGED <<file, latch, acked, robbed, forgotten>>

Append(p) ==
    \/ \E e \in Events : AppendBegins(p, e)
    \/ LockTaken(p) \/ LockBusy(p)
    \/ (\E contents \in {file, Nothing} : AppendReads(p, contents)) \/ AppendWrites(p)
    \/ Unlock(p) \/ UnlockFailed(p) \/ UnlockAgain(p)

Next ==
    \/ \E p \in Writers : Append(p)
    \/ \E p \in Writers, e \in Events, to \in Status \ {"open"} : Respond(p, e, to)
    \/ \E p \in Processes, contents \in {file, Nothing} : Reconcile(p, contents)
    \/ \E p \in Processes : Rewrite(p) \/ WriteFails(p) \/ Crash(p)

-----------------------------------------------------------------------------

\* Two appends never both hold the contents they read, so that neither drops
\* what the other one adds: not when one dies with the lock, times out waiting,
\* fails or finds the file full; until one that failed removes, with its second
\* unlink, the lock another process has taken in between.
AppendsExclude ==
    robbed \/ \A p, q \in Processes :
        p # q => ~(op[p].at \in {"read", "write", "written"} /\
                   op[q].at \in {"read", "write", "written"})

\* No process answers an event or reconciles.
OnlyAppends == \A p \in Processes : ~At(p, "rewrite")

\* What was appended, its author told, is in the file as it was appended: with
\* OnlyAppends, until a lock was removed that belonged to another, and but for
\* what was there when a read failed, for the append then writes over it.
AppendedIsThere == robbed \/ \A e \in acked \ forgotten : file[e] = "open"

\* specs/html-plan-ecosystem.md:164: a block whose author was told it is
\* recorded holds until somebody settles it (where no read fails).
BlockHolds ==
    [][\A e \in acked \ forgotten : IsActive(e, file) /\ ~IsActive(e, file')
          => \E p \in Writers : At(p, "rewrite") /\ op[p].event = e]_storeVars
=============================================================================
