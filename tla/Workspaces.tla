---- MODULE Workspaces ----
(***************************************************************************)
(* bridge/core/workspace-manager.js over db/repositories/workspace-repo.js *)
(* and docker: the rows and the containers of one user.  A container is    *)
(* named after its row, so both have the same number; a later row is a     *)
(* newer one.  Every chat of the user, and every MCP session, calls ensure *)
(* when its agent starts; stop and reap are offered to operators.          *)
(*                                                                         *)
(* A container may die or be removed by others at any time, any call of    *)
(* docker or of the database may fail, and the process may die.            *)
(***************************************************************************)
EXTENDS Naturals, FiniteSets

CONSTANTS
    Ensures,     \* calls of ensure
    Stops,       \* calls of stop and of reap
    MaxRows      \* bound: rows ever made

Rows == 1..MaxRows
NoRow == 0

VARIABLES
    row,         \* [Rows -> the row's state, and whether it names its container]
    box,         \* [Rows -> the state of the row's container]
    ensure,      \* [Ensures -> the call's step and row]
    stop,        \* [Stops -> the call's step, row, aim and what it read]
    overlapped,  \* history: a call ran beside an ensure that had not ended
    leaked       \* history: a container could not be cleaned up

workspaceVars == <<row, box, ensure, stop, overlapped, leaked>>

RowStates == {"none", "provisioning", "running", "stopped", "failed", "reaped"}
Boxes == {"none", "created", "running", "exited"}
LiveStates == {"running", "provisioning"}

Init ==
    /\ row = [r \in Rows |-> [state |-> "none", known |-> FALSE]]
    /\ box = [r \in Rows |-> "none"]
    /\ ensure = [e \in Ensures |-> [pc |-> "idle", row |-> NoRow]]
    /\ stop = [s \in Stops |-> [pc |-> "idle", row |-> NoRow, aim |-> "stopped", known |-> FALSE]]
    /\ overlapped = FALSE
    /\ leaked = FALSE

Made == {r \in Rows : row[r].state # "none"}
NextRow == Cardinality(Made) + 1
Busy == \/ \E e \in Ensures : ensure[e].pc \notin {"idle", "returned", "failed"}
        \/ \E s \in Stops : stop[s].pc \notin {"idle", "done"}

\* Fault: the oldest row that is not reaped.
OldestRow == LET C == {r \in Made : row[r].state # "reaped"} IN
             IF C = {} THEN NoRow ELSE CHOOSE r \in C : \A q \in C : r <= q

\* WorkspaceRepo.byUserId: the newest row that is not reaped.
ByUserId == LET C == {r \in Made : row[r].state # "reaped"} IN
            IF C = {} THEN NoRow ELSE CHOOSE r \in C : \A q \in C : r >= q

Goto(e, pc) == ensure' = [ensure EXCEPT ![e].pc = pc]

-----------------------------------------------------------------------------
(* ensure *)

Find(e) ==
    LET r == ByUserId IN
    /\ ensure[e].pc = "idle"
    /\ ensure' = [ensure EXCEPT ![e] =
          IF r # NoRow /\ row[r].state \in LiveStates THEN [pc |-> "probe", row |-> r]
                                                      ELSE [pc |-> "create", row |-> NoRow]]
    /\ overlapped' = (overlapped \/ Busy)
    /\ UNCHANGED <<row, box, stop, leaked>>

\* isAlive reads the row again and asks docker; a row without a container, and
\* a container docker does not know or that does not run, is not alive.
Alive(r) == row[r].known /\ box[r] = "running"

Reattach(e) ==
    /\ ensure[e].pc = "probe"
    /\ Alive(ensure[e].row)
    /\ Goto(e, "returned")
    /\ UNCHANGED <<row, box, stop, overlapped, leaked>>

Replace(e) ==
    /\ ensure[e].pc = "probe"
    /\ ~Alive(ensure[e].row)
    /\ ensure' = [ensure EXCEPT ![e] = [pc |-> "create", row |-> NoRow]]
    /\ UNCHANGED <<row, box, stop, overlapped, leaked>>

\* A database that fails, or a docker that does not answer, ends the call
\* before it has made anything.
ProbeFails(e) ==
    /\ ensure[e].pc \in {"probe", "create"}
    /\ Goto(e, "failed")
    /\ UNCHANGED <<row, box, stop, overlapped, leaked>>

CreateRow(e) ==
    /\ ensure[e].pc = "create"
    /\ NextRow \in Rows
    /\ row' = [row EXCEPT ![NextRow].state = "provisioning"]
    /\ ensure' = [ensure EXCEPT ![e] = [pc |-> "box", row |-> NextRow]]
    /\ UNCHANGED <<box, stop, overlapped, leaked>>

CreateBox(e) ==
    /\ ensure[e].pc = "box"
    /\ box' = [box EXCEPT ![ensure[e].row] = "created"]
    /\ Goto(e, "start")
    /\ UNCHANGED <<row, stop, overlapped, leaked>>

StartBox(e) ==
    /\ ensure[e].pc = "start"
    /\ box' = [box EXCEPT ![ensure[e].row] = IF @ = "created" THEN "running" ELSE @]
    /\ Goto(e, "publish")
    /\ UNCHANGED <<row, stop, overlapped, leaked>>

\* The write names the container and calls the row running, whatever the row
\* has become meanwhile.
Publish(e) ==
    /\ ensure[e].pc = "publish"
    /\ row' = [row EXCEPT ![ensure[e].row] = [state |-> "running", known |-> TRUE]]
    /\ Goto(e, "returned")
    /\ UNCHANGED <<box, stop, overlapped, leaked>>

\* Any of the four fails: a container that was made is removed, by force ...
BootFails(e) ==
    /\ ensure[e].pc \in {"box", "start", "publish"}
    /\ Goto(e, IF ensure[e].pc = "box" THEN "mark" ELSE "clean")
    /\ UNCHANGED <<row, box, stop, overlapped, leaked>>

\* ... as well as it can be, and the row is called failed.
Clean(e) ==
    /\ ensure[e].pc = "clean"
    /\ \/ box' = [box EXCEPT ![ensure[e].row] = "none"] /\ UNCHANGED leaked
       \/ leaked' = TRUE /\ UNCHANGED box
    /\ Goto(e, "mark")
    /\ UNCHANGED <<row, stop, overlapped>>

Mark(e) ==
    /\ ensure[e].pc = "mark"
    /\ \/ row' = [row EXCEPT ![ensure[e].row].state = "failed"]
       \/ UNCHANGED row
    /\ Goto(e, "failed")
    /\ UNCHANGED <<box, stop, overlapped, leaked>>

\* The caller asks again.
AskAgain(e) ==
    /\ ensure[e].pc \in {"returned", "failed"}
    /\ ensure' = [ensure EXCEPT ![e] = [pc |-> "idle", row |-> NoRow]]
    /\ UNCHANGED <<row, box, stop, overlapped, leaked>>

-----------------------------------------------------------------------------
(* stop and reap *)

StopBegins(s, r, aim) ==
    /\ stop[s].pc = "idle"
    /\ r \in Made
    /\ stop' = [stop EXCEPT ![s] = [pc |-> IF row[r].known THEN "stop" ELSE "write",
                                    row |-> r, aim |-> aim, known |-> row[r].known]]
    /\ overlapped' = (overlapped \/ Busy)
    /\ UNCHANGED <<row, box, ensure, leaked>>

\* container.stop, then container.remove; a container docker does not know
\* (404) is gone already.
StopBox(s) ==
    LET r == stop[s].row IN
    /\ stop[s].pc = "stop"
    /\ \/ /\ box[r] = "running"
          /\ box' = [box EXCEPT ![r] = "exited"]
          /\ stop' = [stop EXCEPT ![s].pc = "remove"]
       \/ /\ box[r] = "none"
          /\ stop' = [stop EXCEPT ![s].pc = "write"]
          /\ UNCHANGED box
    /\ UNCHANGED <<row, ensure, overlapped, leaked>>

RemoveBox(s) ==
    /\ stop[s].pc = "remove"
    /\ box' = [box EXCEPT ![stop[s].row] = "none"]
    /\ stop' = [stop EXCEPT ![s].pc = "write"]
    /\ UNCHANGED <<row, ensure, overlapped, leaked>>

\* Another error ends the call, with the row as it was: docker answers 304 to
\* stop of a container that has stopped.
StopFails(s) ==
    /\ stop[s].pc \in {"stop", "remove"}
    /\ stop' = [stop EXCEPT ![s].pc = "done"]
    /\ UNCHANGED <<row, box, ensure, overlapped, leaked>>

StopWrites(s) ==
    /\ stop[s].pc = "write"
    /\ row' = [row EXCEPT ![stop[s].row].state = stop[s].aim]
    /\ stop' = [stop EXCEPT ![s].pc = "done"]
    /\ UNCHANGED <<box, ensure, overlapped, leaked>>

-----------------------------------------------------------------------------
(* Docker and the process *)

BoxDies(r) ==
    /\ box[r] = "running"
    /\ box' = [box EXCEPT ![r] = "exited"]
    /\ UNCHANGED <<row, ensure, stop, overlapped, leaked>>

BoxRemoved(r) ==
    /\ box[r] \in {"created", "exited"}
    /\ box' = [box EXCEPT ![r] = "none"]
    /\ UNCHANGED <<row, ensure, stop, overlapped, leaked>>

\* The process dies: a row half provisioned stays so, and its container runs
\* on under a row that does not name it.
Crash ==
    /\ Busy
    /\ ensure' = [e \in Ensures |-> [pc |-> "idle", row |-> NoRow]]
    /\ stop' = [s \in Stops |-> [stop[s] EXCEPT !.pc = IF @ = "idle" THEN "idle" ELSE "done"]]
    /\ leaked' = TRUE
    /\ UNCHANGED <<row, box, overlapped>>

Next ==
    \/ \E e \in Ensures :
          \/ Find(e) \/ Reattach(e) \/ Replace(e) \/ ProbeFails(e) \/ CreateRow(e)
          \/ CreateBox(e) \/ StartBox(e) \/ Publish(e) \/ BootFails(e)
          \/ Clean(e) \/ Mark(e) \/ AskAgain(e)
    \/ \E s \in Stops :
          \/ \E r \in Rows, aim \in {"stopped", "reaped"} : StopBegins(s, r, aim)
          \/ StopBox(s) \/ RemoveBox(s) \/ StopFails(s) \/ StopWrites(s)
    \/ \E r \in Rows : BoxDies(r) \/ BoxRemoved(r)
    \/ Crash

-----------------------------------------------------------------------------

\* As long as no two operations overlapped, nothing was left behind by a crash
\* and no cleanup failed, one container of the user runs, however containers
\* die, rows fail and operators stop them: a boot that fails hides the row
\* before it, and that row's container must not be running any more.
SingleBox ==
    ~overlapped /\ ~leaked => Cardinality({r \in Rows : box[r] = "running"}) <= 1
====
