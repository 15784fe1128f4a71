------------------------------ MODULE Halting ------------------------------
(***************************************************************************)
(* haltedTasks of engineering-plugin/lib/inbox.js: which sections of a     *)
(* plan must not be started while some are blocked.  The code goes over    *)
(* the sections in their order, again and again until a pass adds none;    *)
(* here it looks at one section in each step.                              *)
(***************************************************************************)
EXTENDS Naturals

CONSTANTS
    Length,   \* the plan has the sections 1 .. Length, in this order
    Elsewhere \* section ids that are not in the plan

VARIABLES
    depends, \* section -> depends_on
    blocked, \* blockedSections(events): some are not in the plan
    halted, changed,
    next,    \* the section the pass looks at
    done

haltVars == <<depends, blocked, halted, changed, next, done>>

Sections == 1 .. Length
Ids == Sections \cup Elsewhere

Init ==
    /\ depends \in [Sections -> SUBSET Ids]
    /\ \A s \in Sections : s \notin depends[s]
    /\ blocked \in SUBSET Ids
    /\ halted = blocked \cap Sections
    /\ changed = FALSE /\ next = 1 /\ done = FALSE

Halts(s) == s \notin halted /\ depends[s] \cap (halted \cup blocked) # {}

Look ==
    /\ next <= Length
    /\ halted' = IF Halts(next) THEN halted \cup {next} ELSE halted
    /\ changed' = (changed \/ Halts(next))
    /\ next' = next + 1
    /\ UNCHANGED <<depends, blocked, done>>

\* Fault: one pass over the sections is taken to be enough.
OnePass ==
    /\ next > Length /\ ~done
    /\ done' = TRUE
    /\ UNCHANGED <<depends, blocked, halted, changed, next>>

PassEnds ==
    /\ next > Length /\ ~done
    /\ done' = ~changed
    /\ next' = IF changed THEN 1 ELSE next
    /\ changed' = FALSE
    /\ UNCHANGED <<depends, blocked, halted>>

Next == Look \/ PassEnds

\* What reaches a blocked section through depends_on: the least set of sections
\* that holds the blocked ones and whatever depends on one of it or on a blocked
\* section.
Closed(set) ==
    \A s \in Sections : s \in blocked \/ depends[s] \cap (set \cup blocked) # {} => s \in set
Dependents == {s \in Sections : \A set \in SUBSET Sections : Closed(set) => s \in set}

\* A block halts the section it is on and all that depends on it, directly or
\* through others, in whatever order the plan lists them, and nothing else.
HaltsDependents == done => halted = Dependents
=============================================================================
