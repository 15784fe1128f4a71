------------------------------ MODULE MCPlans ------------------------------
(***************************************************************************)
(* The plans of a repository: the processes that agree on a server, the    *)
(* events they store, and what a block halts.  The three share no state    *)
(* (the server's processes find each other through files of their own), so *)
(* a behaviour follows one of them (focus).                                *)
(***************************************************************************)
EXTENDS PlansServer

CONSTANTS
    Writers, Reconcilers, Events, Blocks, MaxEvents, MaxTries,
    Length, Elsewhere

VARIABLES
    focus,
    file, latch, op, acked, robbed, forgotten,
    depends, blocked, halted, changed, next, done

Store == INSTANCE PlansStore
Halt == INSTANCE Halting

ASSUME PlansAssumption ==
    /\ {MaxEvents, MaxTries, Length} \subseteq Nat
    /\ Blocks \subseteq Events /\ Elsewhere \cap (1 .. Length) = {}
    /\ Writers \cap Reconcilers = {} /\ None \notin Writers \cup Reconcilers

storeVars == <<file, latch, op, acked, robbed, forgotten>>
haltVars == <<depends, blocked, halted, changed, next, done>>

PlansInit ==
    /\ focus \in {"server", "store", "halt"}
    /\ Init /\ (focus # "server" => record = None /\ lock = None)
    /\ Store!Init
    /\ Halt!Init /\ (focus # "halt" => blocked = {} /\ \A s \in 1 .. Length : depends[s] = {})

PlansNext ==
    \/ focus = "server" /\ Next /\ UNCHANGED <<focus, storeVars, haltVars>>
    \/ focus = "store" /\ Store!Next /\ UNCHANGED <<focus, vars, haltVars>>
    \/ focus = "halt" /\ Halt!Next /\ UNCHANGED <<focus, vars, storeVars>>

PlansSpec == PlansInit /\ [][PlansNext]_<<focus, vars, storeVars, haltVars>> /\ Fairness

AppendsExclude == Store!AppendsExclude
BlockHolds == Store!BlockHolds
HaltsDependents == Halt!HaltsDependents
=============================================================================
