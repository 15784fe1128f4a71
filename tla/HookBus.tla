---- MODULE HookBus ----
(***************************************************************************)
(* bridge/core/hook-bus.js over db/repositories/hook-repo.js: one emission *)
(* after another of an event, each sent to its hooks side by side, while   *)
(* hooks are enabled, disabled and removed over the control socket.        *)
(*                                                                         *)
(* A hook's endpoint answers, fails or does not answer; its verdict is in  *)
(* the body, read after the timer has been cleared.                        *)
(***************************************************************************)
EXTENDS Naturals, FiniteSets

CONSTANTS
    Hooks,
    Unfit        \* hooks whose action has no https url, or no secret

VARIABLES
    enabled,     \* hooks that are there and enabled
    emission,    \* "idle", "listing", "sending", "returned" or "failed"
    call         \* [Hooks -> the hook's dispatch in this emission]

hookVars == <<enabled, emission, call>>

Pending == {"sent", "answered"}
Over == {"unfit", "timeout", "error", "refused", "passed", "blocked"}

Init ==
    /\ enabled = {}
    /\ emission = "idle"
    /\ call = [h \in Hooks |-> "none"]

\* HookRepo.create and remove, for hook_create and hook_remove, and setEnabled.
Toggle(h) ==
    /\ enabled' = IF h \in enabled THEN enabled \ {h} ELSE enabled \cup {h}
    /\ UNCHANGED <<emission, call>>

\* An event there is none of is refused.
Emit ==
    /\ emission \in {"idle", "returned", "failed"}
    /\ emission' \in {"listing", "failed"}
    /\ call' = [h \in Hooks |-> "none"]
    /\ UNCHANGED enabled

\* listByEvent, then _matchesSelector: some of the hooks enabled now.  All are
\* sent at once; one whose action is not fit is only reported.
Lists(matched) ==
    /\ emission = "listing"
    /\ matched \subseteq enabled
    /\ emission' = "sending"
    /\ call' = [h \in Hooks |-> IF h \notin matched THEN "none"
                                ELSE IF h \in Unfit THEN "unfit" ELSE "sent"]
    /\ UNCHANGED <<enabled>>

ListFails ==
    /\ emission = "listing"
    /\ emission' = "failed"
    /\ UNCHANGED <<enabled, call>>

-----------------------------------------------------------------------------
(* _dispatchOne *)

Settles(h, from, how) ==
    /\ call[h] = from
    /\ call' = [call EXCEPT ![h] = how]

\* The response beats the timer, which is cleared.
Answers(h) ==
    /\ Settles(h, "sent", "answered")
    /\ UNCHANGED <<enabled, emission>>

\* Fault: the timer aborts a request that has begun to answer, and no other.
TimesOutLate(h) ==
    /\ Settles(h, "answered", "timeout")
    /\ UNCHANGED <<enabled, emission>>

TimesOut(h) ==
    /\ Settles(h, "sent", "timeout")
    /\ UNCHANGED <<enabled, emission>>

Fails(h) ==
    /\ Settles(h, "sent", "error")
    /\ UNCHANGED <<enabled, emission>>

Verdict(ok, says) == IF ~ok THEN "refused" ELSE IF says THEN "blocked" ELSE "passed"

\* response.text: a body that cannot be read or parsed says nothing.
BodyRead(h, ok, says) ==
    /\ Settles(h, "answered", Verdict(ok, says))
    /\ UNCHANGED <<enabled, emission>>

\* Promise.allSettled.
Return ==
    /\ emission = "sending"
    /\ \A h \in Hooks : call[h] \in Over \cup {"none"}
    /\ emission' = "returned"
    /\ UNCHANGED <<enabled, call>>

Next ==
    \/ Emit \/ ListFails \/ Return
    \/ \E matched \in SUBSET Hooks : Lists(matched)
    \/ \E h \in Hooks :
          \/ Toggle(h) \/ Answers(h) \/ TimesOut(h) \/ Fails(h)
          \/ \E ok \in BOOLEAN, says \in BOOLEAN : BodyRead(h, ok, says)

-----------------------------------------------------------------------------

\* Timers fire and answers of the database come.  The body of a response is
\* awaited with the timer cleared (hook-bus.js:296, :303): it may never end.
Fairness ==
    /\ WF_hookVars(ListFails \/ \E matched \in SUBSET Hooks : Lists(matched))
    /\ WF_hookVars(Return)
    /\ \A h \in Hooks : WF_hookVars(TimesOut(h))

\* An emission ends although endpoints are silent, fail or are not fit, and
\* although hooks change under it, unless an endpoint that has begun to answer
\* never ends its body: that alone holds emit() for ever (:109-179, :241-358).
EmissionEnds ==
    emission = "listing" ~>
       \/ emission \in {"returned", "failed"}
       \/ \E h \in Hooks : [](call[h] = "answered")
====
