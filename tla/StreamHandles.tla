---- MODULE StreamHandles ----
(***************************************************************************)
(* The reply on the platform: sources/discord/discord-stream-handle.js,    *)
(* which gathers text and edits one message after a pause, and             *)
(* sources/slack/slack-stream-handle.js, which appends to Slack's stream   *)
(* or, without it, edits one message with all the text at each append.     *)
(*                                                                         *)
(* Text is the number of pieces appended.  The platform applies the calls  *)
(* of one message in order, and any of them may fail.                      *)
(***************************************************************************)
EXTENDS Naturals, Sequences

CONSTANTS
    MaxText      \* bound: pieces of text

VARIABLES
    mode,        \* "discord", "native" or "fallback"
    message,     \* "none", "open", "stopping" or "stopped"
    text,        \* pieces in the handle's buffer
    given,       \* pieces the proxy has appended, up to stop
    calls,       \* calls under way: edits with the text each carries, or appends
    shown,       \* pieces the message shows
    timer,       \* whether a debounced edit is due
    typing,      \* whether the typing sign is renewed
    lastFailed   \* whether the call that was to show the end has failed

handleVars == <<mode, message, text, given, calls, shown, timer, typing, lastFailed>>

Init ==
    /\ mode \in {"discord", "native", "fallback"}
    /\ message = "none"
    /\ text = 0 /\ given = 0 /\ shown = 0
    /\ calls = <<>>
    /\ timer = FALSE /\ typing = FALSE /\ lastFailed = FALSE

\* _flush and chat.update: the whole buffer as it is now.
Edit(carried) == calls' = Append(calls, [kind |-> "edit", upto |-> carried])

-----------------------------------------------------------------------------

\* Discord's placeholder, Slack's stream or Slack's placeholder; one that fails
\* leaves no message.
DiscordStart ==
    /\ message = "none" /\ mode = "discord"
    /\ message' = "open"
    /\ typing' = TRUE
    /\ UNCHANGED <<mode, text, given, calls, shown, timer, lastFailed>>

SlackStart ==
    /\ message = "none" /\ mode # "discord"
    /\ message' = "open"
    /\ UNCHANGED <<mode, text, given, calls, shown, timer, typing, lastFailed>>

\* After stop nothing is taken.  The timer starts anew at each piece.
DiscordAppend ==
    /\ mode = "discord" /\ message = "open" /\ given < MaxText
    /\ text' = text + 1
    /\ given' = given + 1
    /\ timer' = TRUE
    /\ UNCHANGED <<mode, message, calls, shown, typing, lastFailed>>

\* A piece that fails to be appended is logged and not sent again.
NativeAppend ==
    /\ mode = "native" /\ message = "open" /\ given < MaxText
    /\ given' = given + 1
    /\ calls' = Append(calls, [kind |-> "append", upto |-> 1])
    /\ UNCHANGED <<mode, message, text, shown, timer, typing, lastFailed>>

FallbackAppend ==
    /\ mode = "fallback" /\ message = "open" /\ given < MaxText
    /\ text' = text + 1
    /\ given' = given + 1
    /\ Edit(text + 1)
    /\ UNCHANGED <<mode, message, shown, timer, typing, lastFailed>>

\* Slack's handle has no guard here: what comes after stop still edits.
LateFallbackAppend ==
    /\ mode = "fallback" /\ message \in {"stopping", "stopped"} /\ given < MaxText
    /\ text' = text + 1
    /\ given' = given + 1
    /\ Edit(text + 1)
    /\ UNCHANGED <<mode, message, shown, timer, typing, lastFailed>>

\* _scheduleFlush's timer.
Debounced ==
    /\ timer
    /\ timer' = FALSE
    /\ Edit(text)
    /\ UNCHANGED <<mode, message, text, given, shown, typing, lastFailed>>

-----------------------------------------------------------------------------

\* Fault: stop takes the timer away and leaves the last edit to it.
DiscordStopBare ==
    /\ message = "open" /\ mode = "discord"
    /\ message' = "stopped"
    /\ timer' = FALSE /\ typing' = FALSE
    /\ UNCHANGED <<mode, text, given, calls, shown, lastFailed>>

\* The timer is taken away and the text it was due for is edited now.
DiscordStop ==
    /\ message = "open" /\ mode = "discord"
    /\ message' = "stopping"
    /\ timer' = FALSE /\ typing' = FALSE
    /\ Edit(text)
    /\ UNCHANGED <<mode, text, given, shown, lastFailed>>

NativeStop ==
    /\ message = "open" /\ mode = "native"
    /\ message' = "stopping"
    /\ calls' = Append(calls, [kind |-> "end", upto |-> 0])
    /\ UNCHANGED <<mode, text, given, shown, timer, typing, lastFailed>>

FallbackStop ==
    /\ message = "open" /\ mode = "fallback"
    /\ message' = "stopping"
    /\ Edit(text)
    /\ UNCHANGED <<mode, text, given, shown, timer, typing, lastFailed>>

\* The platform has taken a call or refused it; a refusal is logged.
CallSettles(ok) ==
    /\ calls # <<>>
    /\ calls' = Tail(calls)
    /\ LET call == Head(calls) IN
       /\ shown' = IF ~ok THEN shown
                   ELSE IF call.kind = "append" THEN shown + call.upto
                   ELSE IF call.kind = "edit" THEN call.upto
                   ELSE shown
       /\ lastFailed' = IF call.kind = "append" THEN lastFailed \/ ~ok
                        ELSE IF call.kind = "edit" THEN ~ok
                        ELSE lastFailed
    /\ message' = IF Len(calls) = 1 /\ message = "stopping" THEN "stopped" ELSE message
    /\ UNCHANGED <<mode, text, given, timer, typing>>

Next ==
    \/ DiscordStart \/ SlackStart
    \/ DiscordAppend \/ NativeAppend \/ FallbackAppend \/ LateFallbackAppend
    \/ Debounced
    \/ DiscordStop \/ NativeStop \/ FallbackStop
    \/ \E ok \in BOOLEAN : CallSettles(ok)

-----------------------------------------------------------------------------

(***************************************************************************)
(* The inductive invariant.  Where a message is edited, the last edit under *)
(* way carries all the text once the reply is stopped; where it is streamed, *)
(* every piece is shown, on its way before the end, or refused.             *)
(***************************************************************************)
HandleType ==
    /\ mode \in {"discord", "native", "fallback"}
    /\ message \in {"none", "open", "stopping", "stopped"}
    /\ text \in Nat /\ given \in Nat /\ shown \in Nat
    /\ calls \in Seq([kind : {"edit", "append", "end"}, upto : Nat])
    /\ timer \in BOOLEAN /\ typing \in BOOLEAN /\ lastFailed \in BOOLEAN

Quiet ==
    /\ mode # "discord" \/ message # "open" => ~timer /\ ~typing
    /\ message = "stopping" => calls # <<>>

EditCarriesAll ==
    mode # "native" =>
      /\ text = given
      /\ \A i \in 1 .. Len(calls) : calls[i].kind = "edit"
      /\ message \in {"stopping", "stopped"} =>
           IF calls = <<>> THEN lastFailed \/ shown = given ELSE calls[Len(calls)].upto = given

PiecesAreCounted ==
    mode = "native" =>
      LET pieces == IF message = "stopping" THEN Len(calls) - 1 ELSE Len(calls)
      IN  /\ \A i \in 1 .. pieces : calls[i].kind = "append" /\ calls[i].upto = 1
          /\ message = "stopping" => calls[Len(calls)].kind = "end"
          /\ message = "stopped" => calls = <<>>
          /\ lastFailed \/ given = shown + pieces

HandleInv == HandleType /\ Quiet /\ EditCarriesAll /\ PiecesAreCounted

\* A reply that has been stopped shows all its text, no timer is left that
\* would edit it again, and it types no more, unless the platform refused the
\* edit that carried the end, or a piece of the stream.
ShownIsWhole ==
    message = "stopped" /\ calls = <<>> =>
        ~timer /\ ~typing /\ (lastFailed \/ shown = given)
====
