--------------------------- MODULE ProgressProofs ---------------------------
(***************************************************************************)
(* Theorems over the specification of MCProgress, for every value of the   *)
(* constants: a step of another part leaves the variables of this one      *)
(* alone.                                                                  *)
(***************************************************************************)
EXTENDS MCProgress, FiniteSetTheorems, TLAPS

-----------------------------------------------------------------------------
(***************************************************************************)
(* The control socket: a handler that is not over has written no last      *)
(* line, and one that is over writes nothing, whatever other lines came on *)
(* its connection and however their answers ended it.                      *)
(***************************************************************************)
Stands == {"new", "call", "remote", "lookup", "session", "streaming", "over", "lost"}
Line == [at : Stands, op : DOMAIN Control!Ops \cup {"none"},
         prompt : {"none", "sent", "taken", "refused"}, ends : Nat]

LineInv(k) ==
    /\ k \in Line
    /\ k.ends =< 1
    /\ k.at # "over" => k.ends = 0

ControlInv ==
    /\ line \in [Lines -> Line]
    /\ \A l \in Lines : LineInv(line[l])

\* The line after a step of its handler that writes no last line.
LEMMA LineMoves ==
    ASSUME NEW k, LineInv(k), NEW m \in Line, m.ends = k.ends, m.at # "over" => k.at # "over"
    PROVE  LineInv(m)
BY DEF LineInv

\* The handler of the line writes its last line.
LEMMA LineEnds ==
    ASSUME NEW k, LineInv(k), k.at # "over", NEW n \in {k.ends, k.ends + 1}
    PROVE  LineInv([k EXCEPT !.at = "over", !.ends = n])
<1> DEFINE m == [k EXCEPT !.at = "over", !.ends = n]
<1>1. k \in Line /\ k.ends = 0
  BY DEF LineInv
<1>2. n \in Nat /\ n =< 1
  BY <1>1
<1>3. m \in Line /\ m.at = "over" /\ m.ends = n
  BY <1>1, <1>2 DEF Line, Stands
<1> QED
  BY <1>2, <1>3 DEF LineInv

LEMMA ControlSet ==
    ASSUME ControlInv, NEW l \in Lines, NEW k, LineInv(k), Control!Moves(l, k)
    PROVE  ControlInv'
<1>1. line' = [line EXCEPT ![l] = k] /\ line \in [Lines -> Line] /\ k \in Line
  BY DEF ControlInv, LineInv, Control!Moves
<1>2. line' \in [Lines -> Line] /\ \A n \in Lines : line'[n] = IF n = l THEN k ELSE line[n]
  BY <1>1
<1> QED
  BY <1>2 DEF ControlInv

\* Whichever lines end at once, on whichever connections.
LEMMA ControlEnds ==
    ASSUME ControlInv, NEW S, \A l \in Lines \cap S : line[l].at # "over"
    PROVE  /\ Control!LinesAfter(S) \in [Lines -> Line]
           /\ \A l \in Lines : LineInv(Control!LinesAfter(S)[l])
<1> DEFINE after == Control!LinesAfter(S)
<1>1. \A l \in Lines : LineInv(after[l])
  <2> SUFFICES ASSUME NEW l \in Lines PROVE LineInv(after[l])
    OBVIOUS
  <2>0. LineInv(line[l]) /\ line[l] \in Line
    BY DEF ControlInv
  <2>1. CASE l \in S
    <3> DEFINE n == IF conn[ClientOf[l]].peer = "in" THEN line[l].ends + 1 ELSE line[l].ends
    <3>1. after[l] = [line[l] EXCEPT !.at = "over", !.ends = n]
      BY <2>1 DEF Control!LinesAfter
    <3>2. n \in {line[l].ends, line[l].ends + 1}
      OBVIOUS
    <3>3. line[l].at # "over"
      BY <2>1
    <3> HIDE DEF n, after
    <3>4. LineInv([line[l] EXCEPT !.at = "over", !.ends = n])
      BY <2>0, <3>2, <3>3, LineEnds, Zenon
    <3> QED
      BY <3>1, <3>4, Zenon
  <2>2. CASE l \notin S
    <3>1. after[l] = line[l] \/ after[l] = [line[l] EXCEPT !.at = "over"]
      BY <2>2 DEF Control!LinesAfter
    <3> DEFINE m == [line[l] EXCEPT !.at = "over"]
    <3>2. m \in Line /\ m.ends = line[l].ends /\ m.at = "over"
      BY <2>0 DEF Line, Stands
    <3>3. LineInv(m)
      BY <2>0, <3>2 DEF LineInv
    <3> QED
      BY <2>0, <3>1, <3>3
  <2> QED
    BY <2>1, <2>2
<1>2. after = [l \in Lines |-> after[l]]
  BY DEF Control!LinesAfter
<1> HIDE DEF after
<1>3. after \in [Lines -> Line]
  BY <1>1, <1>2 DEF LineInv
<1> QED
  BY <1>1, <1>3 DEF after

LEMMA ControlInit == Control!Init => ControlInv
<1> SUFFICES ASSUME Control!Init PROVE ControlInv
  OBVIOUS
<1>1. Control!NewLine \in Line
  BY Zenon DEF Control!NewLine, Line, Stands
<1>2. Control!NewLine.ends = 0
  BY Zenon DEF Control!NewLine
<1>3. LineInv(Control!NewLine)
  BY <1>1, <1>2 DEF LineInv
<1> QED
  BY <1>1, <1>3 DEF Control!Init, ControlInv

LEMMA ControlStep == ControlInv /\ [Control!Next]_controlVars => ControlInv'
<1> SUFFICES ASSUME ControlInv, [Control!Next]_controlVars PROVE ControlInv'
  OBVIOUS
<1>0. \A l \in Lines : LineInv(line[l]) /\ line[l] \in Line
  BY DEF ControlInv
<1>1. ASSUME NEW c \in Clients, Control!Leave(c)
      PROVE  ControlInv'
  <2>1. line' = [l \in Lines |-> IF l \in Control!Listening(c)
                                 THEN [line[l] EXCEPT !.at = "over"] ELSE line[l]]
    BY <1>1 DEF Control!Leave
  <2>2. \A l \in Lines : LineInv(line'[l])
    <3> SUFFICES ASSUME NEW l \in Lines PROVE LineInv(line'[l])
      OBVIOUS
    <3> DEFINE m == [line[l] EXCEPT !.at = "over"]
    <3>1. m \in Line /\ m.ends = line[l].ends /\ m.at = "over"
      BY <1>0 DEF Line, Stands
    <3>2. LineInv(m)
      BY <1>0, <3>1, LineMoves
    <3> QED
      BY <1>0, <2>1, <3>2
  <2>3. line' \in [Lines -> Line]
    BY <2>1, <2>2 DEF LineInv
  <2> QED
    BY <2>2, <2>3 DEF ControlInv
<1>2. ASSUME NEW l \in Lines,
             Control!AnswerAtOnce(l) \/ Control!CallEnds(l) \/ Control!SessionFails(l)
      PROVE  ControlInv'
  <2>1. line[l].at # "over" /\ line' = Control!LinesAfter({l})
    BY <1>2 DEF Control!AnswerAtOnce, Control!CallEnds, Control!SessionFails, Control!MayLine,
                Control!Ended
  <2> QED
    BY <2>1, ControlEnds DEF ControlInv
<1>3. ASSUME NEW l \in Lines, NEW name \in DOMAIN Control!Ops, Control!RunOp(l, name)
      PROVE  ControlInv'
  <2>1. PICK m \in {[line[l] EXCEPT !.at = "call"], [line[l] EXCEPT !.at = "remote"],
                    [line[l] EXCEPT !.at = "lookup", !.op = name]} : Control!Moves(l, m)
    BY <1>3 DEF Control!RunOp, Control!CallOf
  <2>2. line[l].at # "over"
    BY <1>3 DEF Control!RunOp, Control!MayLine
  <2>3. m \in Line /\ m.ends = line[l].ends
    BY <1>0 DEF Line, Stands
  <2> QED
    BY <1>0, <2>1, <2>2, <2>3, LineMoves, ControlSet
<1>4. ASSUME NEW l \in Lines, Control!OpenStream(l) \/ Control!NullLine(l)
      PROVE  ControlInv'
  <2>1. PICK m \in {[line[l] EXCEPT !.at = "session"], [line[l] EXCEPT !.at = "lost"]} :
               Control!Moves(l, m)
    BY <1>4 DEF Control!OpenStream, Control!NullLine
  <2>2. line[l].at # "over"
    BY <1>4 DEF Control!OpenStream, Control!NullLine, Control!MayLine
  <2>3. m \in Line /\ m.ends = line[l].ends
    BY <1>0 DEF Line, Stands
  <2> QED
    BY <1>0, <2>1, <2>2, <2>3, LineMoves, ControlSet
<1>5. ASSUME NEW l \in Lines, NEW row, Control!LookUp(l, row)
      PROVE  ControlInv'
  <2>1. line[l].at # "over"
    BY <1>5 DEF Control!LookUp
  <2>2. CASE Control!Ended(l)
    <3>1. line' = Control!LinesAfter({l})
      BY <2>2 DEF Control!Ended
    <3> QED
      BY <2>1, <3>1, ControlEnds DEF ControlInv
  <2>3. CASE Control!Moves(l, [line[l] EXCEPT !.at = "call"])
    <3> DEFINE m == [line[l] EXCEPT !.at = "call"]
    <3>1. m \in Line /\ m.ends = line[l].ends
      BY <1>0 DEF Line, Stands
    <3> QED
      BY <1>0, <2>1, <2>3, <3>1, LineMoves, ControlSet
  <2> QED
    BY <1>5, <2>2, <2>3 DEF Control!LookUp
<1>6. ASSUME NEW l \in Lines, Control!SessionReady(l) \/ Control!PromptSent(l)
      PROVE  ControlInv'
  <2>1. PICK m \in {[line[l] EXCEPT !.at = "streaming", !.prompt = "sent"],
                    [line[l] EXCEPT !.prompt = "taken"]} :
               Control!Moves(l, m) /\ (line[l].at = "over" => m = [line[l] EXCEPT !.prompt = "taken"])
    BY <1>6 DEF Control!SessionReady, Control!PromptSent
  <2>2. m \in Line /\ m.ends = line[l].ends
    BY <1>0 DEF Line, Stands
  <2>3. line[l].at = "over" => m.at = "over"
    BY <1>0, <2>1 DEF Line
  <2> QED
    BY <1>0, <2>1, <2>2, <2>3, LineMoves, ControlSet
<1>7. ASSUME NEW l \in Lines, Control!PromptFails(l)
      PROVE  ControlInv'
  <2>1. CASE line[l].at = "streaming"
    <3> DEFINE after == Control!LinesAfter({l})
               m == [after[l] EXCEPT !.prompt = "refused"]
    <3>1. after \in [Lines -> Line] /\ \A n \in Lines : LineInv(after[n])
      BY <2>1, ControlEnds
    <3>2. line' = [after EXCEPT ![l].prompt = "refused"]
      BY <1>7, <2>1 DEF Control!PromptFails
    <3> HIDE DEF after
    <3>3. m \in Line /\ m.ends = after[l].ends /\ m.at = after[l].at
      BY <3>1 DEF Line
    <3>4. LineInv(m)
      BY <3>1, <3>3, LineMoves
    <3>5. line' = [after EXCEPT ![l] = m]
      BY <3>2
    <3> HIDE DEF m
    <3>6. line' \in [Lines -> Line] /\ \A n \in Lines : line'[n] = IF n = l THEN m ELSE after[n]
      BY <3>1, <3>3, <3>5
    <3> QED
      BY <3>1, <3>4, <3>6 DEF ControlInv
  <2>2. CASE line[l].at # "streaming"
    <3> DEFINE m == [line[l] EXCEPT !.prompt = "refused"]
    <3>1. m \in Line /\ m.ends = line[l].ends /\ m.at = line[l].at
      BY <1>0 DEF Line
    <3>2. Control!Moves(l, m)
      BY <1>7, <2>2 DEF Control!PromptFails
    <3> QED
      BY <1>0, <3>1, <3>2, LineMoves, ControlSet
  <2> QED
    BY <2>1, <2>2
<1>8. CASE Control!AgentEnd
  <2>1. \A l \in Control!Streams : line[l].at # "over"
    BY DEF Control!Streams, Control!Listening
  <2>2. line' = Control!LinesAfter(Control!Streams)
    BY <1>8 DEF Control!AgentEnd
  <2> QED
    BY <2>1, <2>2, ControlEnds DEF ControlInv
<1>9. CASE UNCHANGED line
  BY <1>9 DEF ControlInv
<1> QED
  BY <1>1, <1>2, <1>3, <1>4, <1>5, <1>6, <1>7, <1>8, <1>9
     DEF Control!Next, controlVars, Control!Connect, Control!ChildDies, Control!Stop,
         Control!StopEnds

\* Of one line one last line is written, whatever lines come on its connection
\* beside it and whatever ends or breaks the socket before it is answered.
THEOREM AnswersEndOnce == Spec => []EndedOnce
<1>1. Init => ControlInv
  BY ControlInit DEF Init
<1>2. [Next]_vars => [Control!Next]_controlVars
  BY DEF Next, vars, controlVars
<1>3. ControlInv => EndedOnce
  BY DEF ControlInv, LineInv, EndedOnce, Control!EndedOnce
<1> QED
  BY <1>1, <1>2, <1>3, ControlStep, PTL DEF Spec

-----------------------------------------------------------------------------
(***************************************************************************)
(* The turn: where a handler stands says what became of its reply, and     *)
(* the gate's count is the number of the replies that were closed.         *)
(***************************************************************************)
Begun == Turns!Replying \cup Turns!Ended
Stages == {"new", "dropped", "linking", "session", "model", "files", "opening"} \cup Begun

StreamOf(here) ==
    IF here \in Turns!Replying THEN "open" ELSE IF here \in Turns!Ended THEN "closed" ELSE "none"

TurnInv ==
    /\ handler \in [Messages -> Stages]
    /\ stream = [m \in Messages |-> StreamOf(handler[m])]
    /\ storing \in [Messages -> {"none", "whose", "init", "remember", "done"}]
    /\ \A m \in Messages : storing[m] # "none" => handler[m] \in Begun
    /\ counted \in [Turns!Threads -> Nat]
    /\ \A t \in Turns!Threads :
          IsFiniteSet(Turns!Closed(t)) /\ counted[t] = Cardinality(Turns!Closed(t))

LEMMA TurnAccounts == TurnInv => Turns!RepliesAreAccounted
<1> SUFFICES ASSUME TurnInv PROVE Turns!RepliesAreAccounted
  OBVIOUS
<1>1. \A t \in Turns!Threads : counted[t] = Turns!Cardinality(Turns!Closed(t))
  BY Zenon DEF TurnInv, Cardinality, Turns!Cardinality
<1>2. \A m \in Messages : stream[m] = "open" => handler[m] \in Turns!Replying
  BY DEF TurnInv, StreamOf
<1>3. \A m \in Messages : storing[m] # "none" => stream[m] # "none"
  BY DEF TurnInv, StreamOf, Begun
<1> QED
  BY <1>1, <1>2, <1>3, Zenon DEF Turns!RepliesAreAccounted

LEMMA TurnInit == Turns!Init => TurnInv
<1> SUFFICES ASSUME Turns!Init PROVE TurnInv
  OBVIOUS
<1>1. \A t \in Turns!Threads : Turns!Closed(t) = {}
  BY DEF Turns!Init, Turns!Closed
<1>2. StreamOf("new") = "none" /\ "new" \in Stages
  BY DEF StreamOf, Stages, Turns!Replying, Turns!Ended
<1>3. stream = [m \in Messages |-> StreamOf(handler[m])]
  BY <1>2 DEF Turns!Init
<1> QED
  BY <1>1, <1>2, <1>3, FS_EmptySet DEF Turns!Init, TurnInv

\* A handler goes on without touching its reply: what is closed stays so.
LEMMA HandlerGoes ==
    ASSUME TurnInv, NEW m \in Messages, NEW there \in Stages, Turns!Goes(m, there),
           StreamOf(there) = StreamOf(handler[m]), UNCHANGED <<stream, storing, counted>>
    PROVE  TurnInv'
<1>1. handler' \in [Messages -> Stages] /\ \A n \in Messages : StreamOf(handler'[n]) = StreamOf(handler[n])
  BY DEF TurnInv, Turns!Goes
<1>2. stream' = [n \in Messages |-> StreamOf(handler'[n])]
  BY <1>1 DEF TurnInv
<1>3. \A n \in Messages : handler[n] \in Begun => handler'[n] \in Begun
  BY <1>1 DEF StreamOf, Begun
<1>4. \A t \in Turns!Threads : Turns!Closed(t)' = Turns!Closed(t)
  BY DEF Turns!Closed
<1> QED
  BY <1>1, <1>2, <1>3, <1>4 DEF TurnInv, Turns!Threads

LEMMA TurnStep == TurnInv /\ [Turns!Next]_turnVars => TurnInv'
<1> SUFFICES ASSUME TurnInv, [Turns!Next]_turnVars PROVE TurnInv'
  OBVIOUS
<1>1. /\ handler \in [Messages -> Stages]
      /\ \A m \in Messages : Thread[m] \in Turns!Threads
  BY DEF TurnInv, Turns!Threads
<1> DEFINE Quiet(m, here, there) ==
             Turns!At(m, here) /\ Turns!Goes(m, there) /\ UNCHANGED <<stream, storing, counted>>
<1>2. \A m \in Messages : \A here, there \in {"new", "dropped", "linking", "session", "model", "files", "opening"} :
         Quiet(m, here, there) => TurnInv'
  <2>1. \A here \in {"new", "dropped", "linking", "session", "model", "files", "opening"} :
           StreamOf(here) = "none" /\ here \in Stages
    BY DEF StreamOf, Stages, Turns!Replying, Turns!Ended
  <2> QED
    BY <2>1, HandlerGoes DEF Turns!At
<1>3. \A m \in Messages : \A here, there \in Turns!Replying : Quiet(m, here, there) => TurnInv'
  <2>1. \A here \in Turns!Replying : StreamOf(here) = "open" /\ here \in Stages
    BY DEF StreamOf, Stages, Begun
  <2> QED
    BY <2>1, HandlerGoes DEF Turns!At
<1>4. \A m \in Messages : \A here, there \in Turns!Ended : Quiet(m, here, there) => TurnInv'
  <2>1. \A here \in Turns!Ended : StreamOf(here) = "closed" /\ here \in Stages
    BY DEF StreamOf, Stages, Begun, Turns!Ended, Turns!Replying
  <2> QED
    BY <2>1, HandlerGoes DEF Turns!At
<1>5. ASSUME NEW m \in Messages,
             \/ Turns!TakeSlack(m) \/ Turns!TakeDiscord(m) \/ Turns!Ignore(m) \/ Turns!LinkDirective(m)
             \/ Turns!LinkAnswered(m) \/ Turns!SessionFails(m) \/ Turns!SessionReady(m)
             \/ Turns!ModelApplied(m) \/ Turns!FilesSettled(m) \/ Turns!StartFails(m)
      PROVE  TurnInv'
  <2>1. PICK here, there \in {"new", "dropped", "linking", "session", "model", "files", "opening"} :
               Quiet(m, here, there)
    BY <1>5 DEF Turns!TakeSlack, Turns!TakeDiscord, Turns!Taken, Turns!Ignore, Turns!LinkDirective,
       Turns!LinkAnswered, Turns!SessionFails, Turns!SessionReady, Turns!ModelApplied,
       Turns!FilesSettled, Turns!StartFails
  <2> QED
    BY <1>2, <2>1
<1>6. ASSUME NEW m \in Messages,
             \/ Turns!UserResolved(m) \/ (\E ok \in BOOLEAN : Turns!BrainReady(m, ok))
             \/ Turns!Recalled(m) \/ Turns!Prompt(m) \/ Turns!PromptAnswered(m) \/ Turns!PromptFails(m)
      PROVE  TurnInv'
  <2>1. PICK here, there \in Turns!Replying : Quiet(m, here, there)
    BY <1>6 DEF Turns!UserResolved, Turns!BrainReady, Turns!Recalled, Turns!Prompt,
       Turns!PromptAnswered, Turns!PromptFails, Turns!Replying
  <2> QED
    BY <1>3, <2>1
<1>7. ASSUME NEW m \in Messages, Turns!ActivityRecorded(m)
      PROVE  TurnInv'
  <2>1. Quiet(m, "recording", "over")
    BY <1>7 DEF Turns!ActivityRecorded
  <2> QED
    BY <1>4, <2>1 DEF Turns!Ended
<1>8. ASSUME NEW m \in Messages, Turns!Started(m)
      PROVE  TurnInv'
  <2>1. PICK there \in Turns!Replying : Turns!Goes(m, there)
    BY <1>8 DEF Turns!Started, Turns!Replying
  <2>2. handler[m] = "opening" /\ StreamOf("opening") = "none" /\ StreamOf(there) = "open" /\ there \in Begun
    BY <1>8 DEF Turns!Started, Turns!At, StreamOf, Begun, Turns!Replying, Turns!Ended
  <2>3. /\ handler' \in [Messages -> Stages]
        /\ \A n \in Messages : handler'[n] = IF n = m THEN there ELSE handler[n]
    BY <1>1, <2>1, <2>2 DEF Turns!Goes, Stages
  <2>4. stream' = [stream EXCEPT ![m] = "open"] /\ UNCHANGED <<storing, counted>>
    BY <1>8 DEF Turns!Started
  <2>5. stream' = [n \in Messages |-> StreamOf(handler'[n])]
    BY <2>2, <2>3, <2>4 DEF TurnInv
  <2>6. \A t \in Turns!Threads : Turns!Closed(t)' = Turns!Closed(t)
    <3>1. \A n \in Messages : stream'[n] = "closed" <=> stream[n] = "closed"
      BY <2>2, <2>4 DEF TurnInv
    <3> QED
      BY <3>1 DEF Turns!Closed
  <2> QED
    BY <2>2, <2>3, <2>4, <2>5, <2>6 DEF TurnInv, Turns!Threads
<1>9. ASSUME NEW m \in Messages, Turns!StreamStopped(m)
      PROVE  TurnInv'
  <2>1. /\ handler[m] = "closing" /\ Turns!Goes(m, "recording")
        /\ StreamOf("closing") = "open" /\ StreamOf("recording") = "closed" /\ "recording" \in Begun
    BY <1>9 DEF Turns!StreamStopped, Turns!At, StreamOf, Begun, Turns!Replying, Turns!Ended
  <2>2. /\ handler' \in [Messages -> Stages]
        /\ \A n \in Messages : handler'[n] = IF n = m THEN "recording" ELSE handler[n]
    BY <1>1, <2>1 DEF Turns!Goes, Stages
  <2>3. /\ stream' = [stream EXCEPT ![m] = "closed"] /\ UNCHANGED storing
        /\ counted' = [counted EXCEPT ![Thread[m]] = @ + 1]
    BY <1>9 DEF Turns!StreamStopped
  <2>4. stream' = [n \in Messages |-> StreamOf(handler'[n])]
    BY <2>1, <2>2, <2>3 DEF TurnInv
  <2>5. m \notin Turns!Closed(Thread[m])
    BY <2>1 DEF TurnInv, Turns!Closed
  <2>6. Turns!Closed(Thread[m])' = Turns!Closed(Thread[m]) \cup {m}
    BY <2>3 DEF TurnInv, Turns!Closed
  <2>7. \A t \in Turns!Threads : t # Thread[m] => Turns!Closed(t)' = Turns!Closed(t)
    BY <2>3 DEF TurnInv, Turns!Closed
  <2>8. /\ IsFiniteSet(Turns!Closed(Thread[m])')
        /\ Cardinality(Turns!Closed(Thread[m])') = counted[Thread[m]] + 1
    BY <1>1, <2>5, <2>6, FS_AddElement DEF TurnInv
  <2>9. counted' \in [Turns!Threads -> Nat] /\ counted'[Thread[m]] = counted[Thread[m]] + 1
        /\ \A t \in Turns!Threads : t # Thread[m] => counted'[t] = counted[t]
    BY <1>1, <2>3 DEF TurnInv
  <2>10. \A t \in Turns!Threads :
           IsFiniteSet(Turns!Closed(t)') /\ counted'[t] = Cardinality(Turns!Closed(t)')
    BY <2>7, <2>8, <2>9 DEF TurnInv
  <2> QED
    BY <2>1, <2>2, <2>3, <2>4, <2>9, <2>10 DEF TurnInv, Turns!Threads
<1>10. ASSUME UNCHANGED <<handler, stream, counted>>,
              storing' \in [Messages -> {"none", "whose", "init", "remember", "done"}],
              \A n \in Messages : storing'[n] # "none" => storing[n] # "none" \/ handler[n] \in Begun
       PROVE  TurnInv'
  BY <1>10 DEF TurnInv, Turns!Threads, Turns!Closed
<1>11. ASSUME NEW m \in Messages, Turns!Store(m)
       PROVE  TurnInv'
  <2>1. PICK s \in {"init", "remember", "done"} :
               storing[m] # "none" /\ storing' = [storing EXCEPT ![m] = s] /\ UNCHANGED <<handler, stream, counted>>
    BY <1>11 DEF Turns!Store, Turns!StoreUserResolved, Turns!StoreBrainReady, Turns!Remembered
  <2> QED
    BY <1>10, <2>1 DEF TurnInv
<1>12. ASSUME NEW t \in Turns!Threads, NEW m \in Messages, Turns!AgentEnd(t, m)
       PROVE  TurnInv'
  <2>1. /\ UNCHANGED <<handler, stream, counted>>
        /\ \E silent \in SUBSET Turns!HandedToStore(Turns!Listening(t)) :
              storing' = [n \in Messages |->
                            IF n \in silent THEN "done"
                            ELSE IF n \in Turns!HandedToStore(Turns!Listening(t)) THEN "whose" ELSE storing[n]]
    BY <1>12 DEF Turns!AgentEnd
  <2>2. \A n \in Turns!HandedToStore(Turns!Listening(t)) : handler[n] \in Begun
    BY DEF Turns!HandedToStore, Turns!Listening, Begun, Turns!Replying
  <2> QED
    BY <1>10, <2>1, <2>2 DEF TurnInv
<1>13. CASE UNCHANGED turnVars
  BY <1>13, <1>10 DEF turnVars, TurnInv
<1> QED
  BY <1>5, <1>6, <1>7, <1>8, <1>9, <1>11, <1>12, <1>13
     DEF Turns!Next, Turns!SlackStep, Turns!DiscordStep, Turns!Step

\* For any number of messages and threads: a reply is open only while the handler
\* that will close it is at work, and the gate has counted each closed reply once.
THEOREM TurnsAreAccounted == Spec => []Turns!RepliesAreAccounted
<1>1. Init => TurnInv
  BY TurnInit DEF Init
<1>2. [Next]_vars => [Turns!Next]_turnVars
  BY DEF Next, vars, turnVars
<1> QED
  BY <1>1, <1>2, TurnStep, TurnAccounts, PTL DEF Spec

-----------------------------------------------------------------------------
(***************************************************************************)
(* The HTTP server: a stop leaves nothing at work but upgraded sockets,    *)
(* which it does not reach.                                                *)
(***************************************************************************)
Places == {"idle", "beats", "body", "handler", "lookup", "streaming", "upstream", "piping", "torn",
           "connecting", "bridged"} \cup Http!Over

HttpInv ==
    /\ request \in [Requests -> [route : Http!Routes, at : Places]]
    /\ http \in {"listening", "stopping", "stopped", "crashed"}
    /\ Http!OnlyUpgradesRemain

LEMMA HttpInit == Http!Init => HttpInv
<1> SUFFICES ASSUME Http!Init PROVE HttpInv
  OBVIOUS
<1>1. [route |-> "other", at |-> "idle"] \in [route : Http!Routes, at : Places]
  BY DEF Http!Routes, Places
<1> QED
  BY <1>1 DEF Http!Init, HttpInv, Http!OnlyUpgradesRemain, Http!At

\* A request that is not over goes on to a place on its route.
LEMMA RequestGoes ==
    ASSUME HttpInv, NEW r \in Requests, ~Http!At(r, {"idle"} \cup Http!Over), NEW p \in Places,
           Http!Goes(r, p)
    PROVE  HttpInv'
<1>1. request' = [request EXCEPT ![r].at = p] /\ http' = http
  BY DEF Http!Goes
<1>2. request' \in [Requests -> [route : Http!Routes, at : Places]]
  BY <1>1 DEF HttpInv
<1>3. \A q \in Requests : /\ request'[q].route = request[q].route
                          /\ q # r => request'[q] = request[q]
  BY <1>1 DEF HttpInv
<1>4. Http!OnlyUpgradesRemain'
  BY <1>1, <1>3 DEF HttpInv, Http!OnlyUpgradesRemain, Http!At, Http!Route
<1> QED
  BY <1>1, <1>2, <1>4 DEF HttpInv

LEMMA HttpStep == HttpInv /\ [Http!Next]_httpVars => HttpInv'
<1> SUFFICES ASSUME HttpInv, [Http!Next]_httpVars PROVE HttpInv'
  OBVIOUS
<1>1. ASSUME NEW r \in Requests, NEW route \in Http!Routes,
             Http!Arrive(r, route) \/ Http!AnswerAtOnce(r, route)
      PROVE  HttpInv'
  <2>1. PICK k \in [route : Http!Routes, at : Places] : request' = [request EXCEPT ![r] = k]
    <3>1. CASE Http!Arrive(r, route)
      <4>1. Http!Awaits[route] \in Places
        BY <3>1 DEF Http!Arrive, Http!Awaits, Places
      <4> QED
        BY <3>1, <4>1 DEF Http!Arrive
    <3>2. CASE Http!AnswerAtOnce(r, route)
      <4>1. (IF route = "upgrade" THEN "closed" ELSE "answered") \in Places
        BY DEF Places, Http!Over
      <4> QED
        BY <3>2, <4>1 DEF Http!AnswerAtOnce
    <3> QED
      BY <1>1, <3>1, <3>2
  <2>2. http = "listening" /\ http' = http
    BY <1>1 DEF Http!Arrive, Http!AnswerAtOnce
  <2>3. request' \in [Requests -> [route : Http!Routes, at : Places]]
    BY <2>1 DEF HttpInv
  <2> QED
    BY <2>2, <2>3 DEF HttpInv, Http!OnlyUpgradesRemain
<1>2. ASSUME NEW r \in Requests,
             \/ Http!Step(r) \/ Http!UpstreamAnswers(r) \/ Http!UpstreamEnds(r)
             \/ Http!UpstreamFails(r) \/ Http!BridgeEnds(r) \/ Http!ClientLeaves(r)
      PROVE  HttpInv'
  <2>1. ~Http!At(r, {"idle"} \cup Http!Over)
    BY <1>2 DEF Http!Step, Http!Health, Http!BodyEnds, Http!BodyTimesOut, Http!HandlerEnds,
       Http!StreamBegins, Http!StreamEnds, Http!LookedUp, Http!Bridged, Http!UpstreamAnswers,
       Http!UpstreamEnds, Http!UpstreamFails, Http!BridgeEnds, Http!ClientLeaves, Http!At, Http!Over
  <2>2. \E p \in Places : Http!Goes(r, p)
    BY <1>2 DEF Http!Step, Http!Health, Http!BodyEnds, Http!BodyTimesOut, Http!HandlerEnds,
       Http!StreamBegins, Http!StreamEnds, Http!LookedUp, Http!Bridged, Http!UpstreamAnswers,
       Http!UpstreamEnds, Http!UpstreamFails, Http!BridgeEnds, Http!ClientLeaves, Places, Http!Over
  <2> QED
    BY <2>1, <2>2, RequestGoes
<1>3. ASSUME NEW r \in Requests, Http!SocketBreaks(r)
      PROVE  HttpInv'
  <2>1. /\ http' = "crashed"
        /\ request' = [q \in Requests |-> [request[q] EXCEPT !.at = IF @ = "idle" THEN @ ELSE "closed"]]
    BY <1>3 DEF Http!SocketBreaks
  <2>2. \A q \in Requests :
           /\ request'[q] \in [route : Http!Routes, at : Places]
           /\ request'[q].at \in {"idle", "closed"}
    BY <2>1 DEF HttpInv, Places, Http!Over
  <2>3. request' \in [Requests -> [route : Http!Routes, at : Places]]
    BY <2>1, <2>2
  <2> QED
    BY <2>1, <2>2, <2>3 DEF HttpInv, Http!OnlyUpgradesRemain, Http!At, Http!Over
<1>4. CASE Http!Stop
  <2>1. /\ http' = "stopping"
        /\ request' = [q \in Requests |->
             IF Http!Route(q, {"upgrade"}) \/ Http!At(q, {"idle"} \cup Http!Over) THEN request[q]
             ELSE [request[q] EXCEPT !.at = "closed"]]
    BY <1>4 DEF Http!Stop
  <2>2. \A q \in Requests :
           /\ request'[q] \in [route : Http!Routes, at : Places]
           /\ request'[q].route = "upgrade" \/ request'[q].at \in {"idle"} \cup Http!Over
    BY <2>1 DEF HttpInv, Places, Http!Over, Http!Route, Http!At
  <2>3. request' \in [Requests -> [route : Http!Routes, at : Places]]
    BY <2>1, <2>2
  <2> QED
    BY <2>1, <2>2, <2>3 DEF HttpInv, Http!OnlyUpgradesRemain, Http!At, Http!Route
<1>5. CASE Http!Stopped
  BY <1>5 DEF Http!Stopped, HttpInv, Http!OnlyUpgradesRemain, Http!At
<1>6. CASE UNCHANGED httpVars
  BY <1>6 DEF httpVars, HttpInv, Http!OnlyUpgradesRemain, Http!At, Http!Route
<1> QED
  BY <1>1, <1>2, <1>3, <1>4, <1>5, <1>6 DEF Http!Next

\* What keeps stop() of the HTTP server from returning can only be sockets that
\* were upgraded, and after it has returned nothing is served.
THEOREM OnlyUpgradesHoldTheStop == Spec => []Http!OnlyUpgradesRemain
<1>1. Init => HttpInv
  BY HttpInit DEF Init
<1>2. [Next]_vars => [Http!Next]_httpVars
  BY DEF Next, vars, httpVars
<1>3. HttpInv => Http!OnlyUpgradesRemain
  BY DEF HttpInv
<1> QED
  BY <1>1, <1>2, <1>3, HttpStep, PTL DEF Spec
=============================================================================
