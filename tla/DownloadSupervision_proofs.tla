----------------------- MODULE DownloadSupervision_proofs -----------------------
(***************************************************************************)
(* One supervised attempt, for every capacity of pipe and queue, every     *)
(* length of output and every number of failing system calls: the sink is  *)
(* told one story, a success is complete, and supervise_inner implements   *)
(* what an attempt promises.                                               *)
(***************************************************************************)
EXTENDS DownloadSupervision, SequenceTheorems, TLAPS

\* Before and after the child, and in between.
Resting == {"idle", "enter", "spawn"}

(***************************************************************************)
(* Where the supervisor is, how far the lifecycle is, and what is known of *)
(* the child agree.                                                        *)
(***************************************************************************)
PhaseInv ==
  /\ state = "planned" <=> child = "none" /\ state # "cancelled"
  /\ child = "none" => state \in {"planned", "cancelled"} /\ reader = "none"
  /\ pc \in Resting => state \notin {"running", "cancelling"}
  /\ pc \notin Resting => child # "none"
  /\ pc = "spawn" => state = "planned"
  /\ pc \in {"drain", "poll", "try"} => state = "running"
  /\ pc = "kill" => state = "cancelling"
  /\ pc \in {"wait", "finish", "last"} => state \in {"running", "cancelling"}
  /\ pc = "report" => state \in {"running", "cancelling", "failed"}
  /\ pc = "wait" => aim \in {"cancelled", "io"}

\* What completes the attempt has been made sure of.
AimInv ==
  /\ pc = "wait" /\ aim = "cancelled" => state = "cancelling" /\ child # "running"
  /\ pc \in {"finish", "last"} =>
       /\ aim = "succeeded" => state = "running" /\ child = "ok" /\ reaped
       /\ aim = "process" => state = "running"
       /\ aim = "cancelled" => state = "cancelling" /\ child # "running"
  /\ pc = "last" /\ ~broken => reader \in {"none", "ok"}

\* The reader ends well only at the end of everything.
ReaderInv ==
  /\ capture /\ child # "none" => reader # "none"
  /\ ~capture => reader = "none"
  /\ reader = "ok" => pipe = <<>> /\ ~heir /\ child # "running"

\* The records of the queue are the accepted ones that are yet to come.
QueueInv == state \in {"planned", "running"} => accepted = delivered \o queue

\* A success stays what it was.
SuccessInv ==
  state = "succeeded" => pc \in {"idle", "enter"} /\ SuccessIsComplete

\* The events tell how the lifecycle got where it is.
StoryInv ==
  /\ OneStory
  /\ state = "planned" => events = <<>>
  /\ state = "running" => events = <<"running">>
  /\ state = "cancelling" => events = <<"running", "cancelling">>

IInv == TypeOK /\ PhaseInv /\ AimInv /\ ReaderInv /\ QueueInv /\ SuccessInv /\ StoryInv

-----------------------------------------------------------------------------
(* Facts about sequences *)

\* The first of the second part may as well be the last of the first, as when
\* the supervisor drains a record.
LEMMA HeadMoves ==
  ASSUME NEW S, NEW s \in Seq(S), NEW t \in Seq(S), t # <<>>
  PROVE  s \o t = Append(s, Head(t)) \o Tail(t)
<1>1. Head(t) \in S /\ Tail(t) \in Seq(S)
  BY HeadTailProperties
<1>2. t = <<Head(t)>> \o Tail(t)
  BY HeadTailProperties, <1>1
<1>3. Append(s, Head(t)) = s \o <<Head(t)>>
  BY AppendIsConcat, <1>1
<1>4. <<Head(t)>> \in Seq(S)
  BY <1>1
<1> QED BY <1>1, <1>2, <1>3, <1>4, ConcatAssociative

\* Append is the only sequence with one element more.
LEMMA AppendIs ==
  ASSUME NEW S, NEW s \in Seq(S), NEW x \in S, NEW t \in Seq(S),
         Len(t) = Len(s) + 1, \A i \in 1..Len(s) : t[i] = s[i], t[Len(s) + 1] = x
  PROVE  Append(s, x) = t
<1> DEFINE a == Append(s, x)
<1>1. /\ a \in Seq(S) /\ Len(a) = Len(s) + 1 /\ Len(s) \in Nat
      /\ \A i \in 1..Len(s) : a[i] = s[i]
      /\ a[Len(s) + 1] = x
  BY AppendProperties
<1> HIDE DEF a
<1>2. \A i \in 1..Len(t) : t[i] = a[i]
  BY <1>1
<1>3. a = t
  BY <1>1, <1>2, SeqEqual
<1> QED BY <1>3 DEF a

\* A pair is its first element with the second appended.
LEMMA Pair ==
  ASSUME NEW S, NEW a \in S, NEW b \in S
  PROVE  Append(<<a>>, b) = <<a, b>>
<1>1. <<a>> \in Seq(S) /\ Len(<<a>>) = 1 /\ <<a>>[1] = a
  OBVIOUS
<1>2. <<a, b>> \in Seq(S) /\ Len(<<a, b>>) = 2 /\ <<a, b>>[1] = a /\ <<a, b>>[2] = b
  OBVIOUS
<1>3. ASSUME NEW s \in Seq(S), Len(s) = 1, s[1] = a,
             NEW t \in Seq(S), Len(t) = 2, t[1] = a, t[2] = b
      PROVE  Append(s, b) = t
  <2>1. Len(t) = Len(s) + 1 /\ (\A i \in 1..Len(s) : t[i] = s[i]) /\ t[Len(s) + 1] = b
    BY <1>3
  <2> QED BY <1>3, <2>1, AppendIs, Zenon
<1> QED BY <1>1, <1>2, <1>3, Zenon

\* A triple is a pair with the third element appended.
LEMMA Triple ==
  ASSUME NEW S, NEW a \in S, NEW b \in S, NEW c \in S
  PROVE  Append(<<a, b>>, c) = <<a, b, c>>
<1>1. <<a, b>> \in Seq(S) /\ Len(<<a, b>>) = 2 /\ <<a, b>>[1] = a /\ <<a, b>>[2] = b
  OBVIOUS
<1>2. /\ <<a, b, c>> \in Seq(S) /\ Len(<<a, b, c>>) = 3
      /\ <<a, b, c>>[1] = a /\ <<a, b, c>>[2] = b /\ <<a, b, c>>[3] = c
  OBVIOUS
<1>3. ASSUME NEW s \in Seq(S), Len(s) = 2, s[1] = a, s[2] = b,
             NEW t \in Seq(S), Len(t) = 3, t[1] = a, t[2] = b, t[3] = c
      PROVE  Append(s, c) = t
  <2>1. Len(t) = Len(s) + 1 /\ (\A i \in 1..Len(s) : t[i] = s[i]) /\ t[Len(s) + 1] = c
    BY <1>3
  <2> QED BY <1>3, <2>1, AppendIs, Zenon
<1> QED BY <1>1, <1>2, <1>3, Zenon

\* How the stories grow by a transition.
LEMMA Stories ==
  /\ Append(<<"running">>, "cancelling") = <<"running", "cancelling">>
  /\ Append(<<"running">>, "succeeded") = <<"running", "succeeded">>
  /\ Append(<<"running", "cancelling">>, "cancelled") = <<"running", "cancelling", "cancelled">>
<1>1. {"running", "cancelling", "succeeded", "cancelled"} \subseteq State
  BY DEF State
<1>2. Append(<<"running">>, "cancelling") = <<"running", "cancelling">>
  BY <1>1, Pair, Zenon
<1>3. Append(<<"running">>, "succeeded") = <<"running", "succeeded">>
  BY <1>1, Pair, Zenon
<1>4. Append(<<"running", "cancelling">>, "cancelled") = <<"running", "cancelling", "cancelled">>
  BY <1>1, Triple, Zenon
<1> QED BY <1>2, <1>3, <1>4

-----------------------------------------------------------------------------
(* The steps *)

\* What a transition leaves in state and events is again of their types.
LEMMA TransitionTyped ==
  ASSUME TypeOK, NEW next \in State, Transition(next)
  PROVE  state' \in State /\ events' \in Seq(State \cup {"failure"})
<1>1. Append(events, next) \in Seq(State \cup {"failure"})
  BY AppendProperties DEF TypeOK
<1> QED BY <1>1 DEF Transition, TypeOK, lifecycle

\* The same of a reported failure.
LEMMA FailTyped ==
  ASSUME TypeOK, Fail
  PROVE  state' \in State /\ events' \in Seq(State \cup {"failure"})
<1>1. <<"failure", "failed">> \in Seq(State \cup {"failure"})
  BY DEF State
<1>2. events \o <<"failure", "failed">> \in Seq(State \cup {"failure"})
  BY <1>1, ConcatProperties DEF TypeOK
<1> QED BY <1>2 DEF Fail, TypeOK, lifecycle, State

\* The transitions that are refused, and those that are not.
LEMMA Transitions ==
  ASSUME NEW next, Transition(next)
  PROVE  /\ state \in {"succeeded", "failed", "cancelled"} => UNCHANGED lifecycle
         /\ <<state, next>> \in {<<"planned", "cancelled">>, <<"running", "cancelling">>,
                               <<"running", "succeeded">>, <<"cancelling", "cancelled">>}
              => state' = next /\ events' = Append(events, next)
BY DEF Transition, Allowed, lifecycle

\* The type invariant alone is inductive.
LEMMA TypeStep ==
  ASSUME SupervisionAssumption, TypeOK, [Next]_vars
  PROVE  TypeOK'
<1> USE DEF SupervisionAssumption, TypeOK, lifecycle, stream, process
<1>1. CASE Call
  BY <1>1 DEF Call, State, PC
<1>2. CASE Enter
  <2>1. state' \in State /\ events' \in Seq(State \cup {"failure"})
    BY TransitionTyped, FailTyped, <1>2 DEF Enter, State
  <2> QED BY <2>1, <1>2 DEF Enter, PC
<1>3. CASE Spawn
  <2>1. state' \in State /\ events' \in Seq(State \cup {"failure"})
    BY TransitionTyped, FailTyped, <1>3 DEF Spawn, State
  <2> QED BY <2>1, <1>3 DEF Spawn, PC
<1>4. CASE SpawnFails
  BY <1>4 DEF SpawnFails, Fails, State, PC
<1>5. CASE DrainOne
  <2>1. Head(queue) \in Record /\ Tail(queue) \in Seq(Record)
      /\ Len(Tail(queue)) = Len(queue) - 1
    BY HeadTailProperties, <1>5 DEF DrainOne
  <2> QED BY <2>1, <1>5 DEF DrainOne
<1>6. CASE Drained
  BY <1>6 DEF Drained, State, PC
<1>7. CASE Poll
  <2>1. state' \in State /\ events' \in Seq(State \cup {"failure"})
    BY TransitionTyped, FailTyped, <1>7 DEF Poll, State
  <2> QED BY <2>1, <1>7 DEF Poll, PC
<1>8. CASE Kill
  BY <1>8 DEF Kill, Killed, Fails, State, PC
<1>9. CASE Wait
  <2>1. /\ pc' \in PC /\ aim' \in {"succeeded", "process", "cancelled", "io"}
        /\ faults' \in 0..MaxFaults
    BY <1>9 DEF Wait, Fails, PC
  <2>2. reaped' \in BOOLEAN /\ broken' \in BOOLEAN
    BY Zenon, <1>9 DEF Wait, Fails
  <2> QED BY <2>1, <2>2, <1>9 DEF Wait, Fails
<1>10. CASE TryWait
  <2>1. /\ pc' \in PC /\ aim' \in {"succeeded", "process", "cancelled", "io"}
        /\ faults' \in 0..MaxFaults
    BY <1>10 DEF TryWait, PC
  <2>2. reaped' \in BOOLEAN /\ broken' \in BOOLEAN
    BY Zenon, <1>10 DEF TryWait
  <2> QED BY <2>1, <2>2, <1>10 DEF TryWait
<1>11. CASE TryWaitFails
  BY <1>11 DEF TryWaitFails, Fails, Killed, State, PC
<1>12. CASE Join
  <2>1. /\ pc' \in PC /\ aim' \in {"succeeded", "process", "cancelled", "io"}
        /\ faults' \in 0..MaxFaults
    BY <1>12 DEF Join, PC
  <2>2. reaped' \in BOOLEAN /\ broken' \in BOOLEAN
    BY Zenon, <1>12 DEF Join
  <2> QED BY <2>1, <2>2, <1>12 DEF Join
<1>13. CASE Detach
  <2>1. /\ pc' \in PC /\ aim' \in {"succeeded", "process", "cancelled", "io"}
        /\ faults' \in 0..MaxFaults
    BY <1>13 DEF Detach, PC
  <2>2. reaped' \in BOOLEAN /\ broken' \in BOOLEAN
    BY Zenon, <1>13 DEF Detach
  <2> QED BY <2>1, <2>2, <1>13 DEF Detach
<1>14. CASE Complete
  <2>1. state' \in State /\ events' \in Seq(State \cup {"failure"})
    BY TransitionTyped, FailTyped, <1>14 DEF Complete, State
  <2> QED BY <2>1, <1>14 DEF Complete, PC
<1>15. CASE Report
  <2>1. state' \in State /\ events' \in Seq(State \cup {"failure"})
    BY TransitionTyped, FailTyped, <1>15 DEF Report, State
  <2> QED BY <2>1, <1>15 DEF Report, PC
<1>16. CASE Read
  <2>1. Head(pipe) \in Record /\ Tail(pipe) \in Seq(Record)
      /\ Len(Tail(pipe)) = Len(pipe) - 1
    BY HeadTailProperties, <1>16 DEF Read, Receiving
  <2>2. /\ Append(queue, Head(pipe)) \in Seq(Record)
        /\ Len(Append(queue, Head(pipe))) = Len(queue) + 1
        /\ Append(accepted, Head(pipe)) \in Seq(Record)
    BY <2>1, AppendProperties
  <2>3. /\ queue' \in Seq(Record) /\ Len(queue') <= QueueCapacity
        /\ accepted' \in Seq(Record)
    <3>1. CASE Receiving /\ Len(queue) < QueueCapacity
      <4>1. queue' = Append(queue, Head(pipe)) /\ accepted' = Append(accepted, Head(pipe))
        BY <3>1, <1>16 DEF Read
      <4>2. Len(queue) + 1 <= QueueCapacity
        BY <3>1
      <4> QED BY <2>2, <4>1, <4>2
    <3>2. CASE ~(Receiving /\ Len(queue) < QueueCapacity)
      BY <3>2, <1>16 DEF Read
    <3> QED BY <3>1, <3>2
  <2> QED BY <2>1, <2>3, <1>16 DEF Read
<1>17. CASE EndOfFile
  BY <1>17 DEF EndOfFile
<1>18. CASE ReadFails
  <2>1. <<>> \in Seq(Record) /\ Len(<<>>) = 0
    OBVIOUS
  <2> QED BY <2>1, <1>18 DEF ReadFails, Fails
<1>19. CASE Write
  <2>1. written + 1 \in Record
    BY <1>19 DEF Write, Record
  <2>2. /\ Append(pipe, written + 1) \in Seq(Record)
        /\ Len(Append(pipe, written + 1)) = Len(pipe) + 1
    BY <2>1, AppendProperties
  <2> QED BY <2>1, <2>2, <1>19 DEF Write
<1>20. CASE Fork
  BY <1>20 DEF Fork
<1>21. CASE ChildExit
  BY <1>21 DEF ChildExit
<1>22. CASE HeirExit
  BY <1>22 DEF HeirExit
<1>23. CASE Cancel
  BY <1>23 DEF Cancel
<1>24. CASE UNCHANGED vars
  BY <1>24 DEF vars
<1> QED
  BY <1>1, <1>2, <1>3, <1>4, <1>5, <1>6, <1>7, <1>8, <1>9, <1>10, <1>11, <1>12, <1>13, <1>14, <1>15, <1>16, <1>17, <1>18, <1>19, <1>20, <1>21, <1>22, <1>23, <1>24
  DEF Next, Supervisor, Reader, World, Finished

\* Supervisor, lifecycle, child and reader stay in agreement.
LEMMA ControlStep ==
  ASSUME TypeOK, PhaseInv, AimInv, ReaderInv, [Next]_vars
  PROVE  PhaseInv' /\ AimInv' /\ ReaderInv'
<1> USE DEF TypeOK, PhaseInv, AimInv, ReaderInv, Resting, lifecycle, stream, process
<1>1. CASE Call
  BY <1>1 DEF Call
<1>2. CASE Enter
  BY <1>2 DEF Enter, Transition, Allowed
<1>3. CASE Spawn
  BY <1>3 DEF Spawn, Transition, Allowed
<1>4. CASE SpawnFails
  BY <1>4 DEF SpawnFails, Fails
<1>5. CASE DrainOne
  BY <1>5 DEF DrainOne
<1>6. CASE Drained
  BY <1>6 DEF Drained
<1>7. CASE Poll
  BY <1>7 DEF Poll, Transition, Allowed
<1>8. CASE Kill
  BY <1>8 DEF Kill, Killed, Fails
<1>9. CASE Wait
  BY <1>9 DEF Wait, Fails
<1>10. CASE TryWait
  BY <1>10 DEF TryWait
<1>11. CASE TryWaitFails
  BY <1>11 DEF TryWaitFails, Fails, Killed
<1>12. CASE Join
  BY <1>12 DEF Join
<1>13. CASE Detach
  BY <1>13 DEF Detach
<1>14. CASE Complete
  BY <1>14 DEF Complete, Transition, Allowed, Fail
<1>15. CASE Report
  BY <1>15 DEF Report, Fail
<1>16. CASE Read
  BY <1>16 DEF Read, Receiving
<1>17. CASE EndOfFile
  BY <1>17 DEF EndOfFile
<1>18. CASE ReadFails
  BY <1>18 DEF ReadFails, Fails
<1>19. CASE Write
  BY <1>19 DEF Write
<1>20. CASE Fork
  BY <1>20 DEF Fork
<1>21. CASE ChildExit
  BY <1>21 DEF ChildExit
<1>22. CASE HeirExit
  BY <1>22 DEF HeirExit
<1>23. CASE Cancel
  BY <1>23 DEF Cancel
<1>24. CASE UNCHANGED vars
  BY <1>24 DEF vars
<1> QED
  BY <1>1, <1>2, <1>3, <1>4, <1>5, <1>6, <1>7, <1>8, <1>9, <1>10, <1>11, <1>12, <1>13, <1>14, <1>15, <1>16, <1>17, <1>18, <1>19, <1>20, <1>21, <1>22, <1>23, <1>24
  DEF Next, Supervisor, Reader, World, Finished

\* No record is reordered or delivered twice between reader and sink.
LEMMA QueueStep ==
  ASSUME TypeOK, PhaseInv, QueueInv, [Next]_vars
  PROVE  QueueInv'
<1> USE DEF QueueInv, PhaseInv, Resting, lifecycle, stream, process
<1>1. CASE Call
  BY <1>1 DEF Call
<1>2. CASE Enter
  BY <1>2 DEF Enter, Transition, Allowed
<1>3. CASE Spawn
  BY <1>3 DEF Spawn, Transition, Allowed
<1>4. CASE SpawnFails
  BY <1>4 DEF SpawnFails, Fails
<1>5. CASE DrainOne
  <2>1. queue # <<>> /\ queue \in Seq(Record) /\ delivered \in Seq(Record)
    BY <1>5 DEF DrainOne, TypeOK
  <2>2. delivered \o queue = Append(delivered, Head(queue)) \o Tail(queue)
    BY <2>1, HeadMoves
  <2> QED BY <2>2, <1>5 DEF DrainOne
<1>6. CASE Drained
  BY <1>6 DEF Drained
<1>7. CASE Poll
  BY <1>7 DEF Poll, Transition, Allowed
<1>8. CASE Kill
  BY <1>8 DEF Kill, Killed, Fails
<1>9. CASE Wait
  BY <1>9 DEF Wait, Fails
<1>10. CASE TryWait
  BY <1>10 DEF TryWait
<1>11. CASE TryWaitFails
  BY <1>11 DEF TryWaitFails, Fails, Killed
<1>12. CASE Join
  BY <1>12 DEF Join
<1>13. CASE Detach
  BY <1>13 DEF Detach
<1>14. CASE Complete
  BY <1>14 DEF Complete, Transition, Allowed, Fail
<1>15. CASE Report
  BY <1>15 DEF Report, Fail
<1>16. CASE Read
  <2>1. /\ queue \in Seq(Record) /\ delivered \in Seq(Record)
        /\ Head(pipe) \in Record
    BY HeadTailProperties, <1>16 DEF Read, TypeOK
  <2>2. Append(accepted, Head(pipe)) = accepted \o <<Head(pipe)>>
    BY <2>1, AppendIsConcat DEF TypeOK
  <2>3. Append(queue, Head(pipe)) = queue \o <<Head(pipe)>>
    BY <2>1, AppendIsConcat
  <2>4. <<Head(pipe)>> \in Seq(Record)
    BY <2>1
  <2>5. (delivered \o queue) \o <<Head(pipe)>> = delivered \o (queue \o <<Head(pipe)>>)
    BY <2>1, <2>4, ConcatAssociative
  <2> QED BY <2>2, <2>3, <2>5, <1>16 DEF Read
<1>17. CASE EndOfFile
  BY <1>17 DEF EndOfFile
<1>18. CASE ReadFails
  BY <1>18 DEF ReadFails, Fails
<1>19. CASE Write
  BY <1>19 DEF Write
<1>20. CASE Fork
  BY <1>20 DEF Fork
<1>21. CASE ChildExit
  BY <1>21 DEF ChildExit
<1>22. CASE HeirExit
  BY <1>22 DEF HeirExit
<1>23. CASE Cancel
  BY <1>23 DEF Cancel
<1>24. CASE UNCHANGED vars
  BY <1>24 DEF vars
<1> QED
  BY <1>1, <1>2, <1>3, <1>4, <1>5, <1>6, <1>7, <1>8, <1>9, <1>10, <1>11, <1>12, <1>13, <1>14, <1>15, <1>16, <1>17, <1>18, <1>19, <1>20, <1>21, <1>22, <1>23, <1>24
  DEF Next, Supervisor, Reader, World, Finished

\* A success is complete when it is reached and remains so.
LEMMA SuccessStep ==
  ASSUME TypeOK, PhaseInv, AimInv, ReaderInv, QueueInv, SuccessInv, [Next]_vars
  PROVE  SuccessInv'
<1> USE DEF SuccessInv, SuccessIsComplete, PhaseInv, Resting, lifecycle, stream, process
<1>1. CASE Call
  BY <1>1 DEF Call
<1>2. CASE Enter
  BY <1>2 DEF Enter, Transition, Allowed
<1>3. CASE Spawn
  BY <1>3 DEF Spawn, Transition, Allowed
<1>4. CASE SpawnFails
  BY <1>4 DEF SpawnFails, Fails
<1>5. CASE DrainOne
  BY <1>5 DEF DrainOne
<1>6. CASE Drained
  BY <1>6 DEF Drained
<1>7. CASE Poll
  BY <1>7 DEF Poll, Transition, Allowed
<1>8. CASE Kill
  BY <1>8 DEF Kill, Killed, Fails
<1>9. CASE Wait
  BY <1>9 DEF Wait, Fails
<1>10. CASE TryWait
  BY <1>10 DEF TryWait
<1>11. CASE TryWaitFails
  BY <1>11 DEF TryWaitFails, Fails, Killed
<1>12. CASE Join
  BY <1>12 DEF Join
<1>13. CASE Detach
  BY <1>13 DEF Detach
<1>14. CASE Complete
  <2>1. delivered \o <<>> = delivered
    BY ConcatEmptySeq DEF TypeOK
  <2>2. state = "running" /\ queue = <<>> => delivered = accepted
    BY <2>1 DEF QueueInv
  <2> QED BY <2>2, <1>14 DEF Complete, Transition, Allowed, Fail, AimInv, ReaderInv, TypeOK
<1>15. CASE Report
  BY <1>15 DEF Report, Fail
<1>16. CASE Read
  BY <1>16 DEF Read, Receiving
<1>17. CASE EndOfFile
  BY <1>17 DEF EndOfFile
<1>18. CASE ReadFails
  BY <1>18 DEF ReadFails, Fails, ReaderInv, TypeOK
<1>19. CASE Write
  BY <1>19 DEF Write
<1>20. CASE Fork
  BY <1>20 DEF Fork
<1>21. CASE ChildExit
  BY <1>21 DEF ChildExit
<1>22. CASE HeirExit
  BY <1>22 DEF HeirExit
<1>23. CASE Cancel
  BY <1>23 DEF Cancel
<1>24. CASE UNCHANGED vars
  BY <1>24 DEF vars
<1> QED
  BY <1>1, <1>2, <1>3, <1>4, <1>5, <1>6, <1>7, <1>8, <1>9, <1>10, <1>11, <1>12, <1>13, <1>14, <1>15, <1>16, <1>17, <1>18, <1>19, <1>20, <1>21, <1>22, <1>23, <1>24
  DEF Next, Supervisor, Reader, World, Finished

\* Each transition continues the story the sink was told.
LEMMA StoryStep ==
  ASSUME TypeOK, PhaseInv, AimInv, StoryInv, [Next]_vars
  PROVE  StoryInv'
<1> USE DEF StoryInv, OneStory, PhaseInv, AimInv, TypeOK, Resting, lifecycle, stream, process
<1>1. CASE Call
  BY <1>1 DEF Call
<1>2. CASE Enter
  <2>1. CASE token /\ state = "planned"
    <3>1. state' = "cancelled" /\ events' = <<"cancelled">>
      BY <2>1, <1>2, Transitions DEF Enter
    <3> QED BY <3>1
  <2>2. CASE ~(token /\ state = "planned")
    <3>1. UNCHANGED lifecycle
      BY <2>2, <1>2, Transitions DEF Enter, State
    <3> QED BY <3>1
  <2> QED BY <2>1, <2>2
<1>3. CASE Spawn
  BY <1>3 DEF Spawn, Transition, Allowed
<1>4. CASE SpawnFails
  BY <1>4 DEF SpawnFails, Fails
<1>5. CASE DrainOne
  BY <1>5 DEF DrainOne
<1>6. CASE Drained
  BY <1>6 DEF Drained
<1>7. CASE Poll
  <2>1. CASE token
    <3>1. state' = "cancelling" /\ events' = Append(events, "cancelling")
      BY <2>1, <1>7, Transitions DEF Poll
    <3>2. events = <<"running">>
      BY <1>7 DEF Poll
    <3>3. events' = <<"running", "cancelling">>
      BY <3>1, <3>2, Stories, Zenon
    <3> QED BY <3>1, <3>3
  <2>2. CASE ~token
    BY <2>2, <1>7 DEF Poll
  <2> QED BY <2>1, <2>2
<1>8. CASE Kill
  BY <1>8 DEF Kill, Killed, Fails
<1>9. CASE Wait
  BY <1>9 DEF Wait, Fails
<1>10. CASE TryWait
  BY <1>10 DEF TryWait
<1>11. CASE TryWaitFails
  BY <1>11 DEF TryWaitFails, Fails, Killed
<1>12. CASE Join
  BY <1>12 DEF Join
<1>13. CASE Detach
  BY <1>13 DEF Detach
<1>14. CASE Complete
  <2>1. CASE state = "running"
    <3>1. events = <<"running">> /\ aim # "cancelled"
      BY <2>1, <1>14 DEF Complete
    <3>2. CASE Fail
      BY <3>1, <3>2, <2>1 DEF Fail
    <3>3. CASE Transition("succeeded")
      <4>1. state' = "succeeded" /\ events' = Append(events, "succeeded")
        BY <3>3, <2>1, Transitions
      <4>2. events' = <<"running", "succeeded">>
        BY <4>1, <3>1, Stories, Zenon
      <4> QED BY <4>1, <4>2
    <3>4. CASE UNCHANGED lifecycle
      BY <3>4
    <3> QED BY <3>1, <3>2, <3>3, <3>4, <1>14 DEF Complete
  <2>2. CASE state = "cancelling"
    <3>1. events = <<"running", "cancelling">> /\ aim \notin {"succeeded", "process"}
      BY <2>2, <1>14 DEF Complete
    <3>2. CASE Fail
      BY <3>1, <3>2, <2>2 DEF Fail
    <3>3. CASE Transition("cancelled")
      <4>1. state' = "cancelled" /\ events' = Append(events, "cancelled")
        BY <3>3, <2>2, Transitions
      <4>2. events' = <<"running", "cancelling", "cancelled">>
        BY <4>1, <3>1, Stories, Zenon
      <4> QED BY <4>1, <4>2
    <3>4. CASE UNCHANGED lifecycle
      BY <3>4
    <3> QED BY <3>1, <3>2, <3>3, <3>4, <1>14 DEF Complete
  <2> QED BY <2>1, <2>2, <1>14 DEF Complete
<1>15. CASE Report
  <2>1. CASE state = "running"
    <3>1. events = <<"running">>
      BY <2>1
    <3> QED BY <3>1, <2>1, <1>15 DEF Report, Fail
  <2>2. CASE state = "cancelling"
    <3>1. events = <<"running", "cancelling">>
      BY <2>2
    <3> QED BY <3>1, <2>2, <1>15 DEF Report, Fail
  <2> QED BY <2>1, <2>2, <1>15 DEF Report, Fail
<1>16. CASE Read
  BY <1>16 DEF Read, Receiving
<1>17. CASE EndOfFile
  BY <1>17 DEF EndOfFile
<1>18. CASE ReadFails
  BY <1>18 DEF ReadFails, Fails
<1>19. CASE Write
  BY <1>19 DEF Write
<1>20. CASE Fork
  BY <1>20 DEF Fork
<1>21. CASE ChildExit
  BY <1>21 DEF ChildExit
<1>22. CASE HeirExit
  BY <1>22 DEF HeirExit
<1>23. CASE Cancel
  BY <1>23 DEF Cancel
<1>24. CASE UNCHANGED vars
  BY <1>24 DEF vars
<1> QED
  BY <1>1, <1>2, <1>3, <1>4, <1>5, <1>6, <1>7, <1>8, <1>9, <1>10, <1>11, <1>12, <1>13, <1>14, <1>15, <1>16, <1>17, <1>18, <1>19, <1>20, <1>21, <1>22, <1>23, <1>24
  DEF Next, Supervisor, Reader, World, Finished

-----------------------------------------------------------------------------
(* The theorems *)

\* The inductive invariant holds initially and is kept by every step.
LEMMA Invariance ==
  ASSUME SupervisionAssumption
  PROVE  Spec => []IInv
<1>1. Init => IInv
  <2> SUFFICES ASSUME Init PROVE IInv
    OBVIOUS
  <2> USE DEF Init
  <2>1. <<>> \in Seq(Record) /\ Len(<<>>) = 0 /\ <<>> \in Seq(State \cup {"failure"})
    OBVIOUS
  <2>2. TypeOK
    <3>1. token \in BOOLEAN /\ capture \in BOOLEAN /\ broken \in BOOLEAN
          /\ reaped \in BOOLEAN /\ heir \in BOOLEAN
      BY Zenon
    <3> QED BY <2>1, <3>1, SupervisionAssumption DEF TypeOK, SupervisionAssumption, State, PC
  <2>3. PhaseInv /\ AimInv /\ ReaderInv /\ SuccessInv
    BY DEF PhaseInv, AimInv, ReaderInv, SuccessInv, Resting
  <2>4. QueueInv
    BY <2>1, ConcatEmptySeq DEF QueueInv
  <2>5. StoryInv
    BY DEF StoryInv, OneStory
  <2> QED BY <2>2, <2>3, <2>4, <2>5 DEF IInv
<1>2. IInv /\ [Next]_vars => IInv'
  BY SupervisionAssumption, TypeStep, ControlStep, QueueStep, SuccessStep, StoryStep DEF IInv
<1> QED BY <1>1, <1>2, PTL DEF Spec

\* Capacities, counters and histories stay in their ranges: neither the pipe
\* nor the progress channel is ever asked to hold more than it can.
THEOREM TypeCorrect ==
  ASSUME SupervisionAssumption
  PROVE  Spec => []TypeOK
<1>1. IInv => TypeOK
  BY DEF IInv
<1> QED BY <1>1, Invariance, PTL

\* The sink of an attempt hears one ending, and a failure with its diagnostic,
\* though supervise_inner may report the same failure twice.
THEOREM TellsOneStory ==
  ASSUME SupervisionAssumption
  PROVE  Spec => []OneStory
<1>1. IInv => OneStory
  BY DEF IInv, StoryInv
<1> QED BY <1>1, Invariance, PTL

\* Success means the child's own success, its output read to the end and all
\* that was queued delivered.
THEOREM SuccessComplete ==
  ASSUME SupervisionAssumption
  PROVE  Spec => []SuccessIsComplete
<1>1. IInv => SuccessIsComplete
  BY DEF IInv, SuccessInv, SuccessIsComplete
<1> QED BY <1>1, Invariance, PTL

\* Every step of supervision is one of the attempt, or none.
LEMMA AttemptStep ==
  ASSUME TypeOK, PhaseInv, AimInv, [Next]_vars
  PROVE  [Attempt!Next]_(Attempt!vars)
<1> USE DEF Attempt!vars, Attempt!Next, Attempt!Begin, Attempt!ChildEnds, Attempt!Succeed,
           Attempt!Fail, Attempt!Cancel, PhaseInv, Resting, lifecycle, stream, process
<1>1. CASE Call
  BY <1>1 DEF Call
<1>2. CASE Enter
  BY <1>2 DEF Enter, Transition, Allowed
<1>3. CASE Spawn
  BY <1>3 DEF Spawn, Transition, Allowed
<1>4. CASE SpawnFails
  BY <1>4 DEF SpawnFails, Fails
<1>5. CASE DrainOne
  BY <1>5 DEF DrainOne
<1>6. CASE Drained
  BY <1>6 DEF Drained
<1>7. CASE Poll
  BY <1>7 DEF Poll, Transition, Allowed
<1>8. CASE Kill
  BY <1>8 DEF Kill, Killed, Fails, TypeOK
<1>9. CASE Wait
  BY <1>9 DEF Wait, Fails
<1>10. CASE TryWait
  BY <1>10 DEF TryWait
<1>11. CASE TryWaitFails
  BY <1>11 DEF TryWaitFails, Fails, Killed, TypeOK
<1>12. CASE Join
  BY <1>12 DEF Join
<1>13. CASE Detach
  BY <1>13 DEF Detach
<1>14. CASE Complete
  BY <1>14 DEF Complete, Transition, Allowed, Fail, AimInv, TypeOK
<1>15. CASE Report
  BY <1>15 DEF Report, Fail
<1>16. CASE Read
  BY <1>16 DEF Read, Receiving
<1>17. CASE EndOfFile
  BY <1>17 DEF EndOfFile
<1>18. CASE ReadFails
  BY <1>18 DEF ReadFails, Fails
<1>19. CASE Write
  BY <1>19 DEF Write
<1>20. CASE Fork
  BY <1>20 DEF Fork
<1>21. CASE ChildExit
  BY <1>21 DEF ChildExit
<1>22. CASE HeirExit
  BY <1>22 DEF HeirExit
<1>23. CASE Cancel
  BY <1>23 DEF Cancel
<1>24. CASE UNCHANGED vars
  BY <1>24 DEF vars
<1> QED
  BY <1>1, <1>2, <1>3, <1>4, <1>5, <1>6, <1>7, <1>8, <1>9, <1>10, <1>11, <1>12, <1>13, <1>14, <1>15, <1>16, <1>17, <1>18, <1>19, <1>20, <1>21, <1>22, <1>23, <1>24
  DEF Next, Supervisor, Reader, World, Finished

\* supervise_inner implements the attempt: one child at most, one ending,
\* success only from the child, cancelled only without a running child.
THEOREM ImplementsAttempt ==
  ASSUME SupervisionAssumption
  PROVE  Spec => AttemptSpec
<1>1. Init => Attempt!Init
  BY DEF Init, Attempt!Init
<1>2. IInv /\ [Next]_vars => [Attempt!Next]_(Attempt!vars)
  BY AttemptStep DEF IInv
<1> QED BY <1>1, <1>2, Invariance, PTL DEF Spec, AttemptSpec, Attempt!Spec

-----------------------------------------------------------------------------
(* The order of progress, and the end of the child *)

\* A sequence of numbers in order, and how two sequences lie to each other.
Ascending(s) == \A i, j \in 1..Len(s) : i < j => s[i] < s[j]
Below(s, t) == \A i \in 1..Len(s), j \in 1..Len(t) : s[i] < t[j]
UpTo(s, n) == \A i \in 1..Len(s) : s[i] <= n
Begins(s, t) == Len(s) <= Len(t) /\ \A i \in 1..Len(s) : s[i] = t[i]

\* Records ascend from the queue's history over the pipe to what is not written
\* yet, and what was delivered is where the accepted ones begin.
OrderInv ==
  /\ Ascending(accepted) /\ Ascending(pipe) /\ Below(accepted, pipe)
  /\ UpTo(accepted, written) /\ UpTo(pipe, written)
  /\ Begins(delivered, accepted)

\* Unless a system call failed, the supervisor has waited for the child
\* successfully when it leaves the loop.
ReapInv ==
  faults = 0 =>
    /\ aim # "io" /\ pc # "report"
    /\ pc \in {"finish", "last"} => reaped
    /\ state \in {"succeeded", "failed", "cancelled"} /\ child # "none" => reaped

\* A number above all of a sequence may be appended to it.
LEMMA AppendAscends ==
  ASSUME NEW s \in Seq(Nat), NEW x \in Nat, Ascending(s), \A i \in 1..Len(s) : s[i] < x
  PROVE  Ascending(Append(s, x))
<1> DEFINE a == Append(s, x)
<1>1. /\ a \in Seq(Nat) /\ Len(a) = Len(s) + 1 /\ Len(s) \in Nat
      /\ \A i \in 1..Len(s) : a[i] = s[i]
      /\ a[Len(s) + 1] = x
  BY AppendProperties
<1> HIDE DEF a
<1>2. ASSUME NEW i \in 1..Len(s) + 1, NEW j \in 1..Len(s) + 1, i < j PROVE a[i] < a[j]
  <2>1. i \in 1..Len(s)
    BY <1>1, <1>2
  <2>2. CASE j = Len(s) + 1
    BY <1>1, <2>1, <2>2
  <2>3. CASE j # Len(s) + 1
    <3>1. j \in 1..Len(s)
      BY <1>1, <2>3
    <3> QED
      BY <1>1, <1>2, <2>1, <3>1 DEF Ascending
  <2> QED
    BY <2>2, <2>3
<1> QED
  BY <1>1, <1>2 DEF Ascending, a

\* What holds of all of a sequence and of the element appended holds of all.
LEMMA AppendBounded ==
  ASSUME NEW s \in Seq(Nat), NEW x \in Nat
  PROVE  /\ Len(Append(s, x)) = Len(s) + 1
         /\ \A i \in 1..Len(Append(s, x)) :
              IF i <= Len(s) THEN i \in 1..Len(s) /\ Append(s, x)[i] = s[i]
                             ELSE Append(s, x)[i] = x
<1> DEFINE a == Append(s, x)
<1>1. /\ Len(a) = Len(s) + 1 /\ Len(s) \in Nat
      /\ \A i \in 1..Len(s) : a[i] = s[i]
      /\ a[Len(s) + 1] = x
  BY AppendProperties
<1> HIDE DEF a
<1>2. \A i \in 1..Len(a) : IF i <= Len(s) THEN i \in 1..Len(s) /\ a[i] = s[i] ELSE a[i] = x
  BY <1>1
<1> QED
  BY <1>1, <1>2 DEF a

\* The elements behind the head are those of the sequence, one place further.
LEMMA TailIs ==
  ASSUME NEW s \in Seq(Nat), s # <<>>
  PROVE  /\ Head(s) = s[1] /\ Head(s) \in Nat /\ 1 \in 1..Len(s)
         /\ Tail(s) \in Seq(Nat) /\ Len(Tail(s)) = Len(s) - 1 /\ Len(s) \in Nat
         /\ \A i \in 1..Len(Tail(s)) : i + 1 \in 1..Len(s) /\ Tail(s)[i] = s[i + 1]
<1>1. /\ Head(s) = s[1] /\ Head(s) \in Nat
      /\ Tail(s) \in Seq(Nat) /\ Len(Tail(s)) = Len(s) - 1 /\ Len(s) \in Nat
      /\ \A i \in 1..Len(Tail(s)) : Tail(s)[i] = s[i + 1]
  BY HeadTailProperties
<1>2. Len(s) > 0
  BY EmptySeq
<1> QED
  BY <1>1, <1>2

\* The reader takes a record out of the pipe and may pass it on.
LEMMA ReadOrder ==
  ASSUME TypeOK, SupervisionAssumption, OrderInv, Read
  PROVE  OrderInv'
<1>1. /\ pipe \in Seq(Nat) /\ accepted \in Seq(Nat) /\ delivered \in Seq(Nat)
      /\ Len(pipe) \in Nat /\ Len(accepted) \in Nat /\ Len(delivered) \in Nat
      /\ written \in Nat
  BY DEF TypeOK, SupervisionAssumption, Record
<1> DEFINE h == Head(pipe)
           t == Tail(pipe)
<1>2. /\ pipe # <<>> /\ pipe' = t /\ delivered' = delivered /\ written' = written
      /\ accepted' = Append(accepted, h) \/ accepted' = accepted
  BY DEF Read
<1>3. /\ h = pipe[1] /\ h \in Nat /\ 1 \in 1..Len(pipe)
      /\ t \in Seq(Nat) /\ Len(t) = Len(pipe) - 1
      /\ \A i \in 1..Len(t) : i + 1 \in 1..Len(pipe) /\ t[i] = pipe[i + 1]
  BY <1>1, <1>2, TailIs
<1> HIDE DEF h, t
<1>4. Ascending(t) /\ UpTo(t, written) /\ Below(accepted, t)
  <2>1. ASSUME NEW i \in 1..Len(t), NEW j \in 1..Len(t), i < j PROVE t[i] < t[j]
    <3>1. i + 1 \in 1..Len(pipe) /\ j + 1 \in 1..Len(pipe) /\ i + 1 < j + 1
      BY <1>3, <2>1
    <3>2. pipe[i + 1] < pipe[j + 1]
      BY <3>1 DEF OrderInv, Ascending
    <3> QED
      BY <1>3, <3>2
  <2> QED
    BY <1>3, <2>1 DEF OrderInv, Ascending, UpTo, Below
<1>5. h <= written /\ (\A i \in 1..Len(accepted) : accepted[i] < h)
      /\ \A j \in 1..Len(t) : h < t[j]
  <2>1. h <= written /\ \A i \in 1..Len(accepted) : accepted[i] < h
    BY <1>3 DEF OrderInv, UpTo, Below
  <2>2. ASSUME NEW j \in 1..Len(t) PROVE h < t[j]
    <3>1. 1 < j + 1 /\ j + 1 \in 1..Len(pipe)
      BY <1>3
    <3>2. pipe[1] < pipe[j + 1]
      BY <1>3, <3>1 DEF OrderInv, Ascending
    <3> QED
      BY <1>3, <3>2
  <2> QED
    BY <2>1, <2>2
<1>6. CASE accepted' = accepted
  BY <1>2, <1>4, <1>6 DEF OrderInv
<1>7. CASE accepted' = Append(accepted, h)
  <2> DEFINE a == Append(accepted, h)
  <2>1. Ascending(a)
    BY <1>1, <1>3, <1>5, AppendAscends DEF OrderInv
  <2>2. /\ Len(a) = Len(accepted) + 1
        /\ \A i \in 1..Len(a) : IF i <= Len(accepted)
                                  THEN i \in 1..Len(accepted) /\ a[i] = accepted[i]
                                  ELSE a[i] = h
    BY <1>1, <1>3, AppendBounded
  <2> HIDE DEF a
  <2>3. Below(a, t)
    BY <1>4, <1>5, <2>2 DEF Below
  <2>4. UpTo(a, written)
    BY <1>5, <2>2 DEF UpTo, OrderInv
  <2>5. Begins(delivered, a)
    <3>1. Len(delivered) <= Len(a)
      BY <1>1, <2>2 DEF OrderInv, Begins
    <3>2. ASSUME NEW i \in 1..Len(delivered) PROVE delivered[i] = a[i]
      <4>1. i \in 1..Len(a) /\ i <= Len(accepted)
        BY <1>1, <2>2 DEF OrderInv, Begins
      <4> QED
        BY <2>2, <4>1 DEF OrderInv, Begins
    <3> QED
      BY <3>1, <3>2 DEF Begins
  <2> QED
    BY <1>2, <1>4, <1>7, <2>1, <2>3, <2>4, <2>5 DEF OrderInv, a
<1> QED
  BY <1>2, <1>6, <1>7

\* The next record is above all that were written.
LEMMA WriteOrder ==
  ASSUME TypeOK, SupervisionAssumption, OrderInv, Write
  PROVE  OrderInv'
<1>1. /\ pipe \in Seq(Nat) /\ accepted \in Seq(Nat) /\ written \in Nat
      /\ Len(pipe) \in Nat /\ Len(accepted) \in Nat
      /\ \A i \in 1..Len(accepted) : accepted[i] \in Nat
      /\ \A i \in 1..Len(pipe) : pipe[i] \in Nat
  BY DEF TypeOK, SupervisionAssumption, Record
<1> DEFINE n == written + 1
           p == Append(pipe, n)
<1>2. pipe' = p /\ written' = n /\ accepted' = accepted /\ delivered' = delivered
  BY DEF Write
<1>3. (\A i \in 1..Len(pipe) : pipe[i] < n) /\ \A i \in 1..Len(accepted) : accepted[i] < n
  BY <1>1 DEF OrderInv, UpTo
<1>4. n \in Nat
  BY <1>1
<1> HIDE DEF n
<1>5. Ascending(p)
  BY <1>1, <1>3, <1>4, AppendAscends DEF OrderInv
<1>6. /\ Len(p) = Len(pipe) + 1
      /\ \A i \in 1..Len(p) : IF i <= Len(pipe) THEN i \in 1..Len(pipe) /\ p[i] = pipe[i]
                                                ELSE p[i] = n
  BY <1>1, <1>4, AppendBounded
<1> HIDE DEF p
<1>7. Below(accepted, p)
  BY <1>3, <1>6 DEF OrderInv, Below
<1>8. UpTo(p, n)
  <2>1. ASSUME NEW i \in 1..Len(p) PROVE p[i] <= n
    <3>1. CASE i <= Len(pipe)
      BY <1>1, <1>3, <1>4, <1>6, <3>1
    <3>2. CASE ~(i <= Len(pipe))
      BY <1>4, <1>6, <3>2
    <3> QED
      BY <3>1, <3>2
  <2> QED
    BY <2>1 DEF UpTo
<1>9. UpTo(accepted, n)
  BY <1>1, <1>3, <1>4 DEF UpTo
<1> QED
  BY <1>2, <1>5, <1>7, <1>8, <1>9 DEF OrderInv

\* What is drained is the next of the accepted records.
LEMMA DrainOrder ==
  ASSUME TypeOK', QueueInv', OrderInv, DrainOne
  PROVE  OrderInv'
<1>1. /\ pipe' = pipe /\ accepted' = accepted /\ written' = written /\ state' = state
      /\ state # "running" => delivered' = delivered
  BY DEF DrainOne, lifecycle
<1>2. CASE state = "running"
  <2>1. delivered' \in Seq(Record) /\ queue' \in Seq(Record) /\ accepted' = delivered' \o queue'
    BY <1>1, <1>2 DEF TypeOK, QueueInv
  <2>2. \A s, t \in Seq(Record) : Begins(s, s \o t)
    <3>1. ASSUME NEW s \in Seq(Record), NEW t \in Seq(Record)
          PROVE  Begins(s, s \o t)
      <4>1. /\ Len(s \o t) = Len(s) + Len(t) /\ Len(s) \in Nat /\ Len(t) \in Nat
            /\ \A i \in 1..Len(s) + Len(t) :
                 (s \o t)[i] = IF i <= Len(s) THEN s[i] ELSE t[i - Len(s)]
        BY ConcatProperties
      <4> QED
        BY <4>1 DEF Begins
    <3> QED
      BY <3>1
  <2>3. Begins(delivered', accepted')
    BY <2>1, <2>2
  <2> QED
    BY <1>1, <2>3 DEF OrderInv
<1>3. CASE state # "running"
  BY <1>1, <1>3 DEF OrderInv
<1> QED
  BY <1>2, <1>3

\* Every step keeps the records in order.
LEMMA OrderStep ==
  ASSUME SupervisionAssumption, IInv, IInv', OrderInv, [Next]_vars
  PROVE  OrderInv'
<1>0. TypeOK /\ TypeOK' /\ QueueInv'
  BY DEF IInv
<1>1. ASSUME UNCHANGED <<pipe, accepted, delivered, written>> PROVE OrderInv'
  BY <1>1 DEF OrderInv
<1>2. CASE ReadFails
  <2>1. pipe' = <<>> /\ UNCHANGED <<accepted, delivered, written>>
    BY <1>2 DEF ReadFails
  <2>2. Len(pipe') = 0
    BY <2>1
  <2> QED
    BY <2>1, <2>2 DEF OrderInv, Ascending, Below, UpTo
<1>3. CASE Call \/ Enter \/ Spawn \/ SpawnFails \/ Drained \/ Poll \/ Kill \/ Wait
  BY <1>1, <1>3 DEF Call, Enter, Spawn, SpawnFails, Drained, Poll, Kill, Wait, stream
<1>4. CASE TryWait \/ TryWaitFails \/ Join \/ Detach \/ Complete \/ Report
  BY <1>1, <1>4 DEF TryWait, TryWaitFails, Join, Detach, Complete, Report, stream
<1>5. CASE EndOfFile \/ Fork \/ ChildExit \/ HeirExit \/ Cancel \/ UNCHANGED vars
  BY <1>1, <1>5 DEF EndOfFile, Fork, ChildExit, HeirExit, Cancel, vars, stream
<1> QED
  BY <1>0, <1>2, <1>3, <1>4, <1>5, ReadOrder, WriteOrder, DrainOrder
     DEF Next, Supervisor, Reader, World, Finished

\* Every step keeps the account of the child.
LEMMA ReapStep ==
  ASSUME TypeOK, PhaseInv, ReapInv, [Next]_vars
  PROVE  ReapInv'
<1> USE DEF ReapInv, TypeOK, PhaseInv, Resting, lifecycle, stream, process
<1>1. CASE Call
  BY <1>1 DEF Call
<1>2. CASE Enter
  BY <1>2 DEF Enter, Transition, Allowed
<1>3. CASE Spawn
  BY <1>3 DEF Spawn, Transition, Allowed
<1>4. CASE SpawnFails \/ TryWaitFails \/ ReadFails
  <2>1. faults' # 0
    BY <1>4 DEF SpawnFails, TryWaitFails, ReadFails, Fails
  <2> QED
    BY <2>1
<1>5. CASE DrainOne \/ Drained
  BY <1>5 DEF DrainOne, Drained
<1>6. CASE Poll
  BY <1>6 DEF Poll, Transition, Allowed
<1>7. CASE Kill
  BY <1>7 DEF Kill, Killed, Fails
<1>8. CASE Wait
  BY <1>8 DEF Wait, Fails
<1>9. CASE TryWait
  BY <1>9 DEF TryWait
<1>10. CASE Join \/ Detach
  BY <1>10 DEF Join, Detach
<1>11. CASE Complete
  BY <1>11 DEF Complete, Transition, Allowed, Fail
<1>12. CASE Report
  BY <1>12 DEF Report, Fail
<1>13. CASE Read \/ EndOfFile
  BY <1>13 DEF Read, EndOfFile
<1>14. CASE Write \/ Fork \/ HeirExit \/ Cancel
  BY <1>14 DEF Write, Fork, HeirExit, Cancel
<1>15. CASE ChildExit
  BY <1>15 DEF ChildExit
<1>16. CASE UNCHANGED vars
  BY <1>16 DEF vars
<1> QED
  BY <1>1, <1>2, <1>3, <1>4, <1>5, <1>6, <1>7, <1>8, <1>9, <1>10, <1>11, <1>12, <1>13, <1>14,
     <1>15, <1>16 DEF Next, Supervisor, Reader, World, Finished

\* Whatever a full queue dropped and a cancellation left undelivered, the sink
\* receives progress in the order of writing, each record at most once, and
\* misses none that the queue accepted before one it received.
THEOREM ProgressArrivesInOrder ==
  ASSUME SupervisionAssumption
  PROVE  Spec => []ProgressInOrder
<1>1. Init => OrderInv
  <2>1. Init => Len(<<>>) = 0 /\ accepted = <<>> /\ pipe = <<>> /\ delivered = <<>>
    BY DEF Init
  <2> QED
    BY <2>1 DEF OrderInv, Ascending, Below, UpTo, Begins
<1>2. IInv /\ IInv' /\ OrderInv /\ [Next]_vars => OrderInv'
  BY SupervisionAssumption, OrderStep
<1>3. IInv /\ OrderInv => ProgressInOrder
  <2> SUFFICES ASSUME IInv, OrderInv PROVE ProgressInOrder
    OBVIOUS
  <2>1. Len(delivered) \in Nat /\ Len(accepted) \in Nat
    BY DEF IInv, TypeOK
  <2>2. \A i \in 1..Len(delivered) : i \in 1..Len(accepted)
    BY <2>1 DEF OrderInv, Begins
  <2> QED
    BY <2>1, <2>2 DEF OrderInv, Begins, Ascending, ProgressInOrder
<1> QED
  BY <1>1, <1>2, <1>3, Invariance, PTL DEF Spec

\* No child is left unreaped by an attempt that is over, however it ended,
\* unless a system call failed on the way.
THEOREM EndedChildrenAreReaped ==
  ASSUME SupervisionAssumption
  PROVE  Spec => []EndedIsReaped
<1>1. Init => ReapInv
  BY DEF Init, ReapInv
<1>2. IInv /\ ReapInv /\ [Next]_vars => ReapInv'
  BY ReapStep DEF IInv
<1>3. ReapInv => EndedIsReaped
  BY DEF ReapInv, EndedIsReaped
<1> QED
  BY <1>1, <1>2, <1>3, Invariance, PTL DEF Spec
===============================================================================
