--------------------------- MODULE PollEngine_proofs ---------------------------
(***************************************************************************)
(* Theorems about PollEngine, for any points, intervals, retries and       *)
(* number of polls.                                                        *)
(***************************************************************************)
EXTENDS PollEngine, TLAPS

-----------------------------------------------------------------------------
(* Type correctness.  ReqPop, CutPop and RespPop read the head of a queue  *)
(* without a test, so TypeOK is inductive only with SemaphoreCountsQueue.  *)

IInv == TypeOK /\ SemaphoreCountsQueue

\* The threads start with empty queues, all waiting, and every variable typed.
LEMMA InitIInv == Init => IInv
<1> SUFFICES ASSUME Init PROVE IInv
  OBVIOUS
<1>1. TimerTypes /\ QueueTypes
  BY BoundAssumption DEF Init, TimerTypes, QueueTypes
<1>2. PointTypes /\ HistTypes /\ stack \subseteq Request
  BY BoundAssumption DEF Init, PointTypes, HistTypes, Report
<1>3. ReqTypes /\ CutTypes
  <2>1. reqPc = "wait" /\ reqTodo = <<>> /\ reqPoll = 0 /\ reqSeen = FALSE
    BY DEF Init
  <2>2. cutPc = "wait" /\ cutTodo = <<>>
    BY DEF Init
  <2>3. <<>> \in Seq(Points) /\ 0 \in 0..MaxPolls
    BY BoundAssumption
  <2>4. ReqTypes
    BY <2>1, <2>3 DEF ReqTypes, ReqPcs
  <2> QED
    BY <2>2, <2>3, <2>4 DEF CutTypes, CutPcs
<1>4. RespTypes
  BY BoundAssumption DEF Init, RespTypes, RespPcs
<1>5. SemaphoreCountsQueue
  BY DEF Init, SemaphoreCountsQueue, ReqSemCounts, CutSemCounts, RespSemCounts
<1> QED
  BY <1>1, <1>2, <1>3, <1>4, <1>5 DEF IInv, TypeOK

\* What the steps of the timer and of each thread leave alone.
LEMMA TimerFrame ==
  ASSUME Timer
  PROVE  UNCHANGED <<respQVars, pointVars, reqVars, cutVars, respVars, stack, histVars>>
  BY DEF Timer, TimerPoll, TimerCutoff

\* The request thread leaves the timer, the other queues and threads alone.
LEMMA ReqFrame ==
  ASSUME ReqThread
  PROVE  UNCHANGED <<timerVars, cutQVars, respQVars, cutVars, respVars>>
  BY DEF ReqThread, ReqWait, ReqPop, ReqListDone, ReqAwaited, ReqDummyPost, ReqDummyMark,
     ReqDummyCheck, ReqBegin, ReqClearPosted, ReqSetAwait, ReqInsert, ReqSent, ReqRefused,
     ReqFailAwait, ReqFailPost, ReqFailMark, ReqFailRemove, ReqFailTx

\* The cutoff thread leaves every thread but itself, and the stack, alone.
LEMMA CutFrame ==
  ASSUME CutThread
  PROVE  UNCHANGED <<timerVars, reqQVars, respQVars, reqVars, respVars, stack>>
  BY DEF CutThread, CutWait, CutPop, CutListDone, CutSkip, CutLate, CutPost, CutMark

\* The response thread leaves the timer, the other queues and threads alone.
LEMMA RespFrame ==
  ASSUME RespThread
  PROVE  UNCHANGED <<timerVars, reqQVars, cutQVars, reqVars, cutVars>>
  BY DEF RespThread, RespWait, RespPop, RespDrop, RespKnown, RespRetryBudget, RespRetryRead,
     RespRetryStore, RespResent, RespResendRefused, RespRemove, RespClearAwait, RespClearTx,
     RespPublish, RespUnprepared, RespMark, RespOnly

\* pushPollFreqToQueue pushes one event and posts one semaphore.
LEMMA TimerStep ==
  ASSUME IInv, Timer
  PROVE  IInv'
<1>1. UNCHANGED <<respQVars, pointVars, reqVars, cutVars, respVars, stack, histVars>>
  BY TimerFrame
<1>2. /\ PointTypes' /\ ReqTypes' /\ CutTypes' /\ RespTypes' /\ HistTypes'
      /\ (stack \subseteq Request)' /\ RespSemCounts'
  BY <1>1 DEF IInv, TypeOK, SemaphoreCountsQueue, PointTypes, ReqTypes, CutTypes, RespTypes,
     HistTypes, RespSemCounts, respQVars, pointVars, reqVars, cutVars, respVars, histVars
<1>3. TimerTypes' /\ QueueTypes' /\ ReqSemCounts' /\ CutSemCounts'
  <2>1. PICK i \in Intervals : TimerPoll(i) \/ TimerCutoff(i)
    BY DEF Timer
  <2>2. CASE TimerPoll(i)
    <3>1. polls[i] + 1 \in Poll
      BY <2>2, BoundAssumption DEF TimerPoll, IInv, TypeOK, TimerTypes, Poll
    <3>2. TimerTypes'
      BY <2>2, <3>1 DEF TimerPoll, IInv, TypeOK, TimerTypes, Poll
    <3> DEFINE e == [interval |-> i, poll |-> polls[i] + 1]
    <3>3. e \in Event
      BY <3>1 DEF Event
    <3>4. reqQ' \in Seq(Event) /\ Len(reqQ') = Len(reqQ) + 1
      BY <2>2, <3>3 DEF TimerPoll, IInv, TypeOK, QueueTypes
    <3> QED
      BY <1>1, <2>2, <3>2, <3>4 DEF TimerPoll, IInv, TypeOK, QueueTypes, SemaphoreCountsQueue,
         ReqSemCounts, CutSemCounts, cutQVars, respQVars, reqVars, cutVars
  <2>3. CASE TimerCutoff(i)
    <3>1. polls[i] \in Poll
      BY <2>3 DEF TimerCutoff, IInv, TypeOK, TimerTypes, Poll
    <3> DEFINE e == [interval |-> i, poll |-> polls[i]]
    <3>2. e \in Event
      BY <3>1 DEF Event
    <3>3. cutQ' \in Seq(Event) /\ Len(cutQ') = Len(cutQ) + 1
      BY <2>3, <3>2 DEF TimerCutoff, IInv, TypeOK, QueueTypes
    <3> QED
      BY <1>1, <2>3, <3>3 DEF TimerCutoff, IInv, TypeOK, TimerTypes, QueueTypes,
         SemaphoreCountsQueue, ReqSemCounts, CutSemCounts, reqQVars, respQVars, reqVars, cutVars
  <2> QED
    BY <2>1, <2>2, <2>3
<1> QED
  BY <1>2, <1>3 DEF IInv, TypeOK, SemaphoreCountsQueue

\* The request thread has a point at hand whenever it is not between lists.
LEMMA ReqPointType ==
  ASSUME ReqTypes, reqTodo # <<>>
  PROVE  reqPoint \in Points /\ Tail(reqTodo) \in Seq(Points)
  BY DEF ReqTypes, reqPoint

\* threadReqInit pops once for each sem_wait it passes, and keeps the types.
LEMMA ReqStep ==
  ASSUME IInv, ReqThread
  PROVE  IInv'
<1> USE DEF IInv, TypeOK, SemaphoreCountsQueue
<1>1. UNCHANGED <<timerVars, cutQVars, respQVars, cutVars, respVars>>
  BY ReqFrame
<1>2. TimerTypes' /\ CutTypes' /\ CutSemCounts' /\ RespSemCounts'
  BY <1>1 DEF TimerTypes, CutTypes, CutSemCounts, RespSemCounts, timerVars, cutQVars,
     respQVars, cutVars, respVars
<1>3. reqTodo # <<>> => reqPoint \in Points /\ Tail(reqTodo) \in Seq(Points)
  BY ReqPointType
<1>4. CASE ReqWait
  <2>1. UNCHANGED <<pointVars, stack, histVars>>
    BY <1>4 DEF ReqWait
  <2>2. PointTypes' /\ HistTypes' /\ RespTypes' /\ (stack \subseteq Request)'
    BY <1>1, <2>1 DEF PointTypes, HistTypes, RespTypes, pointVars, histVars, respVars
  <2>3. QueueTypes' /\ ReqTypes' /\ ReqSemCounts'
    BY <1>1, <1>4 DEF ReqWait, Goto, QueueTypes, ReqTypes, ReqPcs, ReqSemCounts, reqQVars,
       cutQVars, respQVars
  <2> QED
    BY <1>2, <2>2, <2>3
<1>5. CASE ReqPop
  <2>1. UNCHANGED <<pointVars, stack, histVars>>
    BY <1>5 DEF ReqPop
  <2>2. PointTypes' /\ HistTypes' /\ RespTypes' /\ (stack \subseteq Request)'
    BY <1>1, <2>1 DEF PointTypes, HistTypes, RespTypes, pointVars, histVars, respVars
  <2>3. reqQ \in Seq(Event) /\ reqQ # <<>>
    BY <1>5 DEF ReqPop, QueueTypes, ReqSemCounts
  <2>4. Head(reqQ) \in Event /\ reqQ' \in Seq(Event) /\ Len(reqQ') = Len(reqQ) - 1
    BY <1>5, <2>3 DEF ReqPop
  <2>5. QueueTypes' /\ ReqTypes' /\ ReqSemCounts'
    BY <1>1, <1>5, <2>4, PointsOfAssumption DEF ReqPop, QueueTypes, ReqTypes, ReqPcs,
       ReqSemCounts, cutQVars, respQVars, Event, Poll
  <2> QED
    BY <1>2, <2>2, <2>5
<1>6. CASE ReqListDone
  <2>1. UNCHANGED <<pointVars, stack, histVars>>
    BY <1>6 DEF ReqListDone
  <2>2. PointTypes' /\ HistTypes' /\ RespTypes' /\ (stack \subseteq Request)'
    BY <1>1, <2>1 DEF PointTypes, HistTypes, RespTypes, pointVars, histVars, respVars
  <2>3. QueueTypes' /\ ReqTypes' /\ ReqSemCounts'
    BY <1>1, <1>6 DEF ReqListDone, Goto, QueueTypes, ReqTypes, ReqPcs, ReqSemCounts, reqQVars,
       cutQVars, respQVars
  <2> QED
    BY <1>2, <2>2, <2>3
<1>7. CASE ReqAwaited
  <2>1. QueueTypes' /\ ReqTypes' /\ ReqSemCounts'
    BY <1>1, <1>3, <1>7 DEF ReqAwaited, Goto, NextPoint, QueueTypes, ReqTypes, ReqPcs, ReqSemCounts,
       PointTypes, reqQVars, cutQVars, respQVars
  <2>2. PointTypes' /\ RespTypes' /\ (stack \subseteq Request)'
    BY <1>1, <1>7 DEF ReqAwaited, PointTypes, RespTypes, pointVars, respVars
  <2>3. HistTypes'
    BY <1>3, <1>7 DEF ReqAwaited, Report, HistTypes, ReqTypes
  <2> QED
    BY <1>2, <2>1, <2>2, <2>3
<1>8. CASE ReqDummyPost
  <2>1. QueueTypes' /\ ReqTypes' /\ ReqSemCounts'
    BY <1>1, <1>3, <1>8 DEF ReqDummyPost, Goto, NextPoint, QueueTypes, ReqTypes, ReqPcs, ReqSemCounts,
       PointTypes, reqQVars, cutQVars, respQVars
  <2>2. PointTypes' /\ RespTypes' /\ (stack \subseteq Request)'
    BY <1>1, <1>8 DEF ReqDummyPost, PointTypes, RespTypes, pointVars, respVars
  <2>3. HistTypes'
    BY <1>3, <1>8 DEF ReqDummyPost, PostDummy, Post, Report, HistTypes, ReqTypes
  <2> QED
    BY <1>2, <2>1, <2>2, <2>3
<1>9. CASE ReqDummyMark
  <2>1. QueueTypes' /\ ReqTypes' /\ ReqSemCounts'
    BY <1>1, <1>3, <1>9 DEF ReqDummyMark, Goto, NextPoint, QueueTypes, ReqTypes, ReqPcs, ReqSemCounts,
       PointTypes, reqQVars, cutQVars, respQVars
  <2>2. HistTypes' /\ (stack \subseteq Request)'
    BY <1>9 DEF ReqDummyMark, HistTypes, histVars
  <2>3. PointTypes' /\ RespTypes'
    BY <1>1, <1>3, <1>9 DEF ReqDummyMark, PointTypes, RespTypes, ReqTypes, respVars
  <2> QED
    BY <1>2, <2>1, <2>2, <2>3
<1>10. CASE ReqDummyCheck
  <2>1. QueueTypes' /\ ReqTypes' /\ ReqSemCounts'
    BY <1>1, <1>3, <1>10 DEF ReqDummyCheck, Goto, NextPoint, QueueTypes, ReqTypes, ReqPcs, ReqSemCounts,
       PointTypes, reqQVars, cutQVars, respQVars
  <2>2. HistTypes' /\ (stack \subseteq Request)'
    BY <1>10 DEF ReqDummyCheck, HistTypes, histVars
  <2>3. PointTypes' /\ RespTypes'
    BY <1>1, <1>3, <1>10 DEF ReqDummyCheck, PointTypes, RespTypes, ReqTypes, respVars
  <2> QED
    BY <1>2, <2>1, <2>2, <2>3
<1>11. CASE ReqBegin
  <2>1. QueueTypes' /\ ReqTypes' /\ ReqSemCounts'
    BY <1>1, <1>3, <1>11 DEF ReqBegin, Goto, NextPoint, QueueTypes, ReqTypes, ReqPcs, ReqSemCounts,
       PointTypes, reqQVars, cutQVars, respQVars
  <2>2. PointTypes' /\ RespTypes' /\ (stack \subseteq Request)'
    BY <1>1, <1>3, <1>11 DEF ReqBegin, PointTypes, RespTypes, ReqTypes, Poll, respVars
  <2>3. HistTypes'
    BY <1>3, <1>11 DEF ReqBegin, Report, HistTypes, ReqTypes
  <2> QED
    BY <1>2, <2>1, <2>2, <2>3
<1>12. CASE ReqClearPosted
  <2>1. QueueTypes' /\ ReqTypes' /\ ReqSemCounts'
    BY <1>1, <1>3, <1>12 DEF ReqClearPosted, Goto, NextPoint, QueueTypes, ReqTypes, ReqPcs, ReqSemCounts,
       PointTypes, reqQVars, cutQVars, respQVars
  <2>2. HistTypes' /\ (stack \subseteq Request)'
    BY <1>12 DEF ReqClearPosted, HistTypes, histVars
  <2>3. PointTypes' /\ RespTypes'
    BY <1>1, <1>3, <1>12 DEF ReqClearPosted, PointTypes, RespTypes, ReqTypes, respVars
  <2> QED
    BY <1>2, <2>1, <2>2, <2>3
<1>13. CASE ReqSetAwait
  <2>1. QueueTypes' /\ ReqTypes' /\ ReqSemCounts'
    BY <1>1, <1>3, <1>13 DEF ReqSetAwait, Goto, NextPoint, QueueTypes, ReqTypes, ReqPcs, ReqSemCounts,
       PointTypes, reqQVars, cutQVars, respQVars
  <2>2. HistTypes' /\ (stack \subseteq Request)'
    BY <1>13 DEF ReqSetAwait, HistTypes, histVars
  <2>3. PointTypes' /\ RespTypes'
    BY <1>1, <1>3, <1>13 DEF ReqSetAwait, PointTypes, RespTypes, ReqTypes, respVars
  <2> QED
    BY <1>2, <2>1, <2>2, <2>3
<1>14. CASE ReqInsert
  <2>1. QueueTypes' /\ ReqTypes' /\ ReqSemCounts'
    BY <1>1, <1>3, <1>14 DEF ReqInsert, Goto, NextPoint, QueueTypes, ReqTypes, ReqPcs, ReqSemCounts,
       PointTypes, reqQVars, cutQVars, respQVars
  <2>2. HistTypes' /\ (stack \subseteq Request)'
    BY <1>3, <1>14 DEF ReqInsert, HistTypes, ReqTypes
  <2>3. PointTypes'
    BY <1>3, <1>14, BoundAssumption DEF ReqInsert, PointTypes, ReqTypes
  <2>4. respPc = "retryRead" => retries'[resp.pt] > 0
    BY <1>3, <1>14, BoundAssumption DEF ReqInsert, PointTypes, ReqTypes, RespTypes, Response
  <2>5. RespTypes'
    BY <1>1, <2>4 DEF RespTypes, respVars
  <2> QED
    BY <1>2, <2>1, <2>2, <2>3, <2>5
<1>15. CASE ReqSent
  <2>1. QueueTypes' /\ ReqTypes' /\ ReqSemCounts'
    BY <1>1, <1>3, <1>15 DEF ReqSent, Goto, NextPoint, QueueTypes, ReqTypes, ReqPcs, ReqSemCounts,
       PointTypes, reqQVars, cutQVars, respQVars
  <2>2. PointTypes' /\ HistTypes' /\ RespTypes'
    BY <1>1, <1>15 DEF ReqSent, PointTypes, HistTypes, RespTypes, pointVars, histVars, respVars
  <2>3. (stack \subseteq Request)'
    BY <1>3, <1>15 DEF ReqSent, ReqTypes, Request
  <2> QED
    BY <1>2, <2>1, <2>2, <2>3
<1>16. CASE ReqRefused
  <2>1. UNCHANGED <<pointVars, stack, histVars>>
    BY <1>16 DEF ReqRefused
  <2>2. PointTypes' /\ HistTypes' /\ RespTypes' /\ (stack \subseteq Request)'
    BY <1>1, <2>1 DEF PointTypes, HistTypes, RespTypes, pointVars, histVars, respVars
  <2>3. QueueTypes' /\ ReqTypes' /\ ReqSemCounts'
    BY <1>1, <1>16 DEF ReqRefused, Goto, QueueTypes, ReqTypes, ReqPcs, ReqSemCounts, reqQVars,
       cutQVars, respQVars
  <2> QED
    BY <1>2, <2>2, <2>3
<1>17. CASE ReqFailAwait
  <2>1. QueueTypes' /\ ReqTypes' /\ ReqSemCounts'
    BY <1>1, <1>3, <1>17 DEF ReqFailAwait, Goto, NextPoint, QueueTypes, ReqTypes, ReqPcs, ReqSemCounts,
       PointTypes, reqQVars, cutQVars, respQVars
  <2>2. HistTypes' /\ (stack \subseteq Request)'
    BY <1>17 DEF ReqFailAwait, HistTypes, histVars
  <2>3. PointTypes' /\ RespTypes'
    BY <1>1, <1>3, <1>17 DEF ReqFailAwait, PointTypes, RespTypes, ReqTypes, respVars
  <2> QED
    BY <1>2, <2>1, <2>2, <2>3
<1>18. CASE ReqFailPost
  <2>1. QueueTypes' /\ ReqTypes' /\ ReqSemCounts'
    BY <1>1, <1>3, <1>18 DEF ReqFailPost, Goto, NextPoint, QueueTypes, ReqTypes, ReqPcs, ReqSemCounts,
       PointTypes, reqQVars, cutQVars, respQVars
  <2>2. PointTypes' /\ RespTypes' /\ (stack \subseteq Request)'
    BY <1>1, <1>18 DEF ReqFailPost, PointTypes, RespTypes, pointVars, respVars
  <2>3. HistTypes'
    BY <1>3, <1>18 DEF ReqFailPost, PostDummy, Post, Report, HistTypes, ReqTypes
  <2> QED
    BY <1>2, <2>1, <2>2, <2>3
<1>19. CASE ReqFailMark
  <2>1. QueueTypes' /\ ReqTypes' /\ ReqSemCounts'
    BY <1>1, <1>3, <1>19 DEF ReqFailMark, Goto, NextPoint, QueueTypes, ReqTypes, ReqPcs, ReqSemCounts,
       PointTypes, reqQVars, cutQVars, respQVars
  <2>2. HistTypes' /\ (stack \subseteq Request)'
    BY <1>19 DEF ReqFailMark, HistTypes, histVars
  <2>3. PointTypes' /\ RespTypes'
    BY <1>1, <1>3, <1>19 DEF ReqFailMark, PointTypes, RespTypes, ReqTypes, respVars
  <2> QED
    BY <1>2, <2>1, <2>2, <2>3
<1>20. CASE ReqFailRemove
  <2>1. QueueTypes' /\ ReqTypes' /\ ReqSemCounts'
    BY <1>1, <1>3, <1>20 DEF ReqFailRemove, Goto, NextPoint, QueueTypes, ReqTypes, ReqPcs, ReqSemCounts,
       PointTypes, reqQVars, cutQVars, respQVars
  <2>2. PointTypes' /\ RespTypes' /\ (stack \subseteq Request)'
    BY <1>1, <1>3, <1>20 DEF ReqFailRemove, PointTypes, RespTypes, ReqTypes, Poll, respVars
  <2>3. HistTypes'
    BY <1>3, <1>20 DEF ReqFailRemove, HistTypes, ReqTypes
  <2> QED
    BY <1>2, <2>1, <2>2, <2>3
<1>21. CASE ReqFailTx
  <2>1. QueueTypes' /\ ReqTypes' /\ ReqSemCounts'
    BY <1>1, <1>3, <1>21 DEF ReqFailTx, Goto, NextPoint, QueueTypes, ReqTypes, ReqPcs, ReqSemCounts,
       PointTypes, reqQVars, cutQVars, respQVars
  <2>2. HistTypes' /\ (stack \subseteq Request)'
    BY <1>21 DEF ReqFailTx, HistTypes, histVars
  <2>3. PointTypes' /\ RespTypes'
    BY <1>1, <1>3, <1>21 DEF ReqFailTx, PointTypes, RespTypes, ReqTypes, respVars
  <2> QED
    BY <1>2, <2>1, <2>2, <2>3
<1> QED
  BY <1>4, <1>5, <1>6, <1>7, <1>8, <1>9, <1>10, <1>11, <1>12, <1>13, <1>14, <1>15, <1>16, <1>17, <1>18, <1>19, <1>20, <1>21 DEF ReqThread

\* The cutoff thread has a point at hand whenever it is not between lists.
LEMMA CutPointType ==
  ASSUME CutTypes, cutTodo # <<>>
  PROVE  cutPoint \in Points /\ Tail(cutTodo) \in Seq(Points)
  BY DEF CutTypes, cutPoint

\* threadCheckCutoffRespInit pops once for each sem_wait it passes.
LEMMA CutStep ==
  ASSUME IInv, CutThread
  PROVE  IInv'
<1> USE DEF IInv, TypeOK, SemaphoreCountsQueue
<1>1. UNCHANGED <<timerVars, reqQVars, respQVars, reqVars, respVars, stack>>
  BY CutFrame
<1>2. TimerTypes' /\ ReqTypes' /\ (stack \subseteq Request)' /\ ReqSemCounts' /\ RespSemCounts'
  BY <1>1 DEF TimerTypes, ReqTypes, ReqSemCounts, RespSemCounts, timerVars, reqQVars,
     respQVars, reqVars, respVars
<1>3. cutTodo # <<>> => cutPoint \in Points /\ Tail(cutTodo) \in Seq(Points)
  BY CutPointType
<1>4. CASE CutWait
  <2>1. UNCHANGED <<pointVars, histVars>>
    BY <1>4 DEF CutWait
  <2>2. PointTypes' /\ HistTypes' /\ RespTypes'
    BY <1>1, <2>1 DEF PointTypes, HistTypes, RespTypes, pointVars, histVars, respVars
  <2>3. QueueTypes' /\ CutTypes' /\ CutSemCounts'
    BY <1>1, <1>3, <1>4 DEF CutWait, QueueTypes, CutTypes, CutPcs, CutSemCounts, reqQVars,
       cutQVars, respQVars
  <2> QED
    BY <1>2, <2>2, <2>3
<1>5. CASE CutListDone
  <2>1. UNCHANGED <<pointVars, histVars>>
    BY <1>5 DEF CutListDone
  <2>2. PointTypes' /\ HistTypes' /\ RespTypes'
    BY <1>1, <2>1 DEF PointTypes, HistTypes, RespTypes, pointVars, histVars, respVars
  <2>3. QueueTypes' /\ CutTypes' /\ CutSemCounts'
    BY <1>1, <1>3, <1>5 DEF CutListDone, QueueTypes, CutTypes, CutPcs, CutSemCounts, reqQVars,
       cutQVars, respQVars
  <2> QED
    BY <1>2, <2>2, <2>3
<1>6. CASE CutSkip
  <2>1. UNCHANGED <<pointVars, histVars>>
    BY <1>6 DEF CutSkip
  <2>2. PointTypes' /\ HistTypes' /\ RespTypes'
    BY <1>1, <2>1 DEF PointTypes, HistTypes, RespTypes, pointVars, histVars, respVars
  <2>3. QueueTypes' /\ CutTypes' /\ CutSemCounts'
    BY <1>1, <1>3, <1>6 DEF CutSkip, QueueTypes, CutTypes, CutPcs, CutSemCounts, reqQVars,
       cutQVars, respQVars
  <2> QED
    BY <1>2, <2>2, <2>3
<1>7. CASE CutLate
  <2>1. UNCHANGED <<pointVars, histVars>>
    BY <1>7 DEF CutLate
  <2>2. PointTypes' /\ HistTypes' /\ RespTypes'
    BY <1>1, <2>1 DEF PointTypes, HistTypes, RespTypes, pointVars, histVars, respVars
  <2>3. QueueTypes' /\ CutTypes' /\ CutSemCounts'
    BY <1>1, <1>3, <1>7 DEF CutLate, QueueTypes, CutTypes, CutPcs, CutSemCounts, reqQVars,
       cutQVars, respQVars
  <2> QED
    BY <1>2, <2>2, <2>3
<1>8. CASE CutPop
  <2>1. UNCHANGED <<pointVars, histVars>>
    BY <1>8 DEF CutPop
  <2>2. PointTypes' /\ HistTypes' /\ RespTypes'
    BY <1>1, <2>1 DEF PointTypes, HistTypes, RespTypes, pointVars, histVars, respVars
  <2>3. cutQ \in Seq(Event) /\ cutQ # <<>>
    BY <1>8 DEF CutPop, QueueTypes, CutSemCounts
  <2>4. Head(cutQ) \in Event /\ cutQ' \in Seq(Event) /\ Len(cutQ') = Len(cutQ) - 1
    BY <1>8, <2>3 DEF CutPop
  <2>5. QueueTypes' /\ CutTypes' /\ CutSemCounts'
    BY <1>1, <1>8, <2>4, PointsOfAssumption DEF CutPop, QueueTypes, CutTypes, CutPcs,
       CutSemCounts, reqQVars, respQVars, Event
  <2> QED
    BY <1>2, <2>2, <2>5
<1>9. CASE CutPost
  <2>1. PointTypes' /\ RespTypes'
    BY <1>1, <1>9 DEF CutPost, PointTypes, RespTypes, pointVars, respVars
  <2>2. HistTypes'
    BY <1>3, <1>9 DEF CutPost, PostDummy, Post, Report, HistTypes, CutTypes
  <2>3. QueueTypes' /\ CutTypes' /\ CutSemCounts'
    BY <1>1, <1>9 DEF CutPost, QueueTypes, CutTypes, CutPcs, CutSemCounts, reqQVars,
       cutQVars, respQVars
  <2> QED
    BY <1>2, <2>1, <2>2, <2>3
<1>10. CASE CutMark
  <2>1. PointTypes' /\ RespTypes'
    BY <1>1, <1>3, <1>10 DEF CutMark, PointTypes, RespTypes, CutTypes, respVars
  <2>2. HistTypes'
    BY <1>10 DEF CutMark, HistTypes, histVars
  <2>3. QueueTypes' /\ CutTypes' /\ CutSemCounts'
    BY <1>1, <1>3, <1>10 DEF CutMark, QueueTypes, CutTypes, CutPcs, CutSemCounts, reqQVars,
       cutQVars, respQVars
  <2> QED
    BY <1>2, <2>1, <2>2, <2>3
<1> QED
  BY <1>4, <1>5, <1>6, <1>7, <1>8, <1>9, <1>10 DEF CutThread

\* pushToQueue pushes one response and posts one semaphore.
LEMMA StackStep ==
  ASSUME IInv, StackAnswer
  PROVE  IInv'
<1> USE DEF IInv, TypeOK, SemaphoreCountsQueue
<1>1. PICK r \in stack, k \in Kind :
        /\ stack' = stack \ {r}
        /\ respQ' = Append(respQ, [pt |-> r.pt, poll |-> r.poll, kind |-> k])
        /\ respSem' = respSem + 1
        /\ UNCHANGED <<timerVars, reqQVars, cutQVars, pointVars, reqVars, cutVars, respVars, histVars>>
  BY DEF StackAnswer
<1> DEFINE e == [pt |-> r.pt, poll |-> r.poll, kind |-> k]
<1>2. e \in Response
  BY DEF Request, Response
<1>3. respQ' \in Seq(Response) /\ Len(respQ') = Len(respQ) + 1
  BY <1>1, <1>2 DEF QueueTypes
<1>4. QueueTypes' /\ ReqSemCounts' /\ CutSemCounts' /\ RespSemCounts'
  BY <1>1, <1>3 DEF QueueTypes, ReqSemCounts, CutSemCounts, RespSemCounts, reqQVars, cutQVars,
     reqVars, cutVars, respVars
<1>5. TimerTypes' /\ PointTypes' /\ ReqTypes' /\ CutTypes' /\ RespTypes' /\ HistTypes'
  BY <1>1 DEF TimerTypes, PointTypes, ReqTypes, CutTypes, RespTypes, HistTypes, timerVars,
     pointVars, reqVars, cutVars, respVars, histVars
<1> QED
  BY <1>1, <1>4, <1>5

\* respProcessThreads pops once for each sem_wait; the retry counter that
\* checkForRetry stores back stays within the configured number.
LEMMA RespStep ==
  ASSUME IInv, RespThread
  PROVE  IInv'
<1> USE DEF IInv, TypeOK, SemaphoreCountsQueue
<1>1. UNCHANGED <<timerVars, reqQVars, cutQVars, reqVars, cutVars>>
  BY RespFrame
<1>2. TimerTypes' /\ ReqTypes' /\ CutTypes' /\ ReqSemCounts' /\ CutSemCounts'
  BY <1>1 DEF TimerTypes, ReqTypes, CutTypes, ReqSemCounts, CutSemCounts, timerVars, reqQVars,
     cutQVars, reqVars, cutVars
<1>3. respPc \notin {"wait", "pop"} => resp.pt \in Points /\ resp.poll \in Poll
  BY DEF RespTypes, Response
<1>4. CASE RespWait
  <2>1. PointTypes' /\ HistTypes' /\ (stack \subseteq Request)'
    BY <1>4 DEF RespWait, PointTypes, HistTypes, pointVars, histVars
  <2>2. QueueTypes' /\ RespTypes' /\ RespSemCounts'
    BY <1>1, <1>3, <1>4 DEF RespWait, RespGoto, QueueTypes, PointTypes, RespTypes, RespPcs,
       RespSemCounts, reqQVars, cutQVars, respQVars, pointVars
  <2> QED
    BY <1>2, <2>1, <2>2
<1>5. CASE RespPop
  <2>1. PointTypes' /\ HistTypes' /\ (stack \subseteq Request)'
    BY <1>5 DEF RespPop, PointTypes, HistTypes, pointVars, histVars
  <2>2. respQ \in Seq(Response) /\ respQ # <<>>
    BY <1>5 DEF RespPop, QueueTypes, RespSemCounts
  <2>3. /\ resp' \in Response
        /\ respQ' \in Seq(Response) /\ Len(respQ') = Len(respQ) - 1
    BY <1>5, <2>2 DEF RespPop
  <2>4. respPc' \in {"retryPresent", "lookup"} /\ respBudget' = respBudget
    BY <1>5 DEF RespPop
  <2>5. RespTypes'
    BY <2>3, <2>4 DEF RespTypes, RespPcs
  <2>6. QueueTypes' /\ RespSemCounts'
    BY <1>1, <1>5, <2>3, <2>4 DEF RespPop, QueueTypes, RespSemCounts, reqQVars, cutQVars
  <2> QED
    BY <1>2, <2>1, <2>5, <2>6
<1>6. CASE RespDrop
  <2>1. PointTypes' /\ HistTypes' /\ (stack \subseteq Request)'
    BY <1>6 DEF RespDrop, PointTypes, HistTypes, pointVars, histVars
  <2>2. QueueTypes' /\ RespTypes' /\ RespSemCounts'
    BY <1>1, <1>3, <1>6 DEF RespDrop, RespGoto, QueueTypes, PointTypes, RespTypes, RespPcs,
       RespSemCounts, reqQVars, cutQVars, respQVars, pointVars
  <2> QED
    BY <1>2, <2>1, <2>2
<1>7. CASE RespKnown
  <2>1. PointTypes' /\ HistTypes' /\ (stack \subseteq Request)'
    BY <1>7 DEF RespKnown, PointTypes, HistTypes, pointVars, histVars
  <2>2. QueueTypes' /\ RespTypes' /\ RespSemCounts'
    BY <1>1, <1>3, <1>7 DEF RespKnown, RespGoto, QueueTypes, PointTypes, RespTypes, RespPcs,
       RespSemCounts, reqQVars, cutQVars, respQVars, pointVars
  <2> QED
    BY <1>2, <2>1, <2>2
<1>8. CASE RespRetryBudget
  <2>1. PointTypes' /\ HistTypes' /\ (stack \subseteq Request)'
    BY <1>8 DEF RespRetryBudget, PointTypes, HistTypes, pointVars, histVars
  <2>2. QueueTypes' /\ RespTypes' /\ RespSemCounts'
    BY <1>1, <1>3, <1>8, BoundAssumption DEF RespRetryBudget, RespGoto, QueueTypes, PointTypes, RespTypes, RespPcs,
       RespSemCounts, reqQVars, cutQVars, respQVars, pointVars
  <2> QED
    BY <1>2, <2>1, <2>2
<1>9. CASE RespRetryRead
  <2>1. PointTypes' /\ HistTypes' /\ (stack \subseteq Request)'
    BY <1>9 DEF RespRetryRead, PointTypes, HistTypes, pointVars, histVars
  <2>2. QueueTypes' /\ RespTypes' /\ RespSemCounts'
    BY <1>1, <1>3, <1>9, BoundAssumption DEF RespRetryRead, RespGoto, QueueTypes, PointTypes, RespTypes, RespPcs,
       RespSemCounts, reqQVars, cutQVars, respQVars, pointVars
  <2> QED
    BY <1>2, <2>1, <2>2
<1>10. CASE RespRetryStore
  <2>1. PointTypes' /\ HistTypes' /\ (stack \subseteq Request)'
    BY <1>3, <1>10, BoundAssumption DEF RespRetryStore, PointTypes, HistTypes, RespTypes, histVars
  <2>2. QueueTypes' /\ RespTypes' /\ RespSemCounts'
    BY <1>1, <1>3, <1>10, BoundAssumption DEF RespRetryStore, RespGoto, QueueTypes, PointTypes, RespTypes, RespPcs,
       RespSemCounts, reqQVars, cutQVars, respQVars, pointVars
  <2> QED
    BY <1>2, <2>1, <2>2
<1>11. CASE RespResent
  <2>1. PointTypes' /\ HistTypes' /\ (stack \subseteq Request)'
    BY <1>3, <1>11 DEF RespResent, PointTypes, HistTypes, Request, pointVars
  <2>2. QueueTypes' /\ RespTypes' /\ RespSemCounts'
    BY <1>1, <1>3, <1>11 DEF RespResent, RespGoto, QueueTypes, PointTypes, RespTypes, RespPcs,
       RespSemCounts, reqQVars, cutQVars, respQVars, pointVars
  <2> QED
    BY <1>2, <2>1, <2>2
<1>12. CASE RespResendRefused
  <2>1. PointTypes' /\ HistTypes' /\ (stack \subseteq Request)'
    BY <1>3, <1>12 DEF RespResendRefused, PointTypes, HistTypes, pointVars
  <2>2. QueueTypes' /\ RespTypes' /\ RespSemCounts'
    BY <1>1, <1>3, <1>12 DEF RespResendRefused, RespGoto, QueueTypes, PointTypes, RespTypes, RespPcs,
       RespSemCounts, reqQVars, cutQVars, respQVars, pointVars
  <2> QED
    BY <1>2, <2>1, <2>2
<1>13. CASE RespRemove
  <2>1. PointTypes' /\ HistTypes' /\ (stack \subseteq Request)'
    BY <1>3, <1>13 DEF RespRemove, PointTypes, HistTypes, Poll
  <2>2. QueueTypes' /\ RespTypes' /\ RespSemCounts'
    BY <1>1, <1>3, <1>13 DEF RespRemove, RespGoto, QueueTypes, PointTypes, RespTypes, RespPcs,
       RespSemCounts, reqQVars, cutQVars, respQVars, pointVars
  <2> QED
    BY <1>2, <2>1, <2>2
<1>14. CASE RespClearAwait
  <2>1. PointTypes' /\ HistTypes' /\ (stack \subseteq Request)'
    BY <1>3, <1>14 DEF RespClearAwait, PointTypes, HistTypes, RespTypes, histVars
  <2>2. QueueTypes' /\ RespTypes' /\ RespSemCounts'
    BY <1>1, <1>3, <1>14 DEF RespClearAwait, RespGoto, QueueTypes, PointTypes, RespTypes, RespPcs,
       RespSemCounts, reqQVars, cutQVars, respQVars, pointVars
  <2> QED
    BY <1>2, <2>1, <2>2
<1>15. CASE RespClearTx
  <2>1. PointTypes' /\ HistTypes' /\ (stack \subseteq Request)'
    BY <1>3, <1>15 DEF RespClearTx, PointTypes, HistTypes, RespTypes, histVars
  <2>2. QueueTypes' /\ RespTypes' /\ RespSemCounts'
    BY <1>1, <1>3, <1>15 DEF RespClearTx, RespGoto, QueueTypes, PointTypes, RespTypes, RespPcs,
       RespSemCounts, reqQVars, cutQVars, respQVars, pointVars
  <2> QED
    BY <1>2, <2>1, <2>2
<1>16. CASE RespPublish
  <2>1. PointTypes' /\ HistTypes' /\ (stack \subseteq Request)'
    BY <1>3, <1>16 DEF RespPublish, Post, Report, PointTypes, HistTypes, Poll
  <2>2. QueueTypes' /\ RespTypes' /\ RespSemCounts'
    BY <1>1, <1>3, <1>16 DEF RespPublish, RespGoto, QueueTypes, PointTypes, RespTypes, RespPcs,
       RespSemCounts, reqQVars, cutQVars, respQVars, pointVars
  <2> QED
    BY <1>2, <2>1, <2>2
<1>17. CASE RespMark
  <2>1. PointTypes' /\ HistTypes' /\ (stack \subseteq Request)'
    BY <1>3, <1>17 DEF RespMark, PointTypes, HistTypes, RespTypes, histVars
  <2>2. QueueTypes' /\ RespTypes' /\ RespSemCounts'
    BY <1>1, <1>3, <1>17 DEF RespMark, RespGoto, QueueTypes, PointTypes, RespTypes, RespPcs,
       RespSemCounts, reqQVars, cutQVars, respQVars, pointVars
  <2> QED
    BY <1>2, <2>1, <2>2
<1>18. CASE RespUnprepared
  <2>1. PointTypes' /\ HistTypes' /\ (stack \subseteq Request)'
    BY <1>3, <1>18 DEF RespUnprepared, PointTypes, HistTypes, RespTypes, pointVars,
       histVars
  <2>2. QueueTypes' /\ RespTypes' /\ RespSemCounts'
    BY <1>1, <1>3, <1>18 DEF RespUnprepared, RespGoto, QueueTypes, PointTypes, RespTypes, RespPcs,
       RespSemCounts, reqQVars, cutQVars, respQVars, pointVars
  <2> QED
    BY <1>2, <2>1, <2>2
<1> QED
  BY <1>4, <1>5, <1>6, <1>7, <1>8, <1>9, <1>10, <1>11, <1>12, <1>13, <1>14, <1>15, <1>16, <1>17, <1>18 DEF RespThread

\* The invariant reads nothing but the variables.
LEMMA StutterStep ==
  ASSUME IInv, UNCHANGED vars
  PROVE  IInv'
<1> USE DEF vars
<1>1. TimerTypes' /\ QueueTypes' /\ PointTypes' /\ HistTypes' /\ (stack \subseteq Request)'
  BY DEF IInv, TypeOK, TimerTypes, QueueTypes, PointTypes, HistTypes, timerVars, reqQVars,
     cutQVars, respQVars, pointVars, histVars
<1>2. ReqTypes' /\ CutTypes' /\ RespTypes'
  BY DEF IInv, TypeOK, ReqTypes, CutTypes, RespTypes, pointVars, reqVars, cutVars, respVars
<1>3. SemaphoreCountsQueue'
  BY DEF IInv, SemaphoreCountsQueue, ReqSemCounts, CutSemCounts, RespSemCounts, reqQVars,
     cutQVars, respQVars, reqVars, cutVars, respVars
<1> QED
  BY <1>1, <1>2, <1>3 DEF IInv, TypeOK

\* Every step keeps the inductive invariant.
LEMMA NextIInv == IInv /\ [Next]_vars => IInv'
  BY TimerStep, ReqStep, CutStep, StackStep, RespStep, StutterStep DEF Next, Rest

\* The types and the balance of queues and semaphores hold together: the pops
\* keep the types only because no consumer pops an empty queue.
THEOREM InductiveInvariant == Spec => []IInv
<1>1. Init => IInv
  BY InitIInv
<1>2. IInv /\ [Next]_vars => IInv'
  BY NextIInv
<1> QED
  BY <1>1, <1>2, PTL DEF Spec

\* Every variable keeps its type, whatever the points, lists and bounds.
THEOREM TypeCorrect == Spec => []TypeOK
  BY InductiveInvariant, PTL DEF IInv

\* A consumer that passed its semaphore finds its queue non-empty: front() and
\* pop() of getFreqRefForPollCycle are never called on an empty queue.
THEOREM SemaphoresCorrect == Spec => []SemaphoreCountsQueue
  BY InductiveInvariant, PTL DEF IInv

-----------------------------------------------------------------------------
(* The await flag and the TxID map.  AwaitBacked is inductive with the      *)
(* order in which the request thread gives up a refused request.            *)

AwaitInv == AwaitBacked /\ RefusedNotAwaited

\* A step that changes neither the flags nor the map nor the places where
\* HasEntry looks keeps the invariant.
LEMMA AwaitFrame ==
  ASSUME AwaitInv, UNCHANGED <<await, txMap, reqPc, reqTodo, respPc, resp>>
  PROVE  AwaitInv'
  BY DEF AwaitInv, AwaitBacked, RefusedNotAwaited, HasEntry, reqPoint

\* initiateRequest sets the flag one step before it inserts the entry, and
\* resets it before it removes the entry of a refused request.
LEMMA AwaitReqStep ==
  ASSUME IInv, AwaitInv, ReqThread
  PROVE  AwaitInv'
<1> USE DEF AwaitInv, AwaitBacked, RefusedNotAwaited, HasEntry, reqPoint
<1>1. UNCHANGED respVars
  BY ReqFrame
<1>2. PointTypes /\ ReqTypes
  BY DEF IInv, TypeOK
<1>3. CASE ReqWait
  BY <1>1, <1>2, <1>3 DEF ReqWait, Goto, NextPoint, PointTypes, ReqTypes, respVars, pointVars
<1>4. CASE ReqPop
  BY <1>1, <1>2, <1>4 DEF ReqPop, Goto, NextPoint, PointTypes, ReqTypes, respVars, pointVars
<1>5. CASE ReqListDone
  BY <1>1, <1>2, <1>5 DEF ReqListDone, Goto, NextPoint, PointTypes, ReqTypes, respVars, pointVars
<1>6. CASE ReqAwaited
  BY <1>1, <1>2, <1>6 DEF ReqAwaited, Goto, NextPoint, PointTypes, ReqTypes, respVars, pointVars
<1>7. CASE ReqDummyPost
  BY <1>1, <1>2, <1>7 DEF ReqDummyPost, Goto, NextPoint, PointTypes, ReqTypes, respVars, pointVars
<1>8. CASE ReqDummyMark
  BY <1>1, <1>2, <1>8 DEF ReqDummyMark, Goto, NextPoint, PointTypes, ReqTypes, respVars, pointVars
<1>9. CASE ReqDummyCheck
  BY <1>1, <1>2, <1>9 DEF ReqDummyCheck, Goto, NextPoint, PointTypes, ReqTypes, respVars, pointVars
<1>10. CASE ReqBegin
  BY <1>1, <1>2, <1>10 DEF ReqBegin, Goto, NextPoint, PointTypes, ReqTypes, respVars, pointVars
<1>11. CASE ReqClearPosted
  BY <1>1, <1>2, <1>11 DEF ReqClearPosted, Goto, NextPoint, PointTypes, ReqTypes, respVars, pointVars
<1>12. CASE ReqSetAwait
  BY <1>1, <1>2, <1>12 DEF ReqSetAwait, Goto, NextPoint, PointTypes, ReqTypes, respVars, pointVars
<1>13. CASE ReqInsert
  BY <1>1, <1>2, <1>13 DEF ReqInsert, Goto, NextPoint, PointTypes, ReqTypes, respVars, pointVars
<1>14. CASE ReqSent
  BY <1>1, <1>2, <1>14 DEF ReqSent, Goto, NextPoint, PointTypes, ReqTypes, respVars, pointVars
<1>15. CASE ReqRefused
  BY <1>1, <1>2, <1>15 DEF ReqRefused, Goto, NextPoint, PointTypes, ReqTypes, respVars, pointVars
<1>16. CASE ReqFailAwait
  BY <1>1, <1>2, <1>16 DEF ReqFailAwait, Goto, NextPoint, PointTypes, ReqTypes, respVars, pointVars
<1>17. CASE ReqFailPost
  BY <1>1, <1>2, <1>17 DEF ReqFailPost, Goto, NextPoint, PointTypes, ReqTypes, respVars, pointVars
<1>18. CASE ReqFailMark
  BY <1>1, <1>2, <1>18 DEF ReqFailMark, Goto, NextPoint, PointTypes, ReqTypes, respVars, pointVars
<1>19. CASE ReqFailRemove
  BY <1>1, <1>2, <1>19 DEF ReqFailRemove, Goto, NextPoint, PointTypes, ReqTypes, respVars, pointVars
<1>20. CASE ReqFailTx
  BY <1>1, <1>2, <1>20 DEF ReqFailTx, Goto, NextPoint, PointTypes, ReqTypes, respVars, pointVars
<1> QED
  BY <1>3, <1>4, <1>5, <1>6, <1>7, <1>8, <1>9, <1>10, <1>11, <1>12, <1>13, <1>14, <1>15, <1>16, <1>17, <1>18, <1>19, <1>20 DEF ReqThread

\* postResponseJSON resets the flag right after it removes the entry.
LEMMA AwaitRespStep ==
  ASSUME IInv, AwaitInv, RespThread
  PROVE  AwaitInv'
<1> USE DEF AwaitInv, AwaitBacked, RefusedNotAwaited, HasEntry, reqPoint
<1>1. UNCHANGED reqVars
  BY RespFrame
<1>2. PointTypes /\ RespTypes
  BY DEF IInv, TypeOK
<1>3. CASE RespWait
  BY <1>1, <1>2, <1>3 DEF RespWait, RespGoto, PointTypes, RespTypes, reqVars, pointVars
<1>4. CASE RespPop
  BY <1>1, <1>2, <1>4 DEF RespPop, RespGoto, PointTypes, RespTypes, reqVars, pointVars
<1>5. CASE RespDrop
  BY <1>1, <1>2, <1>5 DEF RespDrop, RespGoto, PointTypes, RespTypes, reqVars, pointVars
<1>6. CASE RespKnown
  BY <1>1, <1>2, <1>6 DEF RespKnown, RespGoto, PointTypes, RespTypes, reqVars, pointVars
<1>7. CASE RespRetryBudget
  BY <1>1, <1>2, <1>7 DEF RespRetryBudget, RespGoto, PointTypes, RespTypes, reqVars, pointVars
<1>8. CASE RespRetryRead
  BY <1>1, <1>2, <1>8 DEF RespRetryRead, RespGoto, PointTypes, RespTypes, reqVars, pointVars
<1>9. CASE RespRetryStore
  BY <1>1, <1>2, <1>9 DEF RespRetryStore, RespGoto, PointTypes, RespTypes, reqVars, pointVars
<1>10. CASE RespResent
  BY <1>1, <1>2, <1>10 DEF RespResent, RespGoto, PointTypes, RespTypes, reqVars, pointVars
<1>11. CASE RespResendRefused
  BY <1>1, <1>2, <1>11 DEF RespResendRefused, RespGoto, PointTypes, RespTypes, reqVars, pointVars
<1>12. CASE RespRemove
  BY <1>1, <1>2, <1>12 DEF RespRemove, RespGoto, PointTypes, RespTypes, reqVars, pointVars
<1>13. CASE RespClearAwait
  BY <1>1, <1>2, <1>13 DEF RespClearAwait, RespGoto, PointTypes, RespTypes, reqVars, pointVars
<1>14. CASE RespClearTx
  BY <1>1, <1>2, <1>14 DEF RespClearTx, RespGoto, PointTypes, RespTypes, reqVars, pointVars
<1>15. CASE RespPublish
  BY <1>1, <1>2, <1>15 DEF RespPublish, RespGoto, PointTypes, RespTypes, reqVars, pointVars
<1>16. CASE RespMark
  BY <1>1, <1>2, <1>16 DEF RespMark, RespGoto, PointTypes, RespTypes, reqVars, pointVars
<1>17. CASE RespUnprepared
  BY <1>1, <1>2, <1>17 DEF RespUnprepared, RespGoto, PointTypes, RespTypes, reqVars, pointVars
<1> QED
  BY <1>3, <1>4, <1>5, <1>6, <1>7, <1>8, <1>9, <1>10, <1>11, <1>12, <1>13, <1>14, <1>15, <1>16, <1>17 DEF RespThread

\* A point that awaits a response always has an entry in the TxID map that a
\* response or a refusal will take, but for the two moments HasEntry names.
THEOREM AwaitCorrect == Spec => []AwaitBacked
<1>1. Init => AwaitInv
  BY DEF Init, AwaitInv, AwaitBacked, RefusedNotAwaited
<1>2. IInv /\ AwaitInv /\ [Next]_vars => AwaitInv'
  <2> SUFFICES ASSUME IInv, AwaitInv, [Next]_vars PROVE AwaitInv'
    OBVIOUS
  <2>1. CASE Timer
    BY <2>1, TimerFrame, AwaitFrame DEF pointVars, reqVars, respVars
  <2>2. CASE CutThread
    <3>1. UNCHANGED <<await, txMap>>
      BY <2>2 DEF CutThread, CutWait, CutPop, CutListDone, CutSkip, CutLate, CutPost, CutMark,
         pointVars
    <3> QED
      BY <2>2, <3>1, CutFrame, AwaitFrame DEF reqVars, respVars
  <2>3. CASE StackAnswer
    BY <2>3, AwaitFrame DEF StackAnswer, pointVars, reqVars, respVars
  <2>4. CASE UNCHANGED vars
    BY <2>4, AwaitFrame DEF vars, pointVars, reqVars, respVars
  <2> QED
    BY <2>1, <2>2, <2>3, <2>4, AwaitReqStep, AwaitRespStep DEF Next, Rest
<1> QED
  BY <1>1, <1>2, InductiveInvariant, PTL DEF Spec, AwaitInv

-----------------------------------------------------------------------------
(* Every entry of the TxID map is backed by a response that is still to    *)
(* come, by the request thread, or by a resubmission that was refused.     *)

\* A step that leaves alone the places where Backed looks, and adds no entry.
LEMMA BackedFrame ==
  ASSUME TxIdBacked, txMap' \subseteq txMap,
         UNCHANGED <<stack, respQ, respPc, resp, reqPc, reqTodo, lost>>
  PROVE  TxIdBacked'
  BY DEF TxIdBacked, Backed, InFlight, InStack, InQueue, RespHolds, Sending, reqPoint

\* sendRequest inserts an entry and hands it to the stack, or removes it.
LEMMA BackedReqStep ==
  ASSUME IInv, TxIdBacked, ReqThread
  PROVE  TxIdBacked'
<1> USE DEF TxIdBacked, Backed, InFlight, reqPoint
<1>1. UNCHANGED <<respQVars, respVars>>
  BY ReqFrame
<1>2. \A p : InQueue(p)' = InQueue(p) /\ RespHolds(p)' = RespHolds(p)
  BY <1>1 DEF InQueue, RespHolds, respQVars, respVars
<1>3. (stack' = stack) => \A p : InStack(p)' = InStack(p)
  BY DEF InStack
<1>4. CASE ReqWait
  BY <1>2, <1>3, <1>4 DEF ReqWait, Sending, Goto, NextPoint, pointVars, histVars
<1>5. CASE ReqPop
  BY <1>2, <1>3, <1>5 DEF ReqPop, Sending, Goto, NextPoint, pointVars, histVars
<1>6. CASE ReqListDone
  BY <1>2, <1>3, <1>6 DEF ReqListDone, Sending, Goto, NextPoint, pointVars, histVars
<1>7. CASE ReqAwaited
  BY <1>2, <1>3, <1>7 DEF ReqAwaited, Sending, Goto, NextPoint, pointVars, histVars
<1>8. CASE ReqDummyPost
  BY <1>2, <1>3, <1>8 DEF ReqDummyPost, Sending, Goto, NextPoint, pointVars, histVars
<1>9. CASE ReqDummyMark
  BY <1>2, <1>3, <1>9 DEF ReqDummyMark, Sending, Goto, NextPoint, pointVars, histVars
<1>10. CASE ReqDummyCheck
  BY <1>2, <1>3, <1>10 DEF ReqDummyCheck, Sending, Goto, NextPoint, pointVars, histVars
<1>11. CASE ReqBegin
  BY <1>2, <1>3, <1>11 DEF ReqBegin, Sending, Goto, NextPoint, pointVars, histVars
<1>12. CASE ReqClearPosted
  BY <1>2, <1>3, <1>12 DEF ReqClearPosted, Sending, Goto, NextPoint, pointVars, histVars
<1>13. CASE ReqSetAwait
  BY <1>2, <1>3, <1>13 DEF ReqSetAwait, Sending, Goto, NextPoint, pointVars, histVars
<1>14. CASE ReqInsert
  BY <1>2, <1>3, <1>14 DEF ReqInsert, Sending, Goto, NextPoint, pointVars, histVars
<1>15. CASE ReqSent
  <2>1. reqPoint \in Points /\ [pt |-> reqPoint, poll |-> reqPoll] \in stack'
    BY <1>15, ReqPointType DEF ReqSent, IInv, TypeOK, ReqTypes
  <2>2. \A p : InStack(p) => InStack(p)'
    BY <1>15 DEF ReqSent, InStack
  <2>3. ASSUME NEW p, p = reqPoint PROVE InStack(p)'
    BY <2>1, <2>3 DEF InStack
  <2> QED
    BY <1>2, <1>15, <2>2, <2>3 DEF ReqSent, Sending, NextPoint, pointVars, histVars
<1>16. CASE ReqRefused
  BY <1>2, <1>3, <1>16 DEF ReqRefused, Sending, Goto, NextPoint, pointVars, histVars
<1>17. CASE ReqFailAwait
  BY <1>2, <1>3, <1>17 DEF ReqFailAwait, Sending, Goto, NextPoint, pointVars, histVars
<1>18. CASE ReqFailPost
  BY <1>2, <1>3, <1>18 DEF ReqFailPost, Sending, Goto, NextPoint, pointVars, histVars
<1>19. CASE ReqFailMark
  BY <1>2, <1>3, <1>19 DEF ReqFailMark, Sending, Goto, NextPoint, pointVars, histVars
<1>20. CASE ReqFailRemove
  BY <1>2, <1>3, <1>20 DEF ReqFailRemove, Sending, Goto, NextPoint, pointVars, histVars
<1>21. CASE ReqFailTx
  BY <1>2, <1>3, <1>21 DEF ReqFailTx, Sending, Goto, NextPoint, pointVars, histVars
<1> QED
  BY <1>4, <1>5, <1>6, <1>7, <1>8, <1>9, <1>10, <1>11, <1>12, <1>13, <1>14, <1>15, <1>16, <1>17, <1>18, <1>19, <1>20, <1>21 DEF ReqThread

\* The answer to a request goes from the stack into the queue.
LEMMA BackedStackStep ==
  ASSUME IInv, TxIdBacked, StackAnswer
  PROVE  TxIdBacked'
<1>1. PICK r \in stack, k \in Kind :
        /\ stack' = stack \ {r}
        /\ respQ' = Append(respQ, [pt |-> r.pt, poll |-> r.poll, kind |-> k])
        /\ UNCHANGED <<pointVars, reqVars, respVars, histVars>>
  BY DEF StackAnswer
<1>2. respQ \in Seq(Response) /\ [pt |-> r.pt, poll |-> r.poll, kind |-> k] \in Response
  BY DEF IInv, TypeOK, QueueTypes, Request, Response
<1>3. /\ Len(respQ') = Len(respQ) + 1 /\ Len(respQ) \in Nat
      /\ \A j \in 1..Len(respQ) : respQ'[j] = respQ[j]
      /\ respQ'[Len(respQ) + 1].pt = r.pt
  BY <1>1, <1>2
<1>4. \A p : InQueue(p) => InQueue(p)'
  BY <1>3 DEF InQueue
<1>5. InQueue(r.pt)'
  BY <1>3 DEF InQueue
<1>6. \A p : InStack(p) => InStack(p)' \/ InQueue(p)'
  BY <1>1, <1>5 DEF InStack
<1> QED
  BY <1>1, <1>4, <1>6 DEF TxIdBacked, Backed, InFlight, RespHolds, Sending, reqPoint, pointVars,
     reqVars, respVars, histVars

\* The response thread removes the entry of the response it holds, sends the
\* request again, drops a response that has no entry, or is refused.
LEMMA BackedRespStep ==
  ASSUME IInv, TxIdBacked, RespThread
  PROVE  TxIdBacked'
<1> USE DEF TxIdBacked, Backed, InFlight
<1>1. UNCHANGED reqVars
  BY RespFrame
<1>2. \A p : Sending(p)' = Sending(p)
  BY <1>1 DEF Sending, reqPoint, reqVars
<1>3. (stack' = stack) => \A p : InStack(p)' = InStack(p)
  BY DEF InStack
<1>4. (respQ' = respQ) => \A p : InQueue(p)' = InQueue(p)
  BY DEF InQueue
<1>5. CASE RespWait
  BY <1>2, <1>3, <1>4, <1>5 DEF RespWait, RespGoto, RespHolds, respQVars, pointVars, histVars
<1>6. CASE RespPop
  <2>1. respQ \in Seq(Response) /\ respQ # <<>>
    BY <1>6 DEF RespPop, IInv, TypeOK, SemaphoreCountsQueue, QueueTypes, RespSemCounts
  <2>2. /\ Len(respQ) \in Nat \ {0} /\ resp' = respQ[1] /\ Len(respQ') = Len(respQ) - 1
        /\ \A j \in 1..Len(respQ') : respQ'[j] = respQ[j + 1]
    BY <1>6, <2>1 DEF RespPop
  <2>3. ASSUME NEW p, p = respQ[1].pt PROVE RespHolds(p)'
    BY <1>6, <2>2, <2>3 DEF RespPop, RespHolds
  <2>4. ASSUME NEW p, InQueue(p) PROVE InQueue(p)' \/ RespHolds(p)'
    <3>1. PICK j \in 1..Len(respQ) : respQ[j].pt = p
      BY <2>4 DEF InQueue
    <3>2. CASE j = 1
      BY <2>3, <3>1, <3>2
    <3>3. CASE j # 1
      <4>1. j - 1 \in 1..Len(respQ') /\ respQ'[j - 1] = respQ[j]
        BY <2>2, <3>3
      <4> QED
        BY <3>1, <4>1 DEF InQueue
    <3> QED
      BY <3>2, <3>3
  <2>5. \A p : ~RespHolds(p)
    BY <1>6 DEF RespPop, RespHolds
  <2> QED
    BY <1>2, <1>3, <1>6, <2>4, <2>5 DEF RespPop, pointVars, histVars
<1>7. CASE RespDrop
  BY <1>2, <1>3, <1>4, <1>7 DEF RespDrop, RespGoto, RespHolds, respQVars, pointVars, histVars
<1>8. CASE RespKnown
  BY <1>2, <1>3, <1>4, <1>8 DEF RespKnown, RespGoto, RespHolds, respQVars, pointVars, histVars
<1>9. CASE RespRetryBudget
  BY <1>2, <1>3, <1>4, <1>9 DEF RespRetryBudget, RespGoto, RespHolds, respQVars, pointVars, histVars
<1>10. CASE RespRetryRead
  BY <1>2, <1>3, <1>4, <1>10 DEF RespRetryRead, RespGoto, RespHolds, respQVars, pointVars, histVars
<1>11. CASE RespRetryStore
  BY <1>2, <1>3, <1>4, <1>11 DEF RespRetryStore, RespGoto, RespHolds, respQVars, pointVars, histVars
<1>12. CASE RespResent
  <2>1. \A p : InStack(p) => InStack(p)'
    BY <1>12 DEF RespResent, InStack
  <2>2. ASSUME NEW p, p = resp.pt PROVE InStack(p)'
    <3>1. [pt |-> resp.pt, poll |-> resp.poll] \in stack'
      BY <1>12 DEF RespResent
    <3> QED
      BY <2>2, <3>1 DEF InStack
  <2> QED
    BY <1>2, <1>4, <1>12, <2>1, <2>2 DEF RespResent, RespHolds, respQVars, pointVars
<1>13. CASE RespResendRefused
  BY <1>2, <1>3, <1>4, <1>13 DEF RespResendRefused, RespGoto, RespHolds, respQVars, pointVars, histVars
<1>14. CASE RespRemove
  BY <1>2, <1>3, <1>4, <1>14 DEF RespRemove, RespGoto, RespHolds, respQVars, pointVars, histVars
<1>15. CASE RespClearAwait
  BY <1>2, <1>3, <1>4, <1>15 DEF RespClearAwait, RespGoto, RespHolds, respQVars, pointVars, histVars
<1>16. CASE RespClearTx
  BY <1>2, <1>3, <1>4, <1>16 DEF RespClearTx, RespGoto, RespHolds, respQVars, pointVars, histVars
<1>17. CASE RespPublish
  BY <1>2, <1>3, <1>4, <1>17 DEF RespPublish, RespGoto, RespHolds, respQVars, pointVars, histVars
<1>18. CASE RespMark
  BY <1>2, <1>3, <1>4, <1>18 DEF RespMark, RespGoto, RespHolds, respQVars, pointVars, histVars
<1>19. CASE RespUnprepared
  BY <1>2, <1>3, <1>4, <1>19 DEF RespUnprepared, RespGoto, RespHolds, respQVars, pointVars, histVars
<1> QED
  BY <1>5, <1>6, <1>7, <1>8, <1>9, <1>10, <1>11, <1>12, <1>13, <1>14, <1>15, <1>16, <1>17, <1>18, <1>19 DEF RespThread

\* No entry of the TxID map is left behind: each is still to be taken by a
\* response or by the request thread, or its resubmission was refused.
THEOREM TxIdCorrect == Spec => []TxIdBacked
<1>1. Init => TxIdBacked
  BY DEF Init, TxIdBacked
<1>2. IInv /\ TxIdBacked /\ [Next]_vars => TxIdBacked'
  <2> SUFFICES ASSUME IInv, TxIdBacked, [Next]_vars PROVE TxIdBacked'
    OBVIOUS
  <2>1. CASE Timer
    BY <2>1, TimerFrame, BackedFrame DEF respQVars, pointVars, reqVars, respVars, histVars
  <2>2. CASE CutThread
    <3>1. UNCHANGED <<txMap, lost>>
      BY <2>2 DEF CutThread, CutWait, CutPop, CutListDone, CutSkip, CutLate, CutPost, CutMark,
         pointVars, histVars
    <3> QED
      BY <2>2, <3>1, CutFrame, BackedFrame DEF respQVars, reqVars, respVars
  <2>3. CASE UNCHANGED vars
    BY <2>3, BackedFrame DEF vars, respQVars, pointVars, reqVars, respVars, histVars
  <2> QED
    BY <2>1, <2>2, <2>3, BackedReqStep, BackedStackStep, BackedRespStep DEF Next, Rest
<1> QED
  BY <1>1, <1>2, InductiveInvariant, PTL DEF Spec

-----------------------------------------------------------------------------
(* The responses of a point without an overlap.  A point whose requests     *)
(* never began while a response of it was half done has one response under *)
(* way at a time, of the poll that the point stands for.                    *)

\* The response thread is not through with a response of p.
Holds(p) == respPc \notin {"wait", "pop"} /\ resp.pt = p
\* The request thread is dealing with p, for a dummy response or a request.
Dummy    == {"dummyPost", "dummyMark", "dummyCheck"}
Answering(p) == reqPc \in Dummy /\ reqPoint = p
Asking(p)    == reqPc \notin {"wait", "pop", "point"} \cup Dummy /\ reqPoint = p

\* A response of p is with the stack, in the queue once, or in hand.
Once(p) ==
  /\ InStack(p) => ~InQueue(p) /\ ~Holds(p)
  /\ InQueue(p) => ~Holds(p)
  /\ \A k, l \in 1..Len(respQ) : (respQ[k].pt = p /\ respQ[l].pt = p) => k = l
\* It answers the poll that the point's request data belong to.
OwnPoll(p) ==
  /\ \A r \in stack : r.pt = p => r.poll = pollOf[p]
  /\ \A k \in 1..Len(respQ) : respQ[k].pt = p => respQ[k].poll = pollOf[p]
  /\ Holds(p) => resp.poll = pollOf[p]
\* Until it is taken, the point awaits it and its TxID is known.
Awaited(p) == InFlight(p) => await[p] /\ reqTx[p] /\ p \in txMap
\* No request is made while there is one.
Alone(p) == Asking(p) => ~InStack(p) /\ ~InQueue(p) /\ ~Holds(p) /\ pollOf[p] = reqPoll
\* A dummy response leaves it awaited.
Seen(p) == Answering(p) /\ InFlight(p) => reqSeen
\* The request thread prepares the point before it sends.
Ready(p) ==
  /\ reqPc \in {"clearPosted", "setAwait", "insert", "call"} /\ reqPoint = p => reqTx[p]
  /\ reqPc \in {"insert", "call"} /\ reqPoint = p => await[p]
  /\ reqPc = "call" /\ reqPoint = p => p \in txMap
FlightOK(p) == Once(p) /\ OwnPoll(p) /\ Awaited(p) /\ Alone(p) /\ Seen(p) /\ Ready(p)

FlightInv == \A p \in Points : p \in overlap \/ FlightOK(p)

\* While the stack, the queue and the response thread rest, so does what is
\* under way for each point.
LEMMA FlightRests ==
  ASSUME NEW p, UNCHANGED <<stack, respQ, respPc, resp>>
  PROVE  /\ InStack(p)' = InStack(p) /\ InQueue(p)' = InQueue(p)
         /\ Holds(p)' = Holds(p) /\ RespHolds(p)' = RespHolds(p)
         /\ Once(p)' = Once(p)
  BY DEF InStack, InQueue, Holds, RespHolds, Once

\* It then answers the same poll, unless a new request begins.
LEMMA OwnPollRests ==
  ASSUME NEW p, UNCHANGED <<stack, respQ, respPc, resp>>, pollOf'[p] = pollOf[p]
  PROVE  OwnPoll(p)' = OwnPoll(p)
  BY DEF OwnPoll, Holds

\* A response in hand will take or drop the entry, or is half done.
LEMMA HoldsSplit ==
  ASSUME RespTypes, NEW p
  PROVE  Holds(p) <=> RespHolds(p) \/ HalfAnswered(p)
  BY DEF RespTypes, RespPcs, Holds, RespHolds, HalfAnswered

\* initiateRequest: a request begins only when none is awaited, and a response
\* that is under way stays awaited through the dummy response of a later poll.
LEMMA FlightReqStep ==
  ASSUME IInv, ReqThread, NEW p \in Points, p \notin overlap', FlightOK(p)
  PROVE  FlightOK(p)'
<1> USE DEF FlightOK, Awaited, Alone, Seen, Ready, InFlight, Asking, Answering, Dummy, reqPoint
<1>1. UNCHANGED <<respQVars, respVars>>
  BY ReqFrame
<1>2. PointTypes /\ ReqTypes /\ RespTypes
  BY DEF IInv, TypeOK
<1>3. stack' = stack =>
        /\ InStack(p)' = InStack(p) /\ InQueue(p)' = InQueue(p)
        /\ Holds(p)' = Holds(p) /\ RespHolds(p)' = RespHolds(p)
        /\ Once(p)' = Once(p)
  BY <1>1, FlightRests DEF respQVars, respVars
<1>4. stack' = stack /\ pollOf'[p] = pollOf[p] => OwnPoll(p)' = OwnPoll(p)
  BY <1>1, OwnPollRests DEF respQVars, respVars
<1>5. RespHolds(p) => Holds(p)
  BY <1>2, HoldsSplit
<1>6. CASE ReqWait
  BY <1>2, <1>3, <1>4, <1>5, <1>6 DEF ReqWait, Goto, NextPoint, pointVars, PointTypes
<1>7. CASE ReqPop
  <2>1. pollOf' = pollOf /\ reqPc' = "point" /\ await' = await /\ reqTx' = reqTx /\ txMap' = txMap
        /\ stack' = stack
    BY <1>7 DEF ReqPop, pointVars
  <2> QED
    BY <1>2, <1>3, <1>4, <2>1
<1>8. CASE ReqListDone
  BY <1>2, <1>3, <1>4, <1>5, <1>8 DEF ReqListDone, Goto, NextPoint, pointVars, PointTypes
<1>9. CASE ReqAwaited
  BY <1>2, <1>3, <1>4, <1>5, <1>9 DEF ReqAwaited, Goto, NextPoint, pointVars, PointTypes
<1>10. CASE ReqDummyPost
  BY <1>2, <1>3, <1>4, <1>5, <1>10 DEF ReqDummyPost, Goto, NextPoint, pointVars, PointTypes
<1>11. CASE ReqDummyMark
  BY <1>2, <1>3, <1>4, <1>5, <1>11 DEF ReqDummyMark, Goto, NextPoint, pointVars, PointTypes
<1>12. CASE ReqDummyCheck
  BY <1>2, <1>3, <1>4, <1>5, <1>12 DEF ReqDummyCheck, Goto, NextPoint, pointVars, PointTypes
<1>13. CASE ReqBegin
  <2>1. CASE reqPoint = p
    <3>1. ~Holds(p) /\ ~InStack(p) /\ ~InQueue(p)
      <4>1. ~InFlight(p)
        BY <1>13, <2>1 DEF ReqBegin
      <4>2. ~HalfAnswered(p)
        BY <1>13, <2>1 DEF ReqBegin
      <4> QED
        BY <4>1, <4>2, <1>2, HoldsSplit
    <3>2. OwnPoll(p)'
      <4>1. ~Holds(p)' /\ ~InStack(p)' /\ ~InQueue(p)'
        BY <1>13, <3>1, <1>3 DEF ReqBegin
      <4> QED
        BY <4>1 DEF OwnPoll, InStack, InQueue
    <3>3. pollOf'[p] = reqPoll' /\ reqTx'[p] /\ reqPc' = "clearPosted" /\ stack' = stack
      BY <1>13, <2>1, <1>2 DEF ReqBegin, Goto, PointTypes
    <3> QED
      BY <1>3, <1>5, <3>1, <3>2, <3>3
  <2>2. CASE reqPoint # p
    <3>1. /\ pollOf'[p] = pollOf[p] /\ reqTx'[p] = reqTx[p] /\ await' = await /\ txMap' = txMap
          /\ reqPc' = "clearPosted" /\ reqTodo' = reqTodo /\ stack' = stack
      BY <1>13, <2>2, <1>2 DEF ReqBegin, Goto, PointTypes
    <3> QED
      BY <1>3, <1>4, <2>2, <3>1
  <2> QED
    BY <2>1, <2>2
<1>14. CASE ReqClearPosted
  BY <1>2, <1>3, <1>4, <1>5, <1>14 DEF ReqClearPosted, Goto, NextPoint, pointVars, PointTypes
<1>15. CASE ReqSetAwait
  BY <1>2, <1>3, <1>4, <1>5, <1>15 DEF ReqSetAwait, Goto, NextPoint, pointVars, PointTypes
<1>16. CASE ReqInsert
  BY <1>2, <1>3, <1>4, <1>5, <1>16 DEF ReqInsert, Goto, NextPoint, pointVars, PointTypes
<1>17. CASE ReqSent
  <2> DEFINE m == [pt |-> reqPoint, poll |-> reqPoll]
  <2>1. stack' = stack \cup {m} /\ UNCHANGED <<pointVars, respQ, respPc, resp>> /\ reqPc' = "point"
    BY <1>17, <1>1 DEF ReqSent, NextPoint, respQVars, respVars
  <2>2. /\ InQueue(p)' = InQueue(p) /\ Holds(p)' = Holds(p) /\ RespHolds(p)' = RespHolds(p)
    BY <2>1 DEF InQueue, Holds, RespHolds
  <2>3. CASE reqPoint = p
    <3>1. ~Holds(p) /\ ~InStack(p) /\ ~InQueue(p) /\ pollOf[p] = reqPoll
      BY <1>17, <2>3 DEF ReqSent, Dummy
    <3>2. await[p] /\ reqTx[p] /\ p \in txMap
      BY <1>17, <2>3 DEF ReqSent
    <3>3. \A r \in stack' : r.pt = p => r.poll = pollOf[p]
      BY <2>1, <2>3, <3>1 DEF InStack
    <3>4. OwnPoll(p)'
      BY <2>1, <2>2, <3>1, <3>3 DEF OwnPoll, InQueue, pointVars
    <3>5. Once(p)'
      BY <2>1, <2>2, <3>1 DEF Once
    <3> QED
      BY <2>1, <2>2, <3>2, <3>4, <3>5 DEF pointVars
  <2>4. CASE reqPoint # p
    <3>1. InStack(p)' = InStack(p)
      BY <2>1, <2>4 DEF InStack
    <3>2. \A r \in stack' : r.pt = p => r \in stack
      BY <2>1, <2>4
    <3>3. OwnPoll(p)' /\ Once(p)'
      BY <2>1, <2>2, <3>1, <3>2 DEF OwnPoll, Once, pointVars
    <3> QED
      BY <2>1, <2>2, <3>1, <3>3 DEF pointVars
  <2> QED
    BY <2>3, <2>4
<1>18. CASE ReqRefused
  BY <1>2, <1>3, <1>4, <1>5, <1>18 DEF ReqRefused, Goto, NextPoint, pointVars, PointTypes
<1>19. CASE ReqFailAwait
  BY <1>2, <1>3, <1>4, <1>5, <1>19 DEF ReqFailAwait, Goto, NextPoint, pointVars, PointTypes
<1>20. CASE ReqFailPost
  BY <1>2, <1>3, <1>4, <1>5, <1>20 DEF ReqFailPost, Goto, NextPoint, pointVars, PointTypes
<1>21. CASE ReqFailMark
  BY <1>2, <1>3, <1>4, <1>5, <1>21 DEF ReqFailMark, Goto, NextPoint, pointVars, PointTypes
<1>22. CASE ReqFailRemove
  BY <1>2, <1>3, <1>4, <1>5, <1>22 DEF ReqFailRemove, Goto, NextPoint, pointVars, PointTypes
<1>23. CASE ReqFailTx
  BY <1>2, <1>3, <1>4, <1>5, <1>23 DEF ReqFailTx, Goto, NextPoint, pointVars, PointTypes
<1> QED
  BY <1>6, <1>7, <1>8, <1>9, <1>10, <1>11, <1>12, <1>13, <1>14, <1>15, <1>16, <1>17, <1>18, <1>19, <1>20, <1>21, <1>22, <1>23 DEF ReqThread

\* The answer of a request goes from the stack to the end of the queue.
LEMMA FlightStackStep ==
  ASSUME IInv, StackAnswer, NEW p \in Points, FlightOK(p)
  PROVE  FlightOK(p)'
<1>1. PICK r \in stack, k \in Kind :
        /\ stack' = stack \ {r}
        /\ respQ' = Append(respQ, [pt |-> r.pt, poll |-> r.poll, kind |-> k])
        /\ UNCHANGED <<pointVars, reqVars, respVars, histVars>>
  BY DEF StackAnswer
<1>2. respQ \in Seq(Response) /\ [pt |-> r.pt, poll |-> r.poll, kind |-> k] \in Response
  BY DEF IInv, TypeOK, QueueTypes, Request, Response
<1>3. /\ Len(respQ') = Len(respQ) + 1 /\ Len(respQ) \in Nat
      /\ \A j \in 1..Len(respQ) : respQ'[j] = respQ[j]
      /\ respQ'[Len(respQ) + 1].pt = r.pt /\ respQ'[Len(respQ) + 1].poll = r.poll
  BY <1>1, <1>2
<1>4. Holds(p)' = Holds(p) /\ RespHolds(p)' = RespHolds(p)
  BY <1>1 DEF Holds, RespHolds, respVars
<1>5. CASE r.pt = p
  <2>1. InStack(p) /\ ~InQueue(p) /\ ~Holds(p) /\ r.poll = pollOf[p]
    BY <1>5 DEF InStack, FlightOK, Once, OwnPoll
  <2>2. ~InStack(p)'
    <3> SUFFICES ASSUME NEW o \in stack, o.pt = p PROVE o = r
      BY <1>1 DEF InStack
    <3>1. o.poll = pollOf[p] /\ o \in Request /\ r \in Request
      BY DEF FlightOK, OwnPoll, IInv, TypeOK
    <3> QED
      BY <1>5, <2>1, <3>1 DEF Request
  <2>3. \A j \in 1..Len(respQ) : respQ[j].pt # p
    BY <2>1 DEF InQueue
  <2>4. Once(p)'
    BY <1>3, <1>4, <2>1, <2>2, <2>3 DEF Once
  <2>5. OwnPoll(p)'
    BY <1>1, <1>3, <1>4, <2>1, <2>2, <2>3 DEF OwnPoll, InStack, pointVars
  <2>6. InFlight(p)
    BY <2>1 DEF InFlight
  <2>7. ~Asking(p)
    BY <2>1 DEF FlightOK, Alone
  <2> QED
    BY <1>1, <2>4, <2>5, <2>6, <2>7 DEF FlightOK, Awaited, Alone, Seen, Ready, Asking,
       Answering, Dummy, reqPoint, pointVars, reqVars
<1>6. CASE r.pt # p
  <2>1. InStack(p)' = InStack(p)
    BY <1>1, <1>6 DEF InStack
  <2>2. InQueue(p)' = InQueue(p)
    BY <1>3, <1>6 DEF InQueue
  <2>3. Once(p)'
    BY <1>3, <1>4, <1>6, <2>1, <2>2 DEF FlightOK, Once
  <2>4. OwnPoll(p)'
    BY <1>1, <1>3, <1>4, <1>6 DEF FlightOK, OwnPoll, pointVars, respVars
  <2> QED
    BY <1>1, <1>4, <2>1, <2>2, <2>3, <2>4 DEF FlightOK, Awaited, Alone, Seen, Ready, InFlight,
       Asking, Answering, Dummy, reqPoint, pointVars, reqVars
<1> QED
  BY <1>5, <1>6

\* postResponseJSON takes the entry, the flag and the TxID of the response it
\* holds, and nothing else of the point is under way then.
LEMMA FlightRespStep ==
  ASSUME IInv, RespThread, NEW p \in Points, FlightOK(p)
  PROVE  FlightOK(p)'
<1> USE DEF FlightOK, Awaited, Alone, Seen, Ready, InFlight, Asking, Answering, Dummy, reqPoint
<1>1. UNCHANGED reqVars
  BY RespFrame
<1>2. PointTypes /\ RespTypes
  BY DEF IInv, TypeOK
<1>3. stack' = stack => InStack(p)' = InStack(p)
  BY DEF InStack
<1>4. respQ' = respQ => InQueue(p)' = InQueue(p)
  BY DEF InQueue
<1>5. /\ stack' = stack /\ respQ' = respQ /\ (Holds(p)' => Holds(p)) => Once(p)'
      /\ stack' = stack /\ respQ' = respQ /\ (Holds(p)' => Holds(p)) /\ resp' = resp
           /\ pollOf' = pollOf => OwnPoll(p)'
  <2>1. stack' = stack /\ respQ' = respQ /\ (Holds(p)' => Holds(p)) => Once(p)'
    BY <1>3, <1>4 DEF Once
  <2>2. stack' = stack /\ respQ' = respQ /\ (Holds(p)' => Holds(p)) /\ resp' = resp
           /\ pollOf' = pollOf => OwnPoll(p)'
    BY DEF OwnPoll
  <2> QED
    BY <2>1, <2>2
<1>6. RespHolds(p) => Holds(p)
  BY DEF RespHolds, Holds
<1>7. CASE RespWait
  BY <1>1, <1>2, <1>3, <1>4, <1>5, <1>7 DEF RespWait, RespGoto, Holds, RespHolds, PointTypes, pointVars,
     reqVars, respQVars
<1>8. CASE RespPop
  <2>1. respQ \in Seq(Response) /\ respQ # <<>>
    BY <1>8 DEF RespPop, IInv, TypeOK, SemaphoreCountsQueue, QueueTypes, RespSemCounts
  <2>2. /\ Len(respQ) \in Nat \ {0} /\ resp' = respQ[1] /\ Len(respQ') = Len(respQ) - 1
        /\ \A j \in 1..Len(respQ') : respQ'[j] = respQ[j + 1]
    BY <1>8, <2>1 DEF RespPop
  <2>3. respPc' \in {"retryPresent", "lookup"} /\ stack' = stack /\ UNCHANGED pointVars
    BY <1>8 DEF RespPop
  <2>4. Holds(p)' = (respQ[1].pt = p) /\ RespHolds(p)' = (respQ[1].pt = p)
    BY <2>2, <2>3 DEF Holds, RespHolds
  <2>5. InStack(p)' = InStack(p) /\ ~Holds(p) /\ ~RespHolds(p)
    BY <1>8, <2>3 DEF RespPop, InStack, Holds, RespHolds
  <2>6. InQueue(p)' => InQueue(p)
    BY <2>2 DEF InQueue
  <2>7. respQ[1].pt = p => InQueue(p) /\ ~InQueue(p)'
    BY <2>2 DEF InQueue, Once
  <2>8. Once(p)'
    <3>1. ASSUME NEW k \in 1..Len(respQ'), NEW l \in 1..Len(respQ'), respQ'[k].pt = p,
                 respQ'[l].pt = p
          PROVE  k = l
      <4>1. k + 1 \in 1..Len(respQ) /\ l + 1 \in 1..Len(respQ)
        BY <2>2
      <4>2. respQ[k + 1].pt = p /\ respQ[l + 1].pt = p
        BY <2>2, <3>1
      <4> QED
        BY <4>1, <4>2 DEF Once
    <3> QED
      BY <2>4, <2>5, <2>6, <2>7, <3>1 DEF Once
  <2>9. OwnPoll(p)'
    <3>1. Holds(p)' => resp'.poll = pollOf[p]
      <4>1. 1 \in 1..Len(respQ)
        BY <2>2
      <4> QED
        BY <4>1, <2>2, <2>4 DEF OwnPoll
    <3>2. \A k \in 1..Len(respQ') : respQ'[k].pt = p => respQ'[k].poll = pollOf[p]
      BY <2>2 DEF OwnPoll
    <3> QED
      BY <2>3, <3>1, <3>2 DEF OwnPoll, pointVars
  <2> QED
    BY <1>1, <2>3, <2>4, <2>5, <2>6, <2>7, <2>8, <2>9 DEF pointVars, reqVars
<1>9. CASE RespDrop
  BY <1>1, <1>2, <1>3, <1>4, <1>5, <1>9 DEF RespDrop, RespGoto, Holds, RespHolds, PointTypes, pointVars,
     reqVars, respQVars
<1>10. CASE RespKnown
  BY <1>1, <1>2, <1>3, <1>4, <1>5, <1>10 DEF RespKnown, RespGoto, Holds, RespHolds, PointTypes, pointVars,
     reqVars, respQVars
<1>11. CASE RespRetryBudget
  BY <1>1, <1>2, <1>3, <1>4, <1>5, <1>11 DEF RespRetryBudget, RespGoto, Holds, RespHolds, PointTypes, pointVars,
     reqVars, respQVars
<1>12. CASE RespRetryRead
  BY <1>1, <1>2, <1>3, <1>4, <1>5, <1>12 DEF RespRetryRead, RespGoto, Holds, RespHolds, PointTypes, pointVars,
     reqVars, respQVars
<1>13. CASE RespRetryStore
  BY <1>1, <1>2, <1>3, <1>4, <1>5, <1>13 DEF RespRetryStore, RespGoto, Holds, RespHolds, PointTypes, pointVars,
     reqVars, respQVars
<1>14. CASE RespResent
  <2> DEFINE m == [pt |-> resp.pt, poll |-> resp.poll]
  <2>1. stack' = stack \cup {m} /\ UNCHANGED <<pointVars, respQVars>> /\ respPc' = "wait"
    BY <1>14 DEF RespResent, RespGoto
  <2>2. InQueue(p)' = InQueue(p) /\ ~Holds(p)' /\ ~RespHolds(p)'
    BY <2>1 DEF InQueue, Holds, RespHolds, respQVars
  <2>3. CASE resp.pt = p
    <3>1. Holds(p) /\ RespHolds(p) /\ ~InStack(p) /\ ~InQueue(p) /\ resp.poll = pollOf[p]
      BY <1>14, <2>3 DEF RespResent, Holds, RespHolds, Once, OwnPoll
    <3>2. \A r \in stack' : r.pt = p => r.poll = pollOf[p]
      BY <2>1, <3>1 DEF InStack
    <3>3. OwnPoll(p)' /\ Once(p)'
      BY <2>1, <2>2, <3>1, <3>2 DEF OwnPoll, Once, pointVars, respQVars
    <3> QED
      BY <1>1, <2>1, <2>2, <3>1, <3>3 DEF pointVars, reqVars
  <2>4. CASE resp.pt # p
    <3>1. InStack(p)' = InStack(p) /\ ~Holds(p) /\ ~RespHolds(p)
      BY <2>1, <2>4 DEF InStack, Holds, RespHolds
    <3>2. \A r \in stack' : r.pt = p => r \in stack
      BY <2>1, <2>4
    <3>3. OwnPoll(p)' /\ Once(p)'
      BY <2>1, <2>2, <3>1, <3>2 DEF OwnPoll, Once, pointVars, respQVars
    <3> QED
      BY <1>1, <2>1, <2>2, <3>1, <3>3 DEF pointVars, reqVars
  <2> QED
    BY <2>3, <2>4
<1>15. CASE RespResendRefused
  BY <1>1, <1>2, <1>3, <1>4, <1>5, <1>15 DEF RespResendRefused, RespGoto, Holds, RespHolds, PointTypes, pointVars,
     reqVars, respQVars
<1>16. CASE RespRemove
  <2>1. /\ txMap' = txMap \ {resp.pt} /\ UNCHANGED <<await, reqTx>>
        /\ UNCHANGED <<stack, respQ, resp, pollOf>> /\ ~RespHolds(p)' /\ Holds(p)' = Holds(p)
        /\ Holds(p) <=> resp.pt = p
    BY <1>16 DEF RespRemove, RespGoto, Holds, RespHolds, respQVars
  <2>2. Once(p)' /\ OwnPoll(p)' /\ InStack(p)' = InStack(p) /\ InQueue(p)' = InQueue(p)
    BY <1>3, <1>4, <1>5, <2>1
  <2>3. CASE resp.pt = p
    BY <1>1, <2>1, <2>2, <2>3 DEF Once, reqVars
  <2>4. CASE resp.pt # p
    BY <1>1, <1>2, <1>6, <2>1, <2>2, <2>4 DEF PointTypes, reqVars
  <2> QED
    BY <2>3, <2>4
<1>17. CASE RespClearAwait
  <2>1. /\ await' = [await EXCEPT ![resp.pt] = FALSE] /\ UNCHANGED <<txMap, reqTx>>
        /\ UNCHANGED <<stack, respQ, resp, pollOf>> /\ ~RespHolds(p)' /\ Holds(p)' = Holds(p)
        /\ Holds(p) <=> resp.pt = p
    BY <1>17 DEF RespClearAwait, RespGoto, Holds, RespHolds, respQVars
  <2>2. Once(p)' /\ OwnPoll(p)' /\ InStack(p)' = InStack(p) /\ InQueue(p)' = InQueue(p)
    BY <1>3, <1>4, <1>5, <2>1
  <2>3. CASE resp.pt = p
    BY <1>1, <2>1, <2>2, <2>3 DEF Once, reqVars
  <2>4. CASE resp.pt # p
    BY <1>1, <1>2, <1>6, <2>1, <2>2, <2>4 DEF PointTypes, reqVars
  <2> QED
    BY <2>3, <2>4
<1>18. CASE RespClearTx
  <2>1. /\ reqTx' = [reqTx EXCEPT ![resp.pt] = FALSE] /\ UNCHANGED <<txMap, await>>
        /\ UNCHANGED <<stack, respQ, resp, pollOf>> /\ ~RespHolds(p)' /\ Holds(p)' = Holds(p)
        /\ Holds(p) <=> resp.pt = p
    BY <1>18 DEF RespClearTx, RespGoto, Holds, RespHolds, respQVars
  <2>2. Once(p)' /\ OwnPoll(p)' /\ InStack(p)' = InStack(p) /\ InQueue(p)' = InQueue(p)
    BY <1>3, <1>4, <1>5, <2>1
  <2>3. CASE resp.pt = p
    BY <1>1, <2>1, <2>2, <2>3 DEF Once, reqVars
  <2>4. CASE resp.pt # p
    BY <1>1, <1>2, <1>6, <2>1, <2>2, <2>4 DEF PointTypes, reqVars
  <2> QED
    BY <2>3, <2>4
<1>19. CASE RespPublish
  BY <1>1, <1>2, <1>3, <1>4, <1>5, <1>19 DEF RespPublish, RespGoto, Holds, RespHolds, PointTypes, pointVars,
     reqVars, respQVars
<1>20. CASE RespMark
  BY <1>1, <1>2, <1>3, <1>4, <1>5, <1>20 DEF RespMark, RespGoto, Holds, RespHolds, PointTypes, pointVars,
     reqVars, respQVars
<1>21. CASE RespUnprepared
  BY <1>1, <1>2, <1>3, <1>4, <1>5, <1>21 DEF RespUnprepared, RespGoto, Holds, RespHolds, PointTypes, pointVars,
     reqVars, respQVars
<1> QED
  BY <1>7, <1>8, <1>9, <1>10, <1>11, <1>12, <1>13, <1>14, <1>15, <1>16, <1>17, <1>18, <1>19, <1>20, <1>21 DEF RespThread

\* A step that touches nothing that FlightOK reads.
LEMMA FlightFrame ==
  ASSUME NEW p, FlightOK(p), UNCHANGED <<stack, respQ, respPc, resp, reqPc, reqTodo, reqPoll, reqSeen,
                                  txMap, await, reqTx, pollOf>>
  PROVE  FlightOK(p)'
<1>1. /\ InStack(p)' = InStack(p) /\ InQueue(p)' = InQueue(p)
      /\ Holds(p)' = Holds(p) /\ RespHolds(p)' = RespHolds(p)
      /\ Once(p)' = Once(p) /\ OwnPoll(p)' = OwnPoll(p)
  BY FlightRests, OwnPollRests
<1> QED
  BY <1>1 DEF FlightOK, Awaited, Alone, Seen, Ready, InFlight, Asking, Answering, Dummy, reqPoint

\* An overlap is noted for ever.
LEMMA OverlapGrows ==
  ASSUME [Next]_vars
  PROVE  overlap \subseteq overlap'
<1>1. CASE ReqThread
  BY <1>1 DEF ReqThread, ReqWait, ReqPop, ReqListDone, ReqAwaited, ReqDummyPost, ReqDummyMark,
     ReqDummyCheck, ReqBegin, ReqClearPosted, ReqSetAwait, ReqInsert, ReqSent, ReqRefused,
     ReqFailAwait, ReqFailPost, ReqFailMark, ReqFailRemove, ReqFailTx, histVars
<1>2. CASE CutThread
  BY <1>2 DEF CutThread, CutWait, CutPop, CutListDone, CutSkip, CutLate, CutPost, CutMark, histVars
<1>3. CASE RespThread
  BY <1>3 DEF RespThread, RespWait, RespPop, RespDrop, RespKnown, RespRetryBudget, RespRetryRead,
     RespRetryStore, RespResent, RespResendRefused, RespRemove, RespClearAwait, RespClearTx,
     RespPublish, RespUnprepared, RespMark, histVars
<1>4. CASE Timer \/ StackAnswer \/ UNCHANGED vars
  BY <1>4, TimerFrame DEF StackAnswer, vars, histVars
<1> QED
  BY <1>1, <1>2, <1>3, <1>4 DEF Next, Rest

\* The cutoff thread takes nothing away from a response under way.
LEMMA CutLeavesFlight ==
  ASSUME CutThread
  PROVE  UNCHANGED <<stack, respQ, respPc, resp, reqPc, reqTodo, reqPoll, reqSeen, txMap, await,
                     reqTx, pollOf, retries, lastGood, resent>>
<1>1. UNCHANGED <<txMap, await, reqTx, pollOf, retries, lastGood, resent>>
  BY DEF CutThread, CutWait, CutPop, CutListDone, CutSkip, CutLate, CutPost, CutMark, pointVars,
     histVars
<1> QED
  BY <1>1, CutFrame DEF respQVars, reqVars, respVars

\* Every step keeps what is under way for a point in order, or makes the
\* point one with an overlap.
LEMMA FlightStep ==
  ASSUME IInv, FlightInv, [Next]_vars
  PROVE  FlightInv'
<1> SUFFICES ASSUME NEW p \in Points, p \notin overlap' PROVE FlightOK(p)'
  BY DEF FlightInv
<1>1. FlightOK(p)
  BY OverlapGrows DEF FlightInv
<1>2. CASE ReqThread
  BY <1>1, <1>2, FlightReqStep
<1>3. CASE StackAnswer
  BY <1>1, <1>3, FlightStackStep
<1>4. CASE RespThread
  BY <1>1, <1>4, FlightRespStep
<1>5. CASE CutThread
  BY <1>1, <1>5, CutLeavesFlight, FlightFrame
<1>6. CASE Timer \/ UNCHANGED vars
  BY <1>1, <1>6, TimerFrame, FlightFrame DEF vars, respQVars, pointVars, reqVars, respVars
<1> QED
  BY <1>2, <1>3, <1>4, <1>5, <1>6 DEF Next, Rest

\* A point without an overlap has one response under way at most, awaited,
\* and of the poll that its request data belong to.
THEOREM FlightCorrect == Spec => []FlightInv
<1>1. Init => FlightInv
  BY DEF Init, FlightInv, FlightOK, Once, OwnPoll, Awaited, Alone, Seen, Ready, InFlight, InStack,
     InQueue, Holds, RespHolds, Asking, Answering, Dummy
<1>2. IInv /\ FlightInv /\ [Next]_vars => FlightInv'
  BY FlightStep
<1> QED
  BY <1>1, <1>2, InductiveInvariant, PTL DEF Spec

\* initiateRequest sends no request while an earlier one of the point is to be
\* answered, unless an earlier request of the point overlapped a response.
THEOREM SecondRequestCorrect == Spec => []NoSecondRequest
<1>1. IInv /\ FlightInv => NoSecondRequest
  BY HoldsSplit DEF IInv, TypeOK, FlightInv, FlightOK, Alone, Asking, Dummy, NoSecondRequest, InFlight
<1> QED
  BY <1>1, FlightCorrect, InductiveInvariant, PTL

-----------------------------------------------------------------------------
(* Retries.  What is left of m_nRetry and the resubmissions made add up to  *)
(* the configured number at most, the one about to be made included.        *)

AboutToResend(p) == IF respPc = "resend" /\ resp.pt = p THEN 1 ELSE 0

BudgetOK(p) ==
  /\ resent[p] + retries[p] + AboutToResend(p) <= MaxRetry
  /\ respPc = "retryStore" /\ resp.pt = p => respBudget = retries[p]

BudgetInv == \A p \in Points : p \in overlap \/ BudgetOK(p)

\* A step of neither the counters nor the response thread.
LEMMA BudgetFrame ==
  ASSUME NEW p, BudgetOK(p), UNCHANGED <<respPc, resp, respBudget>>,
         resent'[p] = resent[p], retries'[p] = retries[p]
  PROVE  BudgetOK(p)'
  BY DEF BudgetOK, AboutToResend

\* sendRequest fills the retries up, when no response of the point is in hand.
LEMMA BudgetReqStep ==
  ASSUME IInv, ReqThread, NEW p \in Points, FlightOK(p), BudgetOK(p)
  PROVE  BudgetOK(p)'
<1>1. UNCHANGED respVars
  BY ReqFrame
<1>2. CASE ReqInsert
  <2>1. PointTypes /\ HistTypes
    BY DEF IInv, TypeOK
  <2>2. CASE reqPoint = p
    <3>1. ~Holds(p)
      BY <1>2, <2>2 DEF ReqInsert, FlightOK, Alone, Asking, Dummy
    <3>2. resent'[p] = 0 /\ retries'[p] = MaxRetry
      BY <1>2, <2>1, <2>2 DEF ReqInsert, PointTypes, HistTypes
    <3> QED
      BY <1>1, <3>1, <3>2, BoundAssumption DEF BudgetOK, AboutToResend, Holds, respVars
  <2>3. CASE reqPoint # p
    <3>1. resent'[p] = resent[p] /\ retries'[p] = retries[p]
      BY <1>2, <2>1, <2>3 DEF ReqInsert, PointTypes, HistTypes
    <3> QED
      BY <1>1, <3>1, BudgetFrame DEF respVars
  <2> QED
    BY <2>2, <2>3
<1>3. CASE ~ReqInsert
  <2>1. UNCHANGED <<resent, retries>>
    BY <1>3 DEF ReqThread, ReqWait, ReqPop, ReqListDone, ReqAwaited, ReqDummyPost, ReqDummyMark,
       ReqDummyCheck, ReqBegin, ReqClearPosted, ReqSetAwait, ReqSent, ReqRefused,
       ReqFailAwait, ReqFailPost, ReqFailMark, ReqFailRemove, ReqFailTx, pointVars, histVars
  <2> QED
    BY <1>1, <2>1, BudgetFrame DEF respVars
<1> QED
  BY <1>2, <1>3

\* checkForRetry takes one off m_nRetry for each resubmission.
LEMMA BudgetRespStep ==
  ASSUME IInv, RespThread, NEW p \in Points, BudgetOK(p)
  PROVE  BudgetOK(p)'
<1> USE DEF BudgetOK, AboutToResend
<1>1. PointTypes /\ RespTypes /\ HistTypes
  BY DEF IInv, TypeOK
<1>2. resent[p] \in Nat /\ retries[p] \in Nat /\ respBudget \in Nat /\ MaxRetry \in Nat
  BY <1>1, BoundAssumption DEF PointTypes, RespTypes, HistTypes
<1>3. CASE RespWait
  BY <1>1, <1>2, <1>3 DEF RespWait, RespGoto, PointTypes, RespTypes, HistTypes, pointVars, histVars
<1>4. CASE RespPop
  BY <1>1, <1>2, <1>4 DEF RespPop, RespGoto, PointTypes, RespTypes, HistTypes, pointVars, histVars
<1>5. CASE RespDrop
  BY <1>1, <1>2, <1>5 DEF RespDrop, RespGoto, PointTypes, RespTypes, HistTypes, pointVars, histVars
<1>6. CASE RespKnown
  BY <1>1, <1>2, <1>6 DEF RespKnown, RespGoto, PointTypes, RespTypes, HistTypes, pointVars, histVars
<1>7. CASE RespRetryBudget
  BY <1>1, <1>2, <1>7 DEF RespRetryBudget, RespGoto, PointTypes, RespTypes, HistTypes, pointVars, histVars
<1>8. CASE RespRetryRead
  BY <1>1, <1>2, <1>8 DEF RespRetryRead, RespGoto, PointTypes, RespTypes, HistTypes, pointVars, histVars
<1>9. CASE RespRetryStore
  BY <1>1, <1>2, <1>9 DEF RespRetryStore, RespGoto, PointTypes, RespTypes, HistTypes, pointVars, histVars
<1>10. CASE RespResent
  BY <1>1, <1>2, <1>10 DEF RespResent, RespGoto, PointTypes, RespTypes, HistTypes, pointVars, histVars
<1>11. CASE RespResendRefused
  BY <1>1, <1>2, <1>11 DEF RespResendRefused, RespGoto, PointTypes, RespTypes, HistTypes, pointVars, histVars
<1>12. CASE RespRemove
  BY <1>1, <1>2, <1>12 DEF RespRemove, RespGoto, PointTypes, RespTypes, HistTypes, pointVars, histVars
<1>13. CASE RespClearAwait
  BY <1>1, <1>2, <1>13 DEF RespClearAwait, RespGoto, PointTypes, RespTypes, HistTypes, pointVars, histVars
<1>14. CASE RespClearTx
  BY <1>1, <1>2, <1>14 DEF RespClearTx, RespGoto, PointTypes, RespTypes, HistTypes, pointVars, histVars
<1>15. CASE RespPublish
  BY <1>1, <1>2, <1>15 DEF RespPublish, RespGoto, PointTypes, RespTypes, HistTypes, pointVars, histVars
<1>16. CASE RespMark
  BY <1>1, <1>2, <1>16 DEF RespMark, RespGoto, PointTypes, RespTypes, HistTypes, pointVars, histVars
<1>17. CASE RespUnprepared
  BY <1>1, <1>2, <1>17 DEF RespUnprepared, RespGoto, PointTypes, RespTypes, HistTypes, pointVars, histVars
<1> QED
  BY <1>3, <1>4, <1>5, <1>6, <1>7, <1>8, <1>9, <1>10, <1>11, <1>12, <1>13, <1>14, <1>15, <1>16, <1>17 DEF RespThread

\* The counters are moved by these two threads alone.
LEMMA BudgetStep ==
  ASSUME IInv, FlightInv, BudgetInv, [Next]_vars
  PROVE  BudgetInv'
<1> SUFFICES ASSUME NEW p \in Points, p \notin overlap' PROVE BudgetOK(p)'
  BY DEF BudgetInv
<1>1. FlightOK(p) /\ BudgetOK(p)
  BY OverlapGrows DEF FlightInv, BudgetInv
<1>2. CASE ReqThread
  BY <1>1, <1>2, BudgetReqStep
<1>3. CASE RespThread
  BY <1>1, <1>3, BudgetRespStep
<1>4. CASE CutThread
  BY <1>1, <1>4, CutFrame, CutLeavesFlight, BudgetFrame DEF respVars
<1>5. CASE StackAnswer \/ Timer \/ UNCHANGED vars
  BY <1>1, <1>5, TimerFrame, BudgetFrame DEF StackAnswer, vars, pointVars, respVars, histVars
<1> QED
  BY <1>2, <1>3, <1>4, <1>5 DEF Next, Rest

\* A late or repeated answer finds its entry, is published under the time of
\* its own poll, and is not asked for more often than configured, unless a
\* request of the point overlapped a response.
THEOREM LateAnswersCorrect == Spec => []LateAnswers
<1>1. Init => BudgetInv
  BY BoundAssumption DEF Init, BudgetInv, BudgetOK, AboutToResend
<1>2. IInv /\ FlightInv /\ BudgetInv /\ [Next]_vars => BudgetInv'
  BY BudgetStep
<1>3. IInv /\ FlightInv /\ BudgetInv => LateAnswers
  <2> SUFFICES ASSUME IInv, FlightInv, BudgetInv PROVE LateAnswers
    OBVIOUS
  <2>1. respPc \notin {"wait", "pop"} => resp.pt \in Points
    BY DEF IInv, TypeOK, RespTypes, Response
  <2>2. NoResponseDropped
    BY <2>1 DEF FlightInv, FlightOK, Awaited, InFlight, RespHolds, NoResponseDropped
  <2>3. OwnPollTime
    BY <2>1 DEF FlightInv, FlightOK, OwnPoll, Holds, OwnPollTime
  <2>4. RetriesBounded
    BY BoundAssumption DEF IInv, TypeOK, PointTypes, HistTypes, BudgetInv, BudgetOK, AboutToResend,
       RetriesBounded
  <2> QED
    BY <2>2, <2>3, <2>4 DEF LateAnswers
<1> QED
  BY <1>1, <1>2, <1>3, InductiveInvariant, FlightCorrect, PTL DEF Spec

-----------------------------------------------------------------------------
(* The order of polls.  The events of an interval are queued in the order  *)
(* of its polls, and the request thread serves them in that order, so the  *)
(* poll that a point stands for, and its last good value, never go back.   *)

Listed(p, i) == \E k \in 1..Len(PointsOf[i]) : PointsOf[i][k] = p
InTodo(p)    == \E k \in 1..Len(reqTodo) : reqTodo[k] = p
Serving      == reqPc \notin {"wait", "pop"}

QueueOrder ==
  /\ \A k \in 1..Len(reqQ) : reqQ[k].poll <= polls[reqQ[k].interval]
  /\ \A k, l \in 1..Len(reqQ) :
       k < l /\ reqQ[k].interval = reqQ[l].interval => reqQ[k].poll < reqQ[l].poll
\* A poll of the interval that is not later than those issued, and is earlier
\* than those queued.
Before(n, i) ==
  /\ n <= polls[i]
  /\ \A k \in 1..Len(reqQ) : reqQ[k].interval = i => n < reqQ[k].poll
PollOrder ==
  \A p \in Points :
    /\ \A i \in Intervals : Listed(p, i) => Before(pollOf[p], i)
    /\ Serving /\ InTodo(p) =>
         /\ pollOf[p] <= reqPoll
         /\ \A i \in Intervals : Listed(p, i) => Before(reqPoll, i)
OrderInv == QueueOrder /\ PollOrder

LastGoodInv == \A p \in Points : p \in overlap \/ lastGood[p] <= pollOf[p]

\* A point is polled at one interval.
LEMMA OneInterval ==
  ASSUME NEW p, NEW i \in Intervals, NEW j \in Intervals, Listed(p, i), Listed(p, j)
  PROVE  i = j
  BY PointsOfAssumption DEF Listed

\* A step that issues no poll, serves no new event and begins no request.
LEMMA OrderFrame ==
  ASSUME OrderInv, UNCHANGED <<polls, reqQ, pollOf, reqPoll>>, Serving' => Serving,
         \A p : InTodo(p)' => InTodo(p)
  PROVE  OrderInv'
<1>1. QueueOrder'
  BY DEF OrderInv, QueueOrder
<1>2. \A n, i : Before(n, i)' = Before(n, i)
  BY DEF Before
<1>3. PollOrder'
  BY <1>2 DEF OrderInv, PollOrder, Listed
<1> QED
  BY <1>1, <1>3 DEF OrderInv

\* The event of a new poll is later than everything of its interval.
LEMMA OrderPollStep ==
  ASSUME IInv, OrderInv, NEW j \in Intervals, TimerPoll(j)
  PROVE  OrderInv'
<1>1. /\ reqQ' = Append(reqQ, [interval |-> j, poll |-> polls[j] + 1])
      /\ polls' = [polls EXCEPT ![j] = @ + 1]
      /\ UNCHANGED <<pollOf, reqVars>>
  BY DEF TimerPoll, pointVars
<1>2. polls \in [Intervals -> Nat] /\ reqQ \in Seq(Event) /\ polls[j] + 1 \in Poll
  BY BoundAssumption DEF TimerPoll, IInv, TypeOK, TimerTypes, QueueTypes, Poll
<1>3. [interval |-> j, poll |-> polls[j] + 1] \in Event
  BY <1>2 DEF Event
<1>4. /\ Len(reqQ') = Len(reqQ) + 1 /\ Len(reqQ) \in Nat
      /\ \A k \in 1..Len(reqQ) : reqQ'[k] = reqQ[k]
      /\ reqQ'[Len(reqQ) + 1].interval = j /\ reqQ'[Len(reqQ) + 1].poll = polls[j] + 1
  BY <1>1, <1>2, <1>3
<1>5. \A k \in 1..Len(reqQ) : reqQ[k].interval \in Intervals /\ reqQ[k].poll \in Nat
  <2>1. \A k \in 1..Len(reqQ) : reqQ[k] \in Event
    BY <1>2
  <2> QED
    BY <2>1, BoundAssumption DEF Event, Poll
<1>6. /\ \A i \in Intervals : polls[i] \in Nat /\ polls'[i] \in Nat /\ polls[i] <= polls'[i]
      /\ polls'[j] = polls[j] + 1
  BY <1>1, <1>2
<1>7. QueueOrder'
  <2>1. \A k \in 1..Len(reqQ') : reqQ'[k].poll <= polls'[reqQ'[k].interval]
    <3> SUFFICES ASSUME NEW k \in 1..Len(reqQ') PROVE reqQ'[k].poll <= polls'[reqQ'[k].interval]
      OBVIOUS
    <3>1. CASE k \in 1..Len(reqQ)
      <4>1. reqQ'[k] = reqQ[k] /\ reqQ[k].interval \in Intervals /\ reqQ[k].poll \in Nat
        BY <1>4, <1>5, <3>1
      <4>2. reqQ[k].poll <= polls[reqQ[k].interval]
        BY <3>1 DEF OrderInv, QueueOrder
      <4> QED
        BY <1>6, <4>1, <4>2
    <3>2. CASE k = Len(reqQ) + 1
      BY <1>4, <1>6, <3>2
    <3> QED
      BY <1>4, <3>1, <3>2
  <2>2. ASSUME NEW k \in 1..Len(reqQ'), NEW l \in 1..Len(reqQ'), k < l,
               reqQ'[k].interval = reqQ'[l].interval
        PROVE  reqQ'[k].poll < reqQ'[l].poll
    <3>1. k \in 1..Len(reqQ)
      BY <1>4, <2>2
    <3>2. CASE l \in 1..Len(reqQ)
      BY <1>4, <2>2, <3>1, <3>2 DEF OrderInv, QueueOrder
    <3>3. CASE l = Len(reqQ) + 1
      <4>1. reqQ[k].poll <= polls[j]
        BY <1>4, <2>2, <3>1, <3>3 DEF OrderInv, QueueOrder
      <4> QED
        BY <1>4, <1>5, <1>6, <3>1, <3>3, <4>1
    <3> QED
      BY <1>4, <3>2, <3>3
  <2> QED
    BY <2>1, <2>2 DEF QueueOrder
<1>8. ASSUME NEW n \in Nat, NEW i \in Intervals, Before(n, i) PROVE Before(n, i)'
  <2>1. n <= polls'[i]
    BY <1>6, <1>8 DEF Before
  <2>2. ASSUME NEW k \in 1..Len(reqQ'), reqQ'[k].interval = i PROVE n < reqQ'[k].poll
    <3>1. CASE k \in 1..Len(reqQ)
      BY <1>4, <1>8, <2>2, <3>1 DEF Before
    <3>2. CASE k = Len(reqQ) + 1
      BY <1>4, <1>6, <1>8, <2>2, <3>2 DEF Before
    <3> QED
      BY <1>4, <3>1, <3>2
  <2> QED
    BY <2>1, <2>2 DEF Before
<1>9. PollOrder'
  <2>1. reqPoll \in Nat /\ \A p \in Points : pollOf[p] \in Nat
    BY BoundAssumption DEF IInv, TypeOK, ReqTypes, PointTypes
  <2> QED
    BY <1>1, <1>8, <2>1 DEF OrderInv, PollOrder, Listed, InTodo, Serving, reqVars
<1> QED
  BY <1>7, <1>9 DEF OrderInv

\* The event at the head of the queue is the earliest of its interval, and
\* later than the poll that any of its points stands for.
LEMMA OrderPopStep ==
  ASSUME IInv, OrderInv, ReqPop
  PROVE  OrderInv'
<1>1. reqQ \in Seq(Event) /\ reqQ # <<>>
  BY DEF ReqPop, IInv, TypeOK, SemaphoreCountsQueue, QueueTypes, ReqSemCounts
<1>2. PICK e : e = reqQ[1]
  OBVIOUS
<1>3. /\ Len(reqQ) \in Nat \ {0} /\ Head(reqQ) = e /\ Len(reqQ') = Len(reqQ) - 1
      /\ \A k \in 1..Len(reqQ') : reqQ'[k] = reqQ[k + 1] /\ k + 1 \in 1..Len(reqQ)
      /\ 1 \in 1..Len(reqQ) /\ e \in Event
  BY <1>1, <1>2 DEF ReqPop
<1>4. UNCHANGED <<polls, pollOf>> /\ reqTodo' = PointsOf[e.interval] /\ reqPoll' = e.poll
  BY <1>3 DEF ReqPop, timerVars, pointVars
<1>5. QueueOrder'
  <2>1. \A k \in 1..Len(reqQ') : reqQ'[k].poll <= polls[reqQ'[k].interval]
    BY <1>3 DEF OrderInv, QueueOrder
  <2>2. ASSUME NEW k \in 1..Len(reqQ'), NEW l \in 1..Len(reqQ'), k < l,
               reqQ'[k].interval = reqQ'[l].interval
        PROVE  reqQ'[k].poll < reqQ'[l].poll
    <3>1. k + 1 \in 1..Len(reqQ) /\ l + 1 \in 1..Len(reqQ) /\ k + 1 < l + 1
      BY <1>3, <2>2
    <3> QED
      BY <1>3, <2>2, <3>1 DEF OrderInv, QueueOrder
  <2> QED
    BY <1>4, <2>1, <2>2 DEF QueueOrder
<1>6. \A n, i : Before(n, i) => n <= polls'[i] /\ \A k \in 1..Len(reqQ') : reqQ'[k].interval = i => n < reqQ'[k].poll
  BY <1>3, <1>4 DEF Before
<1>7. /\ e.poll <= polls'[e.interval]
      /\ \A k \in 1..Len(reqQ') : reqQ'[k].interval = e.interval => e.poll < reqQ'[k].poll
  <2>1. e.poll <= polls[e.interval]
    BY <1>2, <1>3 DEF OrderInv, QueueOrder
  <2>2. ASSUME NEW k \in 1..Len(reqQ'), reqQ'[k].interval = e.interval PROVE e.poll < reqQ'[k].poll
    <3>1. k + 1 \in 1..Len(reqQ) /\ 1 < k + 1 /\ reqQ'[k] = reqQ[k + 1]
      BY <1>3
    <3> QED
      BY <1>2, <1>3, <2>2, <3>1 DEF OrderInv, QueueOrder
  <2> QED
    BY <1>4, <2>1, <2>2
<1>8. ASSUME NEW p \in Points, InTodo(p)'
      PROVE  /\ pollOf'[p] <= reqPoll'
             /\ \A i \in Intervals : Listed(p, i) => Before(reqPoll, i)'
  <2>1. Listed(p, e.interval) /\ e.interval \in Intervals /\ e.poll \in Nat
    BY <1>3, <1>4, <1>8, BoundAssumption DEF InTodo, Listed, Event, Poll
  <2>2. pollOf[p] < e.poll
    <3>1. Before(pollOf[p], e.interval)
      BY <2>1 DEF OrderInv, PollOrder
    <3> QED
      BY <1>2, <1>3, <3>1 DEF Before
  <2>3. pollOf[p] \in Nat
    BY BoundAssumption DEF IInv, TypeOK, PointTypes
  <2>4. ASSUME NEW i \in Intervals, Listed(p, i) PROVE Before(reqPoll, i)'
    <3>1. i = e.interval
      BY <2>1, <2>4, OneInterval
    <3> QED
      BY <1>4, <1>7, <3>1 DEF Before
  <2> QED
    BY <1>4, <2>1, <2>2, <2>3, <2>4
<1>9. PollOrder'
  <2>1. ASSUME NEW p \in Points, NEW i \in Intervals, Listed(p, i)
        PROVE  Before(pollOf[p], i)'
    <3>1. Before(pollOf[p], i)
      BY <2>1 DEF OrderInv, PollOrder
    <3> QED
      BY <1>4, <1>6, <3>1 DEF Before
  <2> QED
    BY <1>8, <2>1 DEF PollOrder, Listed
<1> QED
  BY <1>5, <1>9 DEF OrderInv

\* A request begins for a point of the event being served.
LEMMA OrderBeginStep ==
  ASSUME IInv, OrderInv, ReqBegin
  PROVE  /\ OrderInv'
         /\ pollOf[reqPoint] <= pollOf'[reqPoint]
<1>1. PointTypes /\ ReqTypes
  BY DEF IInv, TypeOK
<1>2. reqPoint \in Points /\ InTodo(reqPoint) /\ Serving
  BY <1>1, ReqPointType DEF ReqBegin, ReqTypes, InTodo, reqPoint, Serving
<1>3. /\ UNCHANGED <<polls, reqQ, reqPoll, reqTodo>> /\ Serving'
      /\ pollOf' = [pollOf EXCEPT ![reqPoint] = reqPoll]
  BY DEF ReqBegin, Goto, timerVars, reqQVars, Serving
<1>4. QueueOrder'
  BY <1>3 DEF OrderInv, QueueOrder
<1>5. \A n, i : Before(n, i)' = Before(n, i)
  BY <1>3 DEF Before
<1>6. pollOf[reqPoint] <= reqPoll /\ pollOf'[reqPoint] = reqPoll
  BY <1>1, <1>2, <1>3 DEF OrderInv, PollOrder, PointTypes
<1>7. PollOrder'
  <2>1. ASSUME NEW p \in Points, NEW i \in Intervals, Listed(p, i)
        PROVE  Before(pollOf[p], i)'
    <3>1. CASE p = reqPoint
      <4>1. Before(reqPoll, i)
        BY <1>2, <2>1, <3>1 DEF OrderInv, PollOrder
      <4> QED
        BY <1>3, <1>6, <3>1, <4>1 DEF Before
    <3>2. CASE p # reqPoint
      <4>1. Before(pollOf[p], i) /\ pollOf'[p] = pollOf[p]
        BY <1>1, <1>3, <2>1, <3>2 DEF OrderInv, PollOrder, PointTypes
      <4> QED
        BY <1>3, <4>1 DEF Before
    <3> QED
      BY <3>1, <3>2
  <2>2. ASSUME NEW p \in Points, InTodo(p)'
        PROVE  /\ pollOf'[p] <= reqPoll'
               /\ \A i \in Intervals : Listed(p, i) => Before(reqPoll, i)'
    <3>1. InTodo(p) /\ reqPoll \in Nat
      BY <1>1, <1>3, <2>2, BoundAssumption DEF InTodo, ReqTypes
    <3>2. pollOf[p] <= reqPoll /\ \A i \in Intervals : Listed(p, i) => Before(reqPoll, i)
      BY <1>2, <3>1 DEF OrderInv, PollOrder
    <3>3. pollOf'[p] <= reqPoll'
      BY <1>1, <1>3, <1>6, <3>1, <3>2 DEF PointTypes
    <3> QED
      BY <1>3, <3>2, <3>3 DEF Before
  <2> QED
    BY <2>1, <2>2 DEF PollOrder, Listed
<1> QED
  BY <1>4, <1>6, <1>7 DEF OrderInv

\* The steps of a thread change the order of polls only where it serves an
\* event or begins a request.
LEMMA OrderStep ==
  ASSUME IInv, OrderInv, [Next]_vars
  PROVE  OrderInv'
<1>1. CASE Timer
  <2>1. UNCHANGED <<pollOf, reqVars>>
    BY <1>1, TimerFrame DEF pointVars
  <2>2. CASE \E i \in Intervals : TimerPoll(i)
    BY <2>2, OrderPollStep
  <2>3. CASE \E i \in Intervals : TimerCutoff(i)
    <3>1. UNCHANGED <<polls, reqQ>>
      BY <2>3 DEF TimerCutoff, reqQVars
    <3> QED
      BY <2>1, <3>1, OrderFrame DEF Serving, InTodo, reqVars
  <2> QED
    BY <1>1, <2>2, <2>3 DEF Timer
<1>2. CASE ReqThread
  <2>1. CASE ReqPop
    BY <2>1, OrderPopStep
  <2>2. CASE ReqBegin
    BY <2>2, OrderBeginStep
  <2>3. CASE ~ReqPop /\ ~ReqBegin
    <3>1. UNCHANGED <<polls, reqQ, pollOf, reqPoll>>
      BY <1>2, <2>3 DEF ReqThread, ReqWait, ReqListDone, ReqAwaited, ReqDummyPost, ReqDummyMark,
         ReqDummyCheck, ReqClearPosted, ReqSetAwait, ReqInsert, ReqSent, ReqRefused,
         ReqFailAwait, ReqFailPost, ReqFailMark, ReqFailRemove, ReqFailTx, Goto, NextPoint,
         timerVars, reqQVars, pointVars
    <3>2. Serving' => Serving
      BY <1>2, <2>3 DEF ReqThread, ReqWait, ReqListDone, ReqAwaited, ReqDummyPost, ReqDummyMark,
         ReqDummyCheck, ReqClearPosted, ReqSetAwait, ReqInsert, ReqSent, ReqRefused,
         ReqFailAwait, ReqFailPost, ReqFailMark, ReqFailRemove, ReqFailTx, Goto, NextPoint, Serving
    <3>3. reqTodo' = reqTodo \/ (reqTodo # <<>> /\ reqTodo' = Tail(reqTodo))
      BY <1>2, <2>3 DEF IInv, TypeOK, ReqTypes, ReqThread, ReqWait, ReqListDone, ReqAwaited,
         ReqDummyPost, ReqDummyMark,
         ReqDummyCheck, ReqClearPosted, ReqSetAwait, ReqInsert, ReqSent, ReqRefused,
         ReqFailAwait, ReqFailPost, ReqFailMark, ReqFailRemove, ReqFailTx, Goto, NextPoint
    <3>4. \A p : InTodo(p)' => InTodo(p)
      <4>1. CASE reqTodo' = reqTodo
        BY <4>1 DEF InTodo
      <4>2. CASE reqTodo # <<>> /\ reqTodo' = Tail(reqTodo)
        <5>1. reqTodo \in Seq(Points)
          BY DEF IInv, TypeOK, ReqTypes
        <5>2. \A k \in 1..Len(reqTodo') : k + 1 \in 1..Len(reqTodo) /\ reqTodo'[k] = reqTodo[k + 1]
          BY <4>2, <5>1
        <5> QED
          BY <5>2 DEF InTodo
      <4> QED
        BY <3>3, <4>1, <4>2
    <3> QED
      BY <3>1, <3>2, <3>4, OrderFrame
  <2> QED
    BY <2>1, <2>2, <2>3
<1>3. CASE CutThread \/ StackAnswer \/ RespThread \/ UNCHANGED vars
  <2>1. UNCHANGED <<polls, reqQ, reqVars>>
    BY <1>3, CutFrame, RespFrame DEF StackAnswer, vars, timerVars, reqQVars
  <2>2. UNCHANGED pollOf
    BY <1>3 DEF CutThread, CutWait, CutPop, CutListDone, CutSkip, CutLate, CutPost, CutMark,
       StackAnswer, RespThread, RespWait, RespPop, RespDrop, RespKnown, RespRetryBudget,
       RespRetryRead, RespRetryStore, RespResent, RespResendRefused, RespRemove, RespClearAwait,
       RespClearTx, RespPublish, RespUnprepared, RespMark, vars, pointVars
  <2> QED
    BY <2>1, <2>2, OrderFrame DEF Serving, InTodo, reqVars
<1> QED
  BY <1>1, <1>2, <1>3 DEF Next, Rest

\* The value kept last is never replaced by one of an earlier poll, nor is it
\* ever later than the poll that the point stands for.
LEMMA LastGoodStep ==
  ASSUME IInv, FlightInv, OrderInv, LastGoodInv, [Next]_vars, NEW p \in Points, p \notin overlap'
  PROVE  lastGood'[p] >= lastGood[p] /\ lastGood'[p] <= pollOf'[p]
<1>1. p \notin overlap /\ FlightOK(p) /\ lastGood[p] <= pollOf[p]
  BY OverlapGrows DEF FlightInv, LastGoodInv
<1>2. PointTypes /\ lastGood[p] \in Nat /\ pollOf[p] \in Nat
  BY BoundAssumption DEF IInv, TypeOK, PointTypes
<1>3. CASE ReqThread
  <2>1. lastGood' = lastGood
    BY <1>3 DEF ReqThread, ReqWait, ReqPop, ReqListDone, ReqAwaited, ReqDummyPost, ReqDummyMark,
       ReqDummyCheck, ReqBegin, ReqClearPosted, ReqSetAwait, ReqInsert, ReqSent, ReqRefused,
       ReqFailAwait, ReqFailPost, ReqFailMark, ReqFailRemove, ReqFailTx, pointVars
  <2>2. CASE ReqBegin
    <3>1. pollOf[reqPoint] <= pollOf'[reqPoint]
      BY <2>2, OrderBeginStep
    <3>2. pollOf'[reqPoint] \in Nat
      BY <2>2, <1>2, ReqPointType, BoundAssumption DEF ReqBegin, IInv, TypeOK, ReqTypes, PointTypes
    <3>3. reqPoint # p => pollOf'[p] = pollOf[p]
      BY <2>2, <1>2 DEF ReqBegin, PointTypes
    <3> QED
      BY <1>1, <1>2, <2>1, <3>1, <3>2, <3>3
  <2>3. CASE ~ReqBegin
    <3>1. pollOf' = pollOf
      BY <1>3, <2>3 DEF ReqThread, ReqWait, ReqPop, ReqListDone, ReqAwaited, ReqDummyPost,
         ReqDummyMark, ReqDummyCheck, ReqClearPosted, ReqSetAwait, ReqInsert, ReqSent, ReqRefused,
         ReqFailAwait, ReqFailPost, ReqFailMark, ReqFailRemove, ReqFailTx, pointVars
    <3> QED
      BY <1>1, <1>2, <2>1, <3>1
  <2> QED
    BY <2>2, <2>3
<1>4. CASE RespThread
  <2>1. pollOf' = pollOf
    BY <1>4 DEF RespThread, RespWait, RespPop, RespDrop, RespKnown, RespRetryBudget,
       RespRetryRead, RespRetryStore, RespResent, RespResendRefused, RespRemove, RespClearAwait,
       RespClearTx, RespPublish, RespUnprepared, RespMark, pointVars
  <2>2. lastGood'[p] = lastGood[p] \/ (Holds(p) /\ lastGood'[p] = resp.poll)
    BY <1>2, <1>4 DEF RespThread, RespWait, RespPop, RespDrop, RespKnown, RespRetryBudget,
       RespRetryRead, RespRetryStore, RespResent, RespResendRefused, RespRemove, RespClearAwait,
       RespClearTx, RespPublish, RespUnprepared, RespMark, pointVars, PointTypes, Holds
  <2>3. Holds(p) => resp.poll = pollOf[p]
    BY <1>1 DEF FlightOK, OwnPoll
  <2> QED
    BY <1>1, <1>2, <2>1, <2>2, <2>3
<1>5. CASE CutThread
  BY <1>1, <1>2, <1>5, CutLeavesFlight
<1>6. CASE Timer \/ StackAnswer \/ UNCHANGED vars
  <2>1. UNCHANGED <<lastGood, pollOf>>
    BY <1>6, TimerFrame DEF StackAnswer, vars, pointVars
  <2> QED
    BY <1>1, <1>2, <2>1
<1> QED
  BY <1>3, <1>4, <1>5, <1>6 DEF Next, Rest

\* The polls of a point are served, and answered, in the order of the timer.
THEOREM OrderCorrect == Spec => [](OrderInv /\ LastGoodInv)
<1>1. Init => OrderInv /\ LastGoodInv
  BY DEF Init, OrderInv, QueueOrder, PollOrder, Before, Serving, LastGoodInv
<1>2. IInv /\ FlightInv /\ OrderInv /\ LastGoodInv /\ [Next]_vars => (OrderInv /\ LastGoodInv)'
  BY OrderStep, LastGoodStep DEF LastGoodInv
<1> QED
  BY <1>1, <1>2, InductiveInvariant, FlightCorrect, PTL DEF Spec

\* The last good value of a point is never replaced by that of an earlier
\* poll, unless a request of the point overlapped a response.
THEOREM LastGoodCorrect == Spec => LastGoodAdvances
<1>1. IInv /\ FlightInv /\ OrderInv /\ LastGoodInv /\ [Next]_vars
        => [\A p \in Points : lastGood'[p] >= lastGood[p] \/ p \in overlap]_vars
  <2> SUFFICES ASSUME IInv, FlightInv, OrderInv, LastGoodInv, [Next]_vars, NEW p \in Points,
                      p \notin overlap
               PROVE  lastGood'[p] >= lastGood[p] \/ UNCHANGED vars
    OBVIOUS
  <2>1. CASE p \notin overlap'
    BY <2>1, LastGoodStep
  <2>2. CASE p \in overlap'
    <3>1. ReqBegin \/ UNCHANGED overlap
      BY TimerFrame DEF Next, Rest, ReqThread, ReqWait, ReqPop, ReqListDone, ReqAwaited,
         ReqDummyPost, ReqDummyMark, ReqDummyCheck, ReqClearPosted, ReqSetAwait, ReqInsert,
         ReqSent, ReqRefused, ReqFailAwait, ReqFailPost, ReqFailMark, ReqFailRemove, ReqFailTx,
         CutThread, CutWait, CutPop, CutListDone, CutSkip, CutLate, CutPost, CutMark, StackAnswer,
         RespThread, RespWait, RespPop, RespDrop, RespKnown, RespRetryBudget, RespRetryRead,
         RespRetryStore, RespResent, RespResendRefused, RespRemove, RespClearAwait, RespClearTx,
         RespPublish, RespUnprepared, RespMark, vars, histVars
    <3>2. lastGood' = lastGood
      BY <2>2, <3>1 DEF ReqBegin
    <3>3. lastGood[p] \in Nat
      BY BoundAssumption DEF IInv, TypeOK, PointTypes
    <3> QED
      BY <3>2, <3>3
  <2> QED
    BY <2>1, <2>2
<1> QED
  BY <1>1, InductiveInvariant, FlightCorrect, OrderCorrect, PTL DEF Spec, LastGoodAdvances

-----------------------------------------------------------------------------
(* What the flag m_bIsRespPosted promises, when no event of the timer comes *)
(* before the last one is dealt with.                                       *)

\* A thread that serves the timer has something to do.
Busy(pc, sem) == pc # "wait" \/ sem > 0
InTurn == ~(Busy(reqPc, reqSem) /\ Busy(cutPc, cutSem))

\* The flag of p is set after a message about its poll was made, and a
\* response half done is of no point that awaits one.
Reported(p) ==
  /\ posted[p] => reported[p] # "none" \/ (reqPc \in {"dummyPost", "clearPosted"} /\ reqPoint = p)
  /\ reqPc \in {"dummyMark", "failMark"} /\ reqPoint = p => reported[p] # "none"
  /\ respPc \in {"clearTx", "publish", "mark"} /\ resp.pt = p => ~await[p]
  /\ respPc = "mark" /\ resp.pt = p => reported[p] # "none"
  /\ cutPc = "mark" /\ cutPoint = p => reported[p] # "none"

ReportInv == InTurn /\ \A p \in Points : p \in overlap \/ Reported(p)

\* The timer hands out its next event when both threads are caught up.
LEMMA TurnStep ==
  ASSUME IInv, OnTime, InTurn, [Next]_vars
  PROVE  InTurn'
<1> USE DEF InTurn, Busy
<1>1. reqSem \in Nat /\ cutSem \in Nat
  BY DEF IInv, TypeOK, QueueTypes
<1>2. CASE Timer
  BY <1>1, <1>2 DEF Timer, TimerPoll, TimerCutoff, CaughtUp, reqQVars, cutQVars, reqVars, cutVars
<1>3. CASE ReqThread
  <2>1. Busy(reqPc, reqSem)
    BY <1>1, <1>3 DEF ReqThread, ReqWait, ReqPop, ReqListDone, ReqAwaited, ReqDummyPost,
       ReqDummyMark, ReqDummyCheck, ReqBegin, ReqClearPosted, ReqSetAwait, ReqInsert, ReqSent,
       ReqRefused, ReqFailAwait, ReqFailPost, ReqFailMark, ReqFailRemove, ReqFailTx
  <2> QED
    BY <1>3, <2>1, ReqFrame DEF cutQVars, cutVars
<1>4. CASE CutThread
  <2>1. Busy(cutPc, cutSem)
    BY <1>1, <1>4 DEF CutThread, CutWait, CutPop, CutListDone, CutSkip, CutLate, CutPost, CutMark
  <2> QED
    BY <1>4, <2>1, CutFrame DEF reqQVars, reqVars
<1>5. CASE StackAnswer \/ RespThread \/ UNCHANGED vars
  <2>1. UNCHANGED <<reqPc, reqSem, cutPc, cutSem>>
    BY <1>5, RespFrame DEF StackAnswer, vars, reqQVars, cutQVars, reqVars, cutVars
  <2> QED
    BY <2>1
<1> QED
  BY <1>2, <1>3, <1>4, <1>5 DEF Next, Rest

\* The request thread clears what was reported only where the flag is about to
\* be cleared or set anew, and the cutoff thread rests meanwhile.
LEMMA ReportedReqStep ==
  ASSUME IInv, InTurn, ReqThread, NEW p \in Points, p \notin overlap', FlightOK(p), Reported(p)
  PROVE  Reported(p)'
<1> USE DEF Reported, reqPoint, cutPoint
<1>1. UNCHANGED <<respVars, cutVars>>
  BY ReqFrame
<1>2. PointTypes /\ HistTypes /\ ReqTypes
  BY DEF IInv, TypeOK
<1>3. reqPc # "wait" => cutPc = "wait"
  BY DEF InTurn, Busy
<1>4. Holds(p) => ~Asking(p)
  BY DEF FlightOK, Alone
<1>5. CASE ReqWait
  BY <1>1, <1>2, <1>3, <1>4, <1>5 DEF ReqWait, Goto, NextPoint, HalfAnswered, Holds, Asking, Dummy,
     PointTypes, HistTypes, pointVars, histVars, respVars, cutVars
<1>6. CASE ReqPop
  BY <1>1, <1>2, <1>3, <1>4, <1>6 DEF ReqPop, Goto, NextPoint, HalfAnswered, Holds, Asking, Dummy,
     PointTypes, HistTypes, pointVars, histVars, respVars, cutVars
<1>7. CASE ReqListDone
  BY <1>1, <1>2, <1>3, <1>4, <1>7 DEF ReqListDone, Goto, NextPoint, HalfAnswered, Holds, Asking, Dummy,
     PointTypes, HistTypes, pointVars, histVars, respVars, cutVars
<1>8. CASE ReqAwaited
  BY <1>1, <1>2, <1>3, <1>4, <1>8 DEF ReqAwaited, Goto, NextPoint, HalfAnswered, Holds, Asking, Dummy,
     PointTypes, HistTypes, pointVars, histVars, respVars, cutVars
<1>9. CASE ReqDummyPost
  BY <1>1, <1>2, <1>3, <1>4, <1>9 DEF ReqDummyPost, PostDummy, Post, Goto, NextPoint, HalfAnswered, Holds, Asking, Dummy,
     PointTypes, HistTypes, pointVars, histVars, respVars, cutVars
<1>10. CASE ReqDummyMark
  BY <1>1, <1>2, <1>3, <1>4, <1>10 DEF ReqDummyMark, Goto, NextPoint, HalfAnswered, Holds, Asking, Dummy,
     PointTypes, HistTypes, pointVars, histVars, respVars, cutVars
<1>11. CASE ReqDummyCheck
  BY <1>1, <1>2, <1>3, <1>4, <1>11 DEF ReqDummyCheck, Goto, NextPoint, HalfAnswered, Holds, Asking, Dummy,
     PointTypes, HistTypes, pointVars, histVars, respVars, cutVars
<1>12. CASE ReqBegin
  BY <1>1, <1>2, <1>3, <1>4, <1>12 DEF ReqBegin, Goto, NextPoint, HalfAnswered, Holds, Asking, Dummy,
     PointTypes, HistTypes, pointVars, histVars, respVars, cutVars
<1>13. CASE ReqClearPosted
  BY <1>1, <1>2, <1>3, <1>4, <1>13 DEF ReqClearPosted, Goto, NextPoint, HalfAnswered, Holds, Asking, Dummy,
     PointTypes, HistTypes, pointVars, histVars, respVars, cutVars
<1>14. CASE ReqSetAwait
  BY <1>1, <1>2, <1>3, <1>4, <1>14 DEF ReqSetAwait, Goto, NextPoint, HalfAnswered, Holds, Asking, Dummy,
     PointTypes, HistTypes, pointVars, histVars, respVars, cutVars
<1>15. CASE ReqInsert
  BY <1>1, <1>2, <1>3, <1>4, <1>15 DEF ReqInsert, Goto, NextPoint, HalfAnswered, Holds, Asking, Dummy,
     PointTypes, HistTypes, pointVars, histVars, respVars, cutVars
<1>16. CASE ReqSent
  BY <1>1, <1>2, <1>3, <1>4, <1>16 DEF ReqSent, Goto, NextPoint, HalfAnswered, Holds, Asking, Dummy,
     PointTypes, HistTypes, pointVars, histVars, respVars, cutVars
<1>17. CASE ReqRefused
  BY <1>1, <1>2, <1>3, <1>4, <1>17 DEF ReqRefused, Goto, NextPoint, HalfAnswered, Holds, Asking, Dummy,
     PointTypes, HistTypes, pointVars, histVars, respVars, cutVars
<1>18. CASE ReqFailAwait
  BY <1>1, <1>2, <1>3, <1>4, <1>18 DEF ReqFailAwait, Goto, NextPoint, HalfAnswered, Holds, Asking, Dummy,
     PointTypes, HistTypes, pointVars, histVars, respVars, cutVars
<1>19. CASE ReqFailPost
  BY <1>1, <1>2, <1>3, <1>4, <1>19 DEF ReqFailPost, PostDummy, Post, Goto, NextPoint, HalfAnswered, Holds, Asking, Dummy,
     PointTypes, HistTypes, pointVars, histVars, respVars, cutVars
<1>20. CASE ReqFailMark
  BY <1>1, <1>2, <1>3, <1>4, <1>20 DEF ReqFailMark, Goto, NextPoint, HalfAnswered, Holds, Asking, Dummy,
     PointTypes, HistTypes, pointVars, histVars, respVars, cutVars
<1>21. CASE ReqFailRemove
  BY <1>1, <1>2, <1>3, <1>4, <1>21 DEF ReqFailRemove, Goto, NextPoint, HalfAnswered, Holds, Asking, Dummy,
     PointTypes, HistTypes, pointVars, histVars, respVars, cutVars
<1>22. CASE ReqFailTx
  BY <1>1, <1>2, <1>3, <1>4, <1>22 DEF ReqFailTx, Goto, NextPoint, HalfAnswered, Holds, Asking, Dummy,
     PointTypes, HistTypes, pointVars, histVars, respVars, cutVars
<1> QED
  BY <1>5, <1>6, <1>7, <1>8, <1>9, <1>10, <1>11, <1>12, <1>13, <1>14, <1>15, <1>16, <1>17, <1>18, <1>19, <1>20, <1>21, <1>22 DEF ReqThread

\* The cutoff thread reports a late poll before it sets the flag.
LEMMA ReportedCutStep ==
  ASSUME IInv, CutThread, NEW p \in Points, Reported(p)
  PROVE  Reported(p)'
<1> USE DEF Reported, reqPoint, cutPoint
<1>1. UNCHANGED <<respVars, reqVars>>
  BY CutFrame
<1>2. PointTypes /\ HistTypes
  BY DEF IInv, TypeOK
<1>3. CASE CutWait
  BY <1>1, <1>2, <1>3 DEF CutWait, PointTypes, HistTypes, pointVars, histVars, respVars, reqVars
<1>4. CASE CutPop
  BY <1>1, <1>2, <1>4 DEF CutPop, PointTypes, HistTypes, pointVars, histVars, respVars, reqVars
<1>5. CASE CutListDone
  BY <1>1, <1>2, <1>5 DEF CutListDone, PointTypes, HistTypes, pointVars, histVars, respVars, reqVars
<1>6. CASE CutSkip
  BY <1>1, <1>2, <1>6 DEF CutSkip, PointTypes, HistTypes, pointVars, histVars, respVars, reqVars
<1>7. CASE CutLate
  BY <1>1, <1>2, <1>7 DEF CutLate, PointTypes, HistTypes, pointVars, histVars, respVars, reqVars
<1>8. CASE CutPost
  BY <1>1, <1>2, <1>8 DEF CutPost, PostDummy, Post, PointTypes, HistTypes, pointVars, histVars, respVars,
     reqVars
<1>9. CASE CutMark
  BY <1>1, <1>2, <1>9 DEF CutMark, PointTypes, HistTypes, pointVars, histVars, respVars, reqVars
<1> QED
  BY <1>3, <1>4, <1>5, <1>6, <1>7, <1>8, <1>9 DEF CutThread

\* postResponseJSON publishes before it sets the flag.
LEMMA ReportedRespStep ==
  ASSUME IInv, RespThread, NEW p \in Points, Reported(p)
  PROVE  Reported(p)'
<1> USE DEF Reported, reqPoint, cutPoint
<1>1. UNCHANGED <<reqVars, cutVars>>
  BY RespFrame
<1>2. PointTypes /\ HistTypes
  BY DEF IInv, TypeOK
<1>3. CASE RespWait
  BY <1>1, <1>2, <1>3 DEF RespWait, RespGoto, PointTypes, HistTypes, pointVars, histVars, reqVars, cutVars
<1>4. CASE RespPop
  BY <1>1, <1>2, <1>4 DEF RespPop, RespGoto, PointTypes, HistTypes, pointVars, histVars, reqVars, cutVars
<1>5. CASE RespDrop
  BY <1>1, <1>2, <1>5 DEF RespDrop, RespGoto, PointTypes, HistTypes, pointVars, histVars, reqVars, cutVars
<1>6. CASE RespKnown
  BY <1>1, <1>2, <1>6 DEF RespKnown, RespGoto, PointTypes, HistTypes, pointVars, histVars, reqVars, cutVars
<1>7. CASE RespRetryBudget
  BY <1>1, <1>2, <1>7 DEF RespRetryBudget, RespGoto, PointTypes, HistTypes, pointVars, histVars, reqVars, cutVars
<1>8. CASE RespRetryRead
  BY <1>1, <1>2, <1>8 DEF RespRetryRead, RespGoto, PointTypes, HistTypes, pointVars, histVars, reqVars, cutVars
<1>9. CASE RespRetryStore
  BY <1>1, <1>2, <1>9 DEF RespRetryStore, RespGoto, PointTypes, HistTypes, pointVars, histVars, reqVars, cutVars
<1>10. CASE RespResent
  BY <1>1, <1>2, <1>10 DEF RespResent, RespGoto, PointTypes, HistTypes, pointVars, histVars, reqVars, cutVars
<1>11. CASE RespResendRefused
  BY <1>1, <1>2, <1>11 DEF RespResendRefused, RespGoto, PointTypes, HistTypes, pointVars, histVars, reqVars, cutVars
<1>12. CASE RespRemove
  BY <1>1, <1>2, <1>12 DEF RespRemove, RespGoto, PointTypes, HistTypes, pointVars, histVars, reqVars, cutVars
<1>13. CASE RespClearAwait
  BY <1>1, <1>2, <1>13 DEF RespClearAwait, RespGoto, PointTypes, HistTypes, pointVars, histVars, reqVars, cutVars
<1>14. CASE RespClearTx
  BY <1>1, <1>2, <1>14 DEF RespClearTx, RespGoto, PointTypes, HistTypes, pointVars, histVars, reqVars, cutVars
<1>15. CASE RespPublish
  BY <1>1, <1>2, <1>15 DEF RespPublish, Post, RespGoto, PointTypes, HistTypes, pointVars, histVars, reqVars,
     cutVars
<1>16. CASE RespMark
  BY <1>1, <1>2, <1>16 DEF RespMark, RespGoto, PointTypes, HistTypes, pointVars, histVars, reqVars, cutVars
<1>17. CASE RespUnprepared
  BY <1>1, <1>2, <1>17 DEF RespUnprepared, RespGoto, PointTypes, HistTypes, pointVars, histVars, reqVars, cutVars
<1> QED
  BY <1>3, <1>4, <1>5, <1>6, <1>7, <1>8, <1>9, <1>10, <1>11, <1>12, <1>13, <1>14, <1>15, <1>16, <1>17 DEF RespThread

\* Every step keeps the promise for the points without an overlap.
LEMMA ReportStep ==
  ASSUME IInv, FlightInv, OnTime, ReportInv, [Next]_vars
  PROVE  ReportInv'
<1> SUFFICES ASSUME NEW p \in Points, p \notin overlap' PROVE Reported(p)'
  BY TurnStep DEF ReportInv
<1>1. FlightOK(p) /\ Reported(p) /\ InTurn
  BY OverlapGrows DEF FlightInv, ReportInv
<1>2. CASE ReqThread
  BY <1>1, <1>2, ReportedReqStep
<1>3. CASE CutThread
  BY <1>1, <1>3, ReportedCutStep
<1>4. CASE RespThread
  BY <1>1, <1>4, ReportedRespStep
<1>5. CASE Timer \/ StackAnswer \/ UNCHANGED vars
  <2>1. UNCHANGED <<posted, reported, await, reqPc, reqTodo, respPc, resp, cutPc, cutTodo>>
    BY <1>5, TimerFrame DEF StackAnswer, vars, pointVars, histVars, reqVars, respVars, cutVars
  <2> QED
    BY <1>1, <2>1 DEF Reported, reqPoint, cutPoint
<1> QED
  BY <1>2, <1>3, <1>4, <1>5 DEF Next, Rest

\* A poll that the cutoff passes over has been reported, or a message for it
\* failed to get out, as long as the threads keep pace with the timer and no
\* request of the point overlapped a response.
THEOREM SilentCorrect ==
  ASSUME OnTime
  PROVE  Spec => []SilentOnlyIfOverlap
<1>1. Init => ReportInv
  BY DEF Init, ReportInv, InTurn, Busy, Reported
<1>2. IInv /\ FlightInv /\ ReportInv /\ [Next]_vars => ReportInv'
  BY ReportStep
<1>3. IInv /\ ReportInv => SilentOnlyIfOverlap
  <2> SUFFICES ASSUME IInv, ReportInv, cutPc = "point", cutTodo # <<>>, posted[cutPoint]
               PROVE  reported[cutPoint] # "none" \/ cutPoint \in overlap
    BY DEF SilentOnlyIfOverlap
  <2>1. cutPoint \in Points
    BY CutPointType DEF IInv, TypeOK
  <2>2. reqPc = "wait"
    BY DEF ReportInv, InTurn, Busy
  <2> QED
    BY <2>1, <2>2 DEF ReportInv, Reported
<1> QED
  BY <1>1, <1>2, <1>3, InductiveInvariant, FlightCorrect, PTL DEF Spec
=============================================================================
