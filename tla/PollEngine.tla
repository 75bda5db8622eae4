------------------------------ MODULE PollEngine ------------------------------
(***************************************************************************)
(* The polling engine of the Modbus master (modbus-master/Modbus-App,      *)
(* PeriodicRead.cpp): one timer thread, one request thread, one cutoff     *)
(* thread and one response thread, working on the same CRefDataForPolling  *)
(* objects without a common lock.                                          *)
(*                                                                         *)
(* The program has two copies of the last three threads, of their queues,  *)
(* semaphores and TxID maps: one for real-time (RT) points and one for the *)
(* others.  A point belongs to one class for ever and the copies share     *)
(* nothing but the timer, so the module describes one class.               *)
(*                                                                         *)
(* A step of the module is one access to a shared object: a store to an    *)
(* atomic, an operation under the mutex of a queue or of the TxID map, one *)
(* publication, or one call of the Modbus stack (external).                *)
(***************************************************************************)
EXTENDS Naturals, Sequences, FiniteSets

CONSTANTS
  Points,       \* the data points of the class
  Intervals,    \* the polling intervals in use
  PointsOf,     \* the points polled at an interval, in the order of its list
  MaxRetry,     \* configured retries of a request that times out
  MaxPolls,     \* bound: polls of one interval that the timer issues
  OnTime,       \* TRUE: no timer event comes before the last one is dealt with
  ResendRefused \* TRUE: the stack may refuse to send a request again

ASSUME PointsOfAssumption ==
  /\ PointsOf \in [Intervals -> Seq(Points)]
  /\ \A i \in Intervals : Cardinality({PointsOf[i][k] : k \in 1..Len(PointsOf[i])}) = Len(PointsOf[i])
  /\ \A i, j \in Intervals : i # j =>
        \A k \in 1..Len(PointsOf[i]), l \in 1..Len(PointsOf[j]) : PointsOf[i][k] # PointsOf[j][l]

ASSUME BoundAssumption ==
  /\ MaxRetry \in Nat
  /\ MaxPolls \in Nat
  /\ OnTime \in BOOLEAN
  /\ ResendRefused \in BOOLEAN

VARIABLES
  \* timer thread
  polls,      \* polls issued so far, per interval
  cutoffDue,  \* TRUE: the next event of the interval is its cutoff
  \* queues between the threads, each with its counting semaphore
  reqQ, reqSem,     \* m_qReqFreq, semaphoreReqProcess
  cutQ, cutSem,     \* m_qRespFreq, semaphoreRespProcess
  respQ, respSem,   \* stackPollingResQ, semPollingRespProcess
  \* state of the points
  txMap,      \* points whose TxID is a key of m_mapTxIDReqData
  await,      \* m_bIsAwaitResp of the point
  posted,     \* m_bIsRespPosted
  reqTx,      \* m_uReqTxID is the TxID of the point (FALSE: it is 0)
  pollOf,     \* m_stPollTsForReq: the poll the request data belong to
  retries,    \* m_stMBusReq.m_nRetry
  lastGood,   \* poll whose value is the last good response (0: none)
  \* the threads: program counter and local variables
  reqPc, reqTodo, reqPoll, reqSeen,
  cutPc, cutTodo,
  respPc, resp, respBudget,
  \* the Modbus stack: requests accepted and not answered yet
  stack,
  \* history
  reported,   \* what became of the messages for the poll of the point
  resent,     \* resubmissions since the last request began
  lost,       \* points with a resubmission that the stack refused
  overlap     \* points whose request began while a response was half done

timerVars == <<polls, cutoffDue>>
reqQVars  == <<reqQ, reqSem>>
cutQVars  == <<cutQ, cutSem>>
respQVars == <<respQ, respSem>>
pointVars == <<txMap, await, posted, reqTx, pollOf, retries, lastGood>>
reqVars   == <<reqPc, reqTodo, reqPoll, reqSeen>>
cutVars   == <<cutPc, cutTodo>>
respVars  == <<respPc, resp, respBudget>>
histVars  == <<reported, resent, lost, overlap>>
vars == <<timerVars, reqQVars, cutQVars, respQVars, pointVars, reqVars, cutVars,
          respVars, stack, histVars>>

-----------------------------------------------------------------------------
(* Types *)

Poll     == 1..MaxPolls
\* One submission to the stack: the point and the poll it was first sent for.
Request  == [pt : Points, poll : Poll]
\* "timeout" is STACK_ERROR_RECV_TIMEOUT with status 2, the retried error.
Kind     == {"good", "error", "timeout"}
Response == [pt : Points, poll : Poll, kind : Kind]
Event    == [interval : Intervals, poll : Poll]
\* Since the poll began: no message, only such as did not get out, or one that did.
Report   == {"none", "failed", "sent"}

ReqPcs  == {"wait", "pop", "point", "dummyPost", "dummyMark", "dummyCheck",
            "clearPosted", "setAwait", "insert", "call",
            "failAwait", "failPost", "failMark", "failRemove", "failTx"}
CutPcs  == {"wait", "pop", "point", "post", "mark"}
RespPcs == {"wait", "pop", "retryPresent", "retryRef", "retryBudget", "retryRead",
            "retryStore", "resend", "lookup", "remove", "clearAwait", "clearTx", "publish", "mark"}

TimerTypes ==
  /\ polls \in [Intervals -> 0..MaxPolls]
  /\ cutoffDue \in [Intervals -> BOOLEAN]
  /\ \A i \in Intervals : cutoffDue[i] => polls[i] > 0
QueueTypes ==
  /\ reqQ \in Seq(Event) /\ reqSem \in Nat
  /\ cutQ \in Seq(Event) /\ cutSem \in Nat
  /\ respQ \in Seq(Response) /\ respSem \in Nat
PointTypes ==
  /\ txMap \subseteq Points
  /\ await \in [Points -> BOOLEAN]
  /\ posted \in [Points -> BOOLEAN]
  /\ reqTx \in [Points -> BOOLEAN]
  /\ pollOf \in [Points -> 0..MaxPolls]
  /\ retries \in [Points -> 0..MaxRetry]
  /\ lastGood \in [Points -> 0..MaxPolls]
ReqTypes ==
  /\ reqPc \in ReqPcs
  /\ reqTodo \in Seq(Points)
  /\ reqPc \notin {"wait", "pop", "point"} => reqTodo # <<>>
  /\ reqPoll \in 0..MaxPolls
  /\ reqPc \notin {"wait", "pop"} => reqPoll \in Poll
  /\ reqSeen \in BOOLEAN
CutTypes ==
  /\ cutPc \in CutPcs
  /\ cutTodo \in Seq(Points)
  /\ cutPc \in {"post", "mark"} => cutTodo # <<>>
RespTypes ==
  /\ respPc \in RespPcs
  /\ respPc \notin {"wait", "pop"} => resp \in Response
  /\ respBudget \in 0..MaxRetry
  /\ respPc = "retryRead" => retries[resp.pt] > 0
  /\ respPc = "retryStore" => respBudget > 0
HistTypes ==
  /\ reported \in [Points -> Report]
  /\ resent \in [Points -> Nat]
  /\ lost \subseteq Points
  /\ overlap \subseteq Points

TypeOK ==
  /\ TimerTypes /\ QueueTypes /\ PointTypes
  /\ ReqTypes /\ CutTypes /\ RespTypes
  /\ stack \subseteq Request
  /\ HistTypes

Init ==
  /\ polls = [i \in Intervals |-> 0]
  /\ cutoffDue = [i \in Intervals |-> FALSE]
  /\ reqQ = <<>> /\ reqSem = 0
  /\ cutQ = <<>> /\ cutSem = 0
  /\ respQ = <<>> /\ respSem = 0
  /\ txMap = {}
  /\ await = [p \in Points |-> FALSE]
  /\ posted = [p \in Points |-> FALSE]
  /\ reqTx = [p \in Points |-> FALSE]
  /\ pollOf = [p \in Points |-> 0]
  /\ retries = [p \in Points |-> 0]
  /\ lastGood = [p \in Points |-> 0]
  /\ reqPc = "wait" /\ reqTodo = <<>> /\ reqPoll = 0 /\ reqSeen = FALSE
  /\ cutPc = "wait" /\ cutTodo = <<>>
  /\ respPc = "wait" /\ resp = <<>> /\ respBudget = 0
  /\ stack = {}
  /\ reported = [p \in Points |-> "none"]
  /\ resent = [p \in Points |-> 0]
  /\ lost = {}
  /\ overlap = {}
-----------------------------------------------------------------------------
(* Publication.  postResponseJSON logs a message that the bus does not     *)
(* take, or an exception on the way, and returns TRUE all the same.        *)

Post(p, outcome) ==
  reported' = [reported EXCEPT ![p] = IF @ = "sent" THEN "sent" ELSE outcome]

\* postDummyBADResponse ignores even a message that could not be prepared.
PostDummy(p) == \E outcome \in {"sent", "failed"} : Post(p, outcome)

-----------------------------------------------------------------------------
(* Timer thread.  CTimeMapper::checkTimer hands the due polls and cutoffs  *)
(* of an interval to pushPollFreqToQueue, which pushes and posts under the *)
(* queue's mutex.  That a poll and its cutoff alternate is shown by        *)
(* PollTimer.                                                              *)

\* The threads that serve the timer have nothing left to do.
CaughtUp == /\ reqPc = "wait" /\ reqSem = 0
            /\ cutPc = "wait" /\ cutSem = 0

\* Fault: the semaphore is posted outside the test that guards the push.
TimerPollNoPush(i) ==
  /\ ~cutoffDue[i] /\ polls[i] < MaxPolls
  /\ OnTime => CaughtUp
  /\ polls' = [polls EXCEPT ![i] = @ + 1]
  /\ cutoffDue' = [cutoffDue EXCEPT ![i] = TRUE]
  /\ reqSem' = reqSem + 1
  /\ UNCHANGED <<reqQ, cutQVars, respQVars, pointVars, reqVars, cutVars, respVars, stack, histVars>>

TimerPoll(i) ==
  /\ ~cutoffDue[i] /\ polls[i] < MaxPolls
  /\ OnTime => CaughtUp
  /\ polls' = [polls EXCEPT ![i] = @ + 1]
  /\ cutoffDue' = [cutoffDue EXCEPT ![i] = TRUE]
  /\ reqQ' = Append(reqQ, [interval |-> i, poll |-> polls[i] + 1])
  /\ reqSem' = reqSem + 1
  /\ UNCHANGED <<cutQVars, respQVars, pointVars, reqVars, cutVars, respVars, stack, histVars>>

TimerCutoff(i) ==
  /\ cutoffDue[i]
  /\ OnTime => CaughtUp
  /\ cutoffDue' = [cutoffDue EXCEPT ![i] = FALSE]
  /\ cutQ' = Append(cutQ, [interval |-> i, poll |-> polls[i]])
  /\ cutSem' = cutSem + 1
  /\ UNCHANGED <<polls, reqQVars, respQVars, pointVars, reqVars, cutVars, respVars, stack, histVars>>

-----------------------------------------------------------------------------
(* Request thread: threadReqInit, getFreqRefForPollCycle, initiateRequest, *)
(* setDataForNewReq, sendRequest.                                          *)

reqPoint == Head(reqTodo)   \* the point that initiateRequest is looking at

\* The response thread has taken the entry of p and is not through with p.
HalfAnswered(p) == respPc \in {"clearAwait", "clearTx", "publish", "mark"} /\ resp.pt = p

Goto(pc) == reqPc' = pc /\ UNCHANGED <<reqTodo, reqPoll, reqSeen>>
NextPoint == /\ reqPc' = "point"
             /\ reqTodo' = Tail(reqTodo)
             /\ UNCHANGED <<reqPoll, reqSeen>>

ReqWait ==    \* sem_wait
  /\ reqPc = "wait" /\ reqSem > 0
  /\ reqSem' = reqSem - 1
  /\ Goto("pop")
  /\ UNCHANGED <<timerVars, reqQ, cutQVars, respQVars, pointVars, cutVars, respVars, stack, histVars>>

ReqPop ==     \* front() and pop(), with no test for an empty queue
  /\ reqPc = "pop"
  /\ reqTodo' = PointsOf[Head(reqQ).interval]
  /\ reqPoll' = Head(reqQ).poll
  /\ reqQ' = Tail(reqQ)
  /\ reqPc' = "point"
  /\ UNCHANGED <<timerVars, reqSem, reqSeen, cutQVars, respQVars, pointVars, cutVars, respVars, stack, histVars>>

ReqListDone ==
  /\ reqPc = "point" /\ reqTodo = <<>>
  /\ Goto("wait")
  /\ UNCHANGED <<timerVars, reqQVars, cutQVars, respQVars, pointVars, cutVars, respVars, stack, histVars>>

ReqAwaited == \* a response is awaited: the point gets a BAD response
  /\ reqPc = "point" /\ reqTodo # <<>> /\ await[reqPoint]
  /\ reported' = [reported EXCEPT ![reqPoint] = "none"]
  /\ reqSeen' = reqTx[reqPoint]
  /\ reqPc' = "dummyPost"
  /\ UNCHANGED <<reqTodo, reqPoll, resent, lost, overlap>>
  /\ UNCHANGED <<timerVars, reqQVars, cutQVars, respQVars, pointVars, cutVars, respVars, stack>>

ReqDummyPost ==
  /\ reqPc = "dummyPost"
  /\ PostDummy(reqPoint)
  /\ Goto("dummyMark")
  /\ UNCHANGED <<resent, lost, overlap>>
  /\ UNCHANGED <<timerVars, reqQVars, cutQVars, respQVars, pointVars, cutVars, respVars, stack>>

ReqDummyMark ==
  /\ reqPc = "dummyMark"
  /\ posted' = [posted EXCEPT ![reqPoint] = TRUE]
  /\ Goto("dummyCheck")
  /\ UNCHANGED <<txMap, await, reqTx, pollOf, retries, lastGood>>
  /\ UNCHANGED <<timerVars, reqQVars, cutQVars, respQVars, cutVars, respVars, stack, histVars>>

ReqDummyCheck ==  \* TxID 0 is the key of no point
  /\ reqPc = "dummyCheck"
  /\ await' = [await EXCEPT ![reqPoint] = @ /\ reqSeen /\ reqPoint \in txMap]
  /\ NextPoint
  /\ UNCHANGED <<txMap, posted, reqTx, pollOf, retries, lastGood>>
  /\ UNCHANGED <<timerVars, reqQVars, cutQVars, respQVars, cutVars, respVars, stack, histVars>>

\* Fault: no test for an awaited response.
ReqBeginUnchecked ==
  /\ reqPc = "point" /\ reqTodo # <<>>
  /\ pollOf' = [pollOf EXCEPT ![reqPoint] = reqPoll]
  /\ reqTx' = [reqTx EXCEPT ![reqPoint] = TRUE]
  /\ reported' = [reported EXCEPT ![reqPoint] = "none"]
  /\ overlap' = IF HalfAnswered(reqPoint) THEN overlap \cup {reqPoint} ELSE overlap
  /\ Goto("clearPosted")
  /\ UNCHANGED <<txMap, await, posted, retries, lastGood, resent, lost>>
  /\ UNCHANGED <<timerVars, reqQVars, cutQVars, respQVars, cutVars, respVars, stack>>

ReqBegin ==   \* first stores of setDataForNewReq
  /\ reqPc = "point" /\ reqTodo # <<>> /\ ~await[reqPoint]
  /\ pollOf' = [pollOf EXCEPT ![reqPoint] = reqPoll]
  /\ reqTx' = [reqTx EXCEPT ![reqPoint] = TRUE]
  /\ reported' = [reported EXCEPT ![reqPoint] = "none"]
  /\ overlap' = IF HalfAnswered(reqPoint) THEN overlap \cup {reqPoint} ELSE overlap
  /\ Goto("clearPosted")
  /\ UNCHANGED <<txMap, await, posted, retries, lastGood, resent, lost>>
  /\ UNCHANGED <<timerVars, reqQVars, cutQVars, respQVars, cutVars, respVars, stack>>

\* Fault: the flag of the previous poll is not reset.
ReqClearPostedNot ==
  /\ reqPc = "clearPosted"
  /\ Goto("setAwait")
  /\ UNCHANGED <<timerVars, reqQVars, cutQVars, respQVars, pointVars, cutVars, respVars, stack, histVars>>

ReqClearPosted ==
  /\ reqPc = "clearPosted"
  /\ posted' = [posted EXCEPT ![reqPoint] = FALSE]
  /\ Goto("setAwait")
  /\ UNCHANGED <<txMap, await, reqTx, pollOf, retries, lastGood>>
  /\ UNCHANGED <<timerVars, reqQVars, cutQVars, respQVars, cutVars, respVars, stack, histVars>>

ReqSetAwait ==
  /\ reqPc = "setAwait"
  /\ await' = [await EXCEPT ![reqPoint] = TRUE]
  /\ Goto("insert")
  /\ UNCHANGED <<txMap, posted, reqTx, pollOf, retries, lastGood>>
  /\ UNCHANGED <<timerVars, reqQVars, cutQVars, respQVars, cutVars, respVars, stack, histVars>>

ReqInsert ==  \* m_nRetry = a_nRetry; emplace leaves an entry that is there
  /\ reqPc = "insert"
  /\ retries' = [retries EXCEPT ![reqPoint] = MaxRetry]
  /\ resent' = [resent EXCEPT ![reqPoint] = 0]
  /\ txMap' = txMap \cup {reqPoint}
  /\ Goto("call")
  /\ UNCHANGED <<await, posted, reqTx, pollOf, lastGood, reported, lost, overlap>>
  /\ UNCHANGED <<timerVars, reqQVars, cutQVars, respQVars, cutVars, respVars, stack>>

ReqSent ==    \* Modbus_Stack_API_Call returns success
  /\ reqPc = "call"
  /\ stack' = stack \cup {[pt |-> reqPoint, poll |-> reqPoll]}
  /\ NextPoint
  /\ UNCHANGED <<timerVars, reqQVars, cutQVars, respQVars, pointVars, cutVars, respVars, histVars>>

ReqRefused == \* Modbus_Stack_API_Call returns an error
  /\ reqPc = "call"
  /\ Goto("failAwait")
  /\ UNCHANGED <<timerVars, reqQVars, cutQVars, respQVars, pointVars, cutVars, respVars, stack, histVars>>

ReqFailAwait ==
  /\ reqPc = "failAwait"
  /\ await' = [await EXCEPT ![reqPoint] = FALSE]
  /\ Goto("failPost")
  /\ UNCHANGED <<txMap, posted, reqTx, pollOf, retries, lastGood>>
  /\ UNCHANGED <<timerVars, reqQVars, cutQVars, respQVars, cutVars, respVars, stack, histVars>>

ReqFailPost ==
  /\ reqPc = "failPost"
  /\ PostDummy(reqPoint)
  /\ Goto("failMark")
  /\ UNCHANGED <<resent, lost, overlap>>
  /\ UNCHANGED <<timerVars, reqQVars, cutQVars, respQVars, pointVars, cutVars, respVars, stack>>

ReqFailMark ==
  /\ reqPc = "failMark"
  /\ posted' = [posted EXCEPT ![reqPoint] = TRUE]
  /\ Goto("failRemove")
  /\ UNCHANGED <<txMap, await, reqTx, pollOf, retries, lastGood>>
  /\ UNCHANGED <<timerVars, reqQVars, cutQVars, respQVars, cutVars, respVars, stack, histVars>>

ReqFailRemove ==
  /\ reqPc = "failRemove"
  /\ txMap' = txMap \ {reqPoint}
  /\ lost' = lost \ {reqPoint}
  /\ Goto("failTx")
  /\ UNCHANGED <<await, posted, reqTx, pollOf, retries, lastGood, reported, resent, overlap>>
  /\ UNCHANGED <<timerVars, reqQVars, cutQVars, respQVars, cutVars, respVars, stack>>

ReqFailTx ==
  /\ reqPc = "failTx"
  /\ reqTx' = [reqTx EXCEPT ![reqPoint] = FALSE]
  /\ NextPoint
  /\ UNCHANGED <<txMap, await, posted, pollOf, retries, lastGood>>
  /\ UNCHANGED <<timerVars, reqQVars, cutQVars, respQVars, cutVars, respVars, stack, histVars>>

ReqThread ==
  \/ ReqWait \/ ReqPop \/ ReqListDone
  \/ ReqAwaited \/ ReqDummyPost \/ ReqDummyMark \/ ReqDummyCheck
  \/ ReqBegin \/ ReqClearPosted \/ ReqSetAwait \/ ReqInsert \/ ReqSent
  \/ ReqRefused \/ ReqFailAwait \/ ReqFailPost \/ ReqFailMark \/ ReqFailRemove \/ ReqFailTx

-----------------------------------------------------------------------------
(* Cutoff thread: threadCheckCutoffRespInit.                               *)

cutPoint == Head(cutTodo)

CutWait ==
  /\ cutPc = "wait" /\ cutSem > 0
  /\ cutSem' = cutSem - 1
  /\ cutPc' = "pop"
  /\ UNCHANGED <<cutTodo, cutQ>>
  /\ UNCHANGED <<timerVars, reqQVars, respQVars, pointVars, reqVars, respVars, stack, histVars>>

CutPop ==
  /\ cutPc = "pop"
  /\ cutTodo' = PointsOf[Head(cutQ).interval]
  /\ cutQ' = Tail(cutQ)
  /\ cutPc' = "point"
  /\ UNCHANGED <<cutSem, timerVars, reqQVars, respQVars, pointVars, reqVars, respVars, stack, histVars>>

CutListDone ==
  /\ cutPc = "point" /\ cutTodo = <<>>
  /\ cutPc' = "wait"
  /\ UNCHANGED <<cutTodo, cutQVars, timerVars, reqQVars, respQVars, pointVars, reqVars, respVars, stack, histVars>>

CutSkip ==    \* "Response posted. No action in cutoff"
  /\ cutPc = "point" /\ cutTodo # <<>> /\ posted[cutPoint]
  /\ cutTodo' = Tail(cutTodo)
  /\ UNCHANGED <<cutPc, cutQVars, timerVars, reqQVars, respQVars, pointVars, reqVars, respVars, stack, histVars>>

CutLate ==
  /\ cutPc = "point" /\ cutTodo # <<>> /\ ~posted[cutPoint]
  /\ cutPc' = "post"
  /\ UNCHANGED <<cutTodo, cutQVars, timerVars, reqQVars, respQVars, pointVars, reqVars, respVars, stack, histVars>>

CutPost ==
  /\ cutPc = "post"
  /\ PostDummy(cutPoint)
  /\ cutPc' = "mark"
  /\ UNCHANGED <<resent, lost, overlap>>
  /\ UNCHANGED <<cutTodo, cutQVars, timerVars, reqQVars, respQVars, pointVars, reqVars, respVars, stack>>

\* Fault: the cutoff gives the request up and removes its TxID.
CutMarkRemove ==
  /\ cutPc = "mark"
  /\ posted' = [posted EXCEPT ![cutPoint] = TRUE]
  /\ txMap' = txMap \ {cutPoint}
  /\ cutTodo' = Tail(cutTodo)
  /\ cutPc' = "point"
  /\ UNCHANGED <<await, reqTx, pollOf, retries, lastGood>>
  /\ UNCHANGED <<cutQVars, timerVars, reqQVars, respQVars, reqVars, respVars, stack, histVars>>

CutMark ==
  /\ cutPc = "mark"
  /\ posted' = [posted EXCEPT ![cutPoint] = TRUE]
  /\ cutTodo' = Tail(cutTodo)
  /\ cutPc' = "point"
  /\ UNCHANGED <<txMap, await, reqTx, pollOf, retries, lastGood>>
  /\ UNCHANGED <<cutQVars, timerVars, reqQVars, respQVars, reqVars, respVars, stack, histVars>>

CutThread == CutWait \/ CutPop \/ CutListDone \/ CutSkip \/ CutLate \/ CutPost \/ CutMark

-----------------------------------------------------------------------------
(* The Modbus stack answers a request through readPeriodicCallBack:        *)
(* handleResponse builds the response and pushToQueue queues it.           *)

StackAnswer ==
  \E r \in stack, k \in Kind :
    /\ stack' = stack \ {r}
    /\ respQ' = Append(respQ, [pt |-> r.pt, poll |-> r.poll, kind |-> k])
    /\ respSem' = respSem + 1
    /\ UNCHANGED <<timerVars, reqQVars, cutQVars, pointVars, reqVars, cutVars, respVars, histVars>>

-----------------------------------------------------------------------------
(* Response thread: respProcessThreads, getDataToProcess, checkForRetry,   *)
(* postResponseJSON.                                                       *)

RespGoto(pc) == respPc' = pc /\ UNCHANGED <<resp, respBudget>>
RespOnly == UNCHANGED <<timerVars, reqQVars, cutQVars, reqVars, cutVars>>

RespWait ==
  /\ respPc = "wait" /\ respSem > 0
  /\ respSem' = respSem - 1
  /\ RespGoto("pop")
  /\ RespOnly /\ UNCHANGED <<respQ, pointVars, stack, histVars>>

RespPop ==
  /\ respPc = "pop"
  /\ resp' = Head(respQ)
  /\ respQ' = Tail(respQ)
  /\ respPc' = IF Head(respQ).kind = "timeout" THEN "retryPresent" ELSE "lookup"
  /\ RespOnly /\ UNCHANGED <<respSem, respBudget, pointVars, stack, histVars>>

\* The TxID is unknown: the response is dropped.  At "retryRef" and "lookup"
\* the map's at() throws and the exception is caught.
RespDrop ==
  /\ respPc \in {"retryPresent", "retryRef", "lookup"} /\ resp.pt \notin txMap
  /\ RespGoto("wait")
  /\ RespOnly /\ UNCHANGED <<respQVars, pointVars, stack, histVars>>

RespKnown ==
  /\ respPc \in {"retryPresent", "retryRef", "lookup"} /\ resp.pt \in txMap
  /\ \/ respPc = "retryPresent" /\ RespGoto("retryRef")
     \/ respPc = "retryRef" /\ RespGoto("retryBudget")
     \/ respPc = "lookup" /\ RespGoto("remove")
  /\ RespOnly /\ UNCHANGED <<respQVars, pointVars, stack, histVars>>

\* Fault: the test for retries left is off by one.
RespRetryBudgetOff ==
  /\ respPc = "retryBudget"
  /\ RespGoto(IF retries[resp.pt] >= 0 THEN "retryRead" ELSE "lookup")
  /\ RespOnly /\ UNCHANGED <<respQVars, pointVars, stack, histVars>>

\* Fault: checkForRetry does not return true when no retry is left.
RespRetryBudgetDrop ==
  /\ respPc = "retryBudget"
  /\ RespGoto(IF retries[resp.pt] > 0 THEN "retryRead" ELSE "wait")
  /\ RespOnly /\ UNCHANGED <<respQVars, pointVars, stack, histVars>>

\* m_nRetry is a plain int that the request thread writes too: it is read
\* by the test, and read again and stored by the decrement.
RespRetryBudget ==
  /\ respPc = "retryBudget"
  /\ RespGoto(IF retries[resp.pt] > 0 THEN "retryRead" ELSE "lookup")
  /\ RespOnly /\ UNCHANGED <<respQVars, pointVars, stack, histVars>>

RespRetryRead ==
  /\ respPc = "retryRead"
  /\ respBudget' = retries[resp.pt]
  /\ respPc' = "retryStore"
  /\ UNCHANGED resp
  /\ RespOnly /\ UNCHANGED <<respQVars, pointVars, stack, histVars>>

RespRetryStore ==
  /\ respPc = "retryStore"
  /\ retries' = [retries EXCEPT ![resp.pt] = respBudget - 1]
  /\ RespGoto("resend")
  /\ UNCHANGED <<txMap, await, posted, reqTx, pollOf, lastGood>>
  /\ RespOnly /\ UNCHANGED <<respQVars, stack, histVars>>

RespResent ==
  /\ respPc = "resend"
  /\ stack' = stack \cup {[pt |-> resp.pt, poll |-> resp.poll]}
  /\ resent' = [resent EXCEPT ![resp.pt] = @ + 1]
  /\ RespGoto("wait")
  /\ UNCHANGED <<reported, lost, overlap>>
  /\ RespOnly /\ UNCHANGED <<respQVars, pointVars>>

RespResendRefused == \* the error is logged; entry and await flag stay
  /\ respPc = "resend" /\ ResendRefused
  /\ lost' = lost \cup {resp.pt}
  /\ RespGoto("wait")
  /\ UNCHANGED <<reported, resent, overlap>>
  /\ RespOnly /\ UNCHANGED <<respQVars, pointVars, stack>>

RespRemove ==
  /\ respPc = "remove"
  /\ txMap' = txMap \ {resp.pt}
  /\ lost' = lost \ {resp.pt}
  /\ RespGoto("clearAwait")
  /\ UNCHANGED <<await, posted, reqTx, pollOf, retries, lastGood, reported, resent, overlap>>
  /\ RespOnly /\ UNCHANGED <<respQVars, stack>>

\* Fault: the await flag is not reset by the response.
RespClearAwaitNot ==
  /\ respPc = "clearAwait"
  /\ RespGoto("clearTx")
  /\ RespOnly /\ UNCHANGED <<respQVars, pointVars, stack, histVars>>

RespClearAwait ==
  /\ respPc = "clearAwait"
  /\ await' = [await EXCEPT ![resp.pt] = FALSE]
  /\ RespGoto("clearTx")
  /\ UNCHANGED <<txMap, posted, reqTx, pollOf, retries, lastGood>>
  /\ RespOnly /\ UNCHANGED <<respQVars, stack, histVars>>

RespClearTx ==
  /\ respPc = "clearTx"
  /\ reqTx' = [reqTx EXCEPT ![resp.pt] = FALSE]
  /\ RespGoto("publish")
  /\ UNCHANGED <<txMap, await, posted, pollOf, retries, lastGood>>
  /\ RespOnly /\ UNCHANGED <<respQVars, stack, histVars>>

\* A good answer may still be without data; a value is kept as last good
\* response if the bus took it.
RespPublish ==
  /\ respPc = "publish"
  /\ \/ Post(resp.pt, "failed") /\ UNCHANGED lastGood
     \/ Post(resp.pt, "sent") /\ UNCHANGED lastGood
     \/ /\ resp.kind = "good"
        /\ Post(resp.pt, "sent")
        /\ lastGood' = [lastGood EXCEPT ![resp.pt] = resp.poll]
  /\ RespGoto("mark")
  /\ UNCHANGED <<txMap, await, posted, reqTx, pollOf, retries, resent, lost, overlap>>
  /\ RespOnly /\ UNCHANGED <<respQVars, stack>>

\* Fault: the flag is set although there is no response.
RespUnpreparedMarked ==
  /\ respPc = "publish"
  /\ RespGoto("mark")
  /\ RespOnly /\ UNCHANGED <<respQVars, pointVars, stack, histVars>>

\* prepareResponseJson fails: the flag is left alone, for the cutoff to see.
RespUnprepared ==
  /\ respPc = "publish"
  /\ RespGoto("wait")
  /\ RespOnly /\ UNCHANGED <<respQVars, pointVars, stack, histVars>>

RespMark ==
  /\ respPc = "mark"
  /\ posted' = [posted EXCEPT ![resp.pt] = TRUE]
  /\ RespGoto("wait")
  /\ UNCHANGED <<txMap, await, reqTx, pollOf, retries, lastGood>>
  /\ RespOnly /\ UNCHANGED <<respQVars, stack, histVars>>

RespThread ==
  \/ RespWait \/ RespPop \/ RespDrop \/ RespKnown
  \/ RespRetryBudget \/ RespRetryRead \/ RespRetryStore \/ RespResent \/ RespResendRefused
  \/ RespRemove \/ RespClearAwait \/ RespClearTx
  \/ RespPublish \/ RespUnprepared \/ RespMark

-----------------------------------------------------------------------------
\* MaxPolls polls have been issued and served: nothing is left to do.
Rest ==
  /\ \A i \in Intervals : polls[i] = MaxPolls /\ ~cutoffDue[i]
  /\ reqPc = "wait" /\ reqSem = 0 /\ cutPc = "wait" /\ cutSem = 0
  /\ respPc = "wait" /\ respSem = 0 /\ stack = {}
  /\ UNCHANGED vars

Timer == \E i \in Intervals : TimerPoll(i) \/ TimerCutoff(i)

Next == Timer \/ ReqThread \/ CutThread \/ StackAnswer \/ RespThread \/ Rest

Spec == Init /\ [][Next]_vars

\* The threads are never blocked but on their semaphores, and the stack
\* answers, with a timeout error if need be, every request it has accepted.
Fairness == /\ WF_vars(ReqThread) /\ WF_vars(CutThread) /\ WF_vars(RespThread)
            /\ WF_vars(StackAnswer)

FairSpec == Spec /\ Fairness /\ \A i \in Intervals : WF_vars(TimerPoll(i) \/ TimerCutoff(i))

-----------------------------------------------------------------------------
(* Safety *)

\* A queue has one element for every post of its semaphore, and one more
\* while its consumer is between sem_wait and pop.
ReqSemCounts  == Len(reqQ) = reqSem + (IF reqPc = "pop" THEN 1 ELSE 0)
CutSemCounts  == Len(cutQ) = cutSem + (IF cutPc = "pop" THEN 1 ELSE 0)
RespSemCounts == Len(respQ) = respSem + (IF respPc = "pop" THEN 1 ELSE 0)

\* getFreqRefForPollCycle reads front() without a test for an empty queue: it
\* is defined because the semaphores never count more than the queues hold.
SemaphoreCountsQueue == ReqSemCounts /\ CutSemCounts /\ RespSemCounts

\* The response thread holds a response for p that will reach or drop p's entry.
RespHolds(p) ==
  /\ respPc \in {"retryPresent", "retryRef", "retryBudget", "retryRead",
                "retryStore", "resend", "lookup", "remove"}
  /\ resp.pt = p
\* A response for p is on its way: with the stack, queued, or in hand.
InStack(p)  == \E r \in stack : r.pt = p
InQueue(p)  == \E k \in 1..Len(respQ) : respQ[k].pt = p
InFlight(p) == InStack(p) \/ InQueue(p) \/ RespHolds(p)
\* The request thread has inserted p's entry and is to send or to remove it.
Sending(p) ==
  reqPc \in {"call", "failAwait", "failPost", "failMark", "failRemove"} /\ reqPoint = p
Backed(p) == InFlight(p) \/ Sending(p) \/ p \in lost

\* An entry of the TxID map never outlives the responses that would remove
\* it, except for a resubmission that the stack refuses (checkForRetry only
\* logs the error): nothing else can leave a point waiting for ever.
TxIdBacked == \A p \in txMap : Backed(p)

\* A point that awaits a response has an entry in the TxID map, but for the
\* moment before the insertion and the moment after the removal.
HasEntry(p) ==
  \/ p \in txMap
  \/ reqPc = "insert" /\ reqPoint = p
  \/ respPc = "clearAwait" /\ resp.pt = p
AwaitBacked == \A p \in Points : await[p] => HasEntry(p)

\* The request thread resets the flag before it removes the entry of a request
\* that the stack refused; with it, AwaitBacked is inductive.
RefusedNotAwaited ==
  reqPc \in {"failPost", "failMark", "failRemove"} => ~await[reqPoint]

\* Without an overlap (see HalfAnswered), the answer of the stack is never
\* dropped for want of an entry, however late it comes: neither the cutoff nor
\* the dummy response of a later poll takes the entry away from it.
NoResponseDropped ==
  respPc \in {"retryPresent", "retryRef", "lookup"}
    => resp.pt \in txMap \/ resp.pt \in overlap

\* At its cutoff, a poll that is passed over ("Response posted") has been
\* reported, or a message for it did not get out, unless the poll began while an
\* earlier response of its point was half done.
SilentOnlyIfOverlap ==
  (cutPc = "point" /\ cutTodo # <<>> /\ posted[cutPoint])
    => reported[cutPoint] # "none" \/ cutPoint \in overlap

\* Without such an overlap, a request is never sent while an earlier
\* request of the point is still to be answered.
NoSecondRequest ==
  \A p \in Points : (reqPc = "call" /\ reqPoint = p) => ~InFlight(p) \/ p \in overlap

\* Without such an overlap, a request is resubmitted MaxRetry times at most.
RetriesBounded == \A p \in Points : resent[p] <= MaxRetry \/ p \in overlap

\* Without such an overlap, a response is published under the polling time of
\* the poll it answers (getTimestampOfPollReq), however late it comes.
OwnPollTime ==
  respPc \in {"clearAwait", "clearTx", "publish"}
    => pollOf[resp.pt] = resp.poll \/ resp.pt \in overlap

\* A late or repeated answer is handled as its own poll's, or an overlap has
\* happened (respProcessThreads against the request and cutoff threads).
LateAnswers == NoResponseDropped /\ OwnPollTime /\ RetriesBounded

\* The value kept as the last good response is never replaced by that of an
\* earlier poll, as a late response would do.
LastGoodAdvances ==
  [][\A p \in Points : lastGood'[p] >= lastGood[p] \/ p \in overlap]_vars

(* What comments of PeriodicRead.cpp say *)

\* Violated.  "Response posted. No action in cutoff": at its cutoff, a poll
\* that is passed over has been reported.
CutoffReportsPoll ==
  (cutPc = "point" /\ cutTodo # <<>> /\ posted[cutPoint]) => reported[cutPoint] = "sent"

\* Violated.  "Check if a response is already awaited": no request is sent while a
\* response of the point is awaited.
NoRequestWhileAwaited ==
  \A p \in Points : (reqPc = "call" /\ reqPoint = p) => ~InFlight(p)

(* Liveness *)

\* Every request begun without an overlap leads to a message for the consumers
\* of the point (the response, an error or a dummy BAD response), even if its
\* answer is lost by a refused resubmission or cannot be made a response.  Only
\* the message itself may fail to get out: nothing repeats it then.
PollReported ==
  \A p \in Points :
    (reqPc = "clearPosted" /\ reqPoint = p) ~> (reported[p] # "none" \/ p \in overlap)

\* A point does not wait for a response for ever, unless the stack refused the
\* resubmission of its request: checkForRetry only logs that, and no answer comes.
AwaitEnds == \A p \in Points : await[p] ~> (~await[p] \/ p \in lost)
=============================================================================
