------------------------------ MODULE ControlLoop -------------------------------
(***************************************************************************)
(* The control loops of kpi-tactic: a poll of a point starts a write for   *)
(* every loop on that point, and the response to the write is analysed     *)
(* together with the poll.                                                 *)
(*                                                                         *)
(* Threads: postMsgsToWriteOnMQTT hands polls to the loops; one            *)
(* threadPollMonitoring per loop tracks a poll and asks for its write;     *)
(* threadWriteReq publishes the writes; analyzeControlLoopData matches the *)
(* responses; threadAnalysisMsg logs; main stops them all.  Tracked polls  *)
(* are the only state that these threads contend for: whoever takes an     *)
(* entry out of the map (getForProcessing) has to report its poll.         *)
(***************************************************************************)
EXTENDS Naturals, Sequences

CONSTANTS
  Loops,     \* the control loops
  Points,    \* the polled points
  PointOf,   \* the polled point of a loop
  Kinds,     \* bound: poll messages that are "good", "bad" or lack a driver_seq ("noSeq")
  Limited,   \* whether timeToRun_Minutes limits the execution
  MaxPolls,  \* bound: poll messages
  MaxResp    \* bound: responses that wait in WriteRespMsgQ

ASSUME LoopAssumption ==
  /\ PointOf \in [Loops -> Points]
  /\ Loops # {}
  /\ Kinds \subseteq {"good", "bad", "noSeq"} /\ Limited \in BOOLEAN
  /\ MaxPolls \in Nat /\ MaxResp \in Nat

VARIABLES
  polls,          \* external: the poll messages that were delivered
  pollQ, pollSem, \* PollMsgQ and its semaphore: indices of polls
  respQ, respSem, \* WriteRespMsgQ
  loopQ, loopSem, \* m_q of a loop
  trigPc, respPc, \* postMsgsToWriteOnMQTT, analyzeControlLoopData
  pc, cur, last,  \* threadPollMonitoring: the poll at hand, sLastWrSeqVal (0: empty)
  tracked,        \* CMapOfReqMapper
  wrQ, wrHand,    \* m_qWrOpData; the write that failed and is not yet reported
  written,        \* external: the writes published for a loop, in order
  anaQ, logged,   \* m_qAnalysisMsg, and what was logged
  mainPc          \* main; g_stopThread is set from "breakLoops" on

pollVars == <<pollQ, pollSem, trigPc>>
respVars == <<respQ, respSem, respPc>>
loopVars == <<loopQ, loopSem, pc, cur, last>>
wrVars   == <<wrQ, wrHand, written>>
anaVars  == <<anaQ, logged>>
vars == <<polls, pollVars, respVars, loopVars, tracked, wrVars, anaVars, mainPc>>

Uids == 1..MaxPolls
\* seq is the driver_seq of the message, 0 if it has none.  The broker may
\* deliver a message again: two polls then have the same seq.
Poll == [point : Points, seq : 0..MaxPolls, kind : Kinds]
\* An entry's key is made of seq and loop; poll is its data.
Tracked == [loop : Loops, seq : 1..MaxPolls, poll : Uids]
\* for: the poll whose write is answered, 0 for that of another application.
Response == [loop : Loops, seq : 0..MaxPolls, for : 0..MaxPolls]
WriteOp == [loop : Loops, seq : 1..MaxPolls, poll : Uids]
Errors == {"WrRespNotRcvd", "WrReqNotSent", "WrReqInitFailed"}
\* for: the poll whose write the response is to, or that of the dummy message.
Analysis == [loop : Loops, poll : Uids, resp : Errors \cup {"response"}, for : 0..MaxPolls]

Stopped == mainPc # "run"
\* Threads test g_stopThread at the head of their loop, once more before sem_wait.
Again == IF Stopped THEN "done" ELSE "wait"
Nobody == [loop |-> CHOOSE l \in Loops : TRUE, seq |-> 0, poll |-> 0]

PollTypes ==
  /\ polls \in Seq(Poll) /\ Len(polls) <= MaxPolls
  /\ pollQ \in Seq(Uids) /\ pollSem \in Nat /\ trigPc \in {"wait", "done"}
RespTypes == respQ \in Seq(Response) /\ respSem \in Nat /\ respPc \in {"wait", "done"}
LoopTypes ==
  /\ loopQ \in [Loops -> Seq(Uids)] /\ loopSem \in [Loops -> Nat]
  /\ pc \in [Loops -> {"wait", "take", "decide", "track", "push", "done"}]
  /\ cur \in [Loops -> 0..MaxPolls] /\ last \in [Loops -> 0..MaxPolls]
CurTypes == \A l \in Loops : pc[l] \notin {"wait", "done"} => cur[l] \in DOMAIN polls
WriteTypes == /\ wrQ \in Seq(WriteOp) /\ wrHand \in WriteOp \cup {Nobody}
              /\ written \in [Loops -> Seq(WriteOp)]
ReportTypes == tracked \subseteq Tracked /\ anaQ \in Seq(Analysis) /\ logged \subseteq Analysis

TypeOK ==
  /\ PollTypes /\ RespTypes /\ LoopTypes /\ CurTypes /\ WriteTypes /\ ReportTypes
  /\ mainPc \in {"run", "breakLoops", "breakPoll", "breakResp", "join", "exit"}

Init ==
  /\ polls = <<>>
  /\ pollQ = <<>> /\ pollSem = 0 /\ trigPc = "wait"
  /\ respQ = <<>> /\ respSem = 0 /\ respPc = "wait"
  /\ loopQ = [l \in Loops |-> <<>>] /\ loopSem = [l \in Loops |-> 0]
  /\ pc = [l \in Loops |-> "wait"]
  /\ cur = [l \in Loops |-> 0] /\ last = [l \in Loops |-> 0]
  /\ tracked = {}
  /\ wrQ = <<>> /\ wrHand = Nobody /\ written = [l \in Loops |-> <<>>]
  /\ anaQ = <<>> /\ logged = {}
  /\ mainPc = "run"

-----------------------------------------------------------------------------
(* The map of tracked polls: each operation holds its mutex. *)

\* getForProcessing removes what it returns.
Remove(e) == tracked' = tracked \ {e}

\* insertForTracking: std::map::insert keeps an older entry with the same key.
InsertForTracking(e) ==
  tracked' = IF \E t \in tracked : t.loop = e.loop /\ t.seq = e.seq
             THEN tracked ELSE tracked \cup {e}

\* Fault: the number of the write is not compared.
KeyOfLoop(l, s) == {t \in tracked : t.loop = l}

Key(l, s) == {t \in tracked : t.loop = l /\ t.seq = s}

Analyse(l, p, resp, for) ==
  anaQ' = Append(anaQ, [loop |-> l, poll |-> p, resp |-> resp, for |-> for])

\* Fault: the entry is removed and its poll not reported.
TakeSilently(l, s, error) == tracked' = tracked \ Key(l, s) /\ UNCHANGED anaQ

\* postDummyAnalysisMsg(seq, error): only who gets the entry reports its poll.
PostDummy(l, s, error) ==
  \/ \E t \in Key(l, s) : Remove(t) /\ Analyse(l, t.poll, error, t.poll)
  \/ Key(l, s) = {} /\ UNCHANGED <<tracked, anaQ>>

-----------------------------------------------------------------------------
(* Messages arrive: pushMsgInQ, or processMsg of CEIIPlBusHandler. *)

\* External: a poll of a point, new or delivered again; a message may lack
\* driver_seq.
PollArrives ==
  /\ mainPc # "exit" /\ Len(polls) < MaxPolls
  /\ \E p \in Points, k \in Kinds :
       LET new == [point |-> p, kind |-> k,
                   seq |-> IF k = "noSeq" THEN 0 ELSE Len(polls) + 1] IN
       \E m \in {new} \cup {polls[i] : i \in DOMAIN polls} : polls' = Append(polls, m)
  /\ pollQ' = Append(pollQ, Len(polls'))
  /\ pollSem' = pollSem + 1
  /\ UNCHANGED <<trigPc, respVars, loopVars, tracked, wrVars, anaVars, mainPc>>

\* External: an answer to a write, late or more than once, or to the write of
\* another application.
ResponseArrives ==
  /\ mainPc # "exit" /\ Len(respQ) < MaxResp
  /\ \E l \in Loops :
       \/ \E i \in DOMAIN written[l] :
            respQ' = Append(respQ, [loop |-> l, seq |-> written[l][i].seq,
                                    for |-> written[l][i].poll])
       \/ respQ' = Append(respQ, [loop |-> l, seq |-> 0, for |-> 0])
  /\ respSem' = respSem + 1
  /\ UNCHANGED <<polls, pollVars, respPc, loopVars, tracked, wrVars, anaVars, mainPc>>

-----------------------------------------------------------------------------
(* postMsgsToWriteOnMQTT *)

\* m_oControlLoopMap
Triggered(p) == {l \in Loops : PointOf[l] = p}

\* isMsgArrived and triggerControlLoops.  breakWaitOnQ posts the semaphore without
\* a message.
Trigger ==
  /\ mainPc # "exit" /\ trigPc = "wait" /\ pollSem > 0
  /\ pollSem' = pollSem - 1
  /\ trigPc' = Again
  /\ IF pollQ = <<>>
     THEN UNCHANGED <<pollQ, loopQ, loopSem>>
     ELSE LET to == Triggered(polls[Head(pollQ)].point) IN
          /\ pollQ' = Tail(pollQ)
          /\ loopQ' = [l \in Loops |-> IF l \in to THEN Append(loopQ[l], Head(pollQ))
                                       ELSE loopQ[l]]
          /\ loopSem' = [l \in Loops |-> IF l \in to THEN loopSem[l] + 1 ELSE loopSem[l]]
  /\ UNCHANGED <<polls, respVars, pc, cur, last, tracked, wrVars, anaVars, mainPc>>

-----------------------------------------------------------------------------
(* threadPollMonitoring *)

Goto(l, s) == pc' = [pc EXCEPT ![l] = s]

\* isMsgArrived, then isPresent: has the write of the last poll been answered?
LoopReceive(l) ==
  /\ mainPc # "exit" /\ pc[l] = "wait" /\ loopSem[l] > 0
  /\ loopSem' = [loopSem EXCEPT ![l] = @ - 1]
  /\ IF loopQ[l] = <<>>
     THEN Goto(l, Again) /\ UNCHANGED <<loopQ, cur>>
     ELSE /\ Goto(l, IF Key(l, last[l]) # {} THEN "take" ELSE "decide")
          /\ cur' = [cur EXCEPT ![l] = Head(loopQ[l])]
          /\ loopQ' = [loopQ EXCEPT ![l] = Tail(@)]
  /\ UNCHANGED <<polls, pollVars, respVars, last, tracked, wrVars, anaVars, mainPc>>

\* The answer may have come in the meantime.
LoopTake(l) ==
  /\ mainPc # "exit" /\ pc[l] = "take"
  /\ Goto(l, "decide")
  /\ PostDummy(l, last[l], "WrRespNotRcvd")
  /\ UNCHANGED <<polls, pollVars, respVars, loopQ, loopSem, cur, last, wrVars, logged, mainPc>>

\* Fault: a poll without driver_seq counts as a good one.
KindUnnumbered(m) == IF m.kind = "bad" THEN "bad" ELSE "good"

\* Whether driver_seq is there and what status says.
KindOf(m) == m.kind

\* A message without driver_seq is ignored, a bad poll starts no write.
LoopDecide(l) ==
  /\ mainPc # "exit" /\ pc[l] = "decide"
  /\ last' = [last EXCEPT ![l] = 0]
  /\ \/ /\ KindOf(polls[cur[l]]) = "noSeq"
        /\ Goto(l, Again) /\ UNCHANGED anaQ
     \/ /\ KindOf(polls[cur[l]]) = "bad"
        /\ Goto(l, Again) /\ Analyse(l, cur[l], "WrReqNotSent", cur[l])
     \/ /\ KindOf(polls[cur[l]]) = "good"
        /\ Goto(l, "track") /\ UNCHANGED anaQ
  /\ UNCHANGED <<polls, pollVars, respVars, loopQ, loopSem, cur, tracked, wrVars, logged, mainPc>>

\* publishWriteReq of the mapper, after the configured delay: first the entry ...
LoopTrack(l) ==
  /\ mainPc # "exit" /\ pc[l] = "track"
  /\ Goto(l, "push")
  /\ InsertForTracking([loop |-> l, seq |-> polls[cur[l]].seq, poll |-> cur[l]])
  /\ UNCHANGED <<polls, pollVars, respVars, loopQ, loopSem, cur, last, wrVars, anaVars, mainPc>>

\* Fault: the last sequence number is not kept.
NoLast(l) == UNCHANGED last

SetLast(l) == last' = [last EXCEPT ![l] = polls[cur[l]].seq]

\* ... then the write.
LoopPush(l) ==
  /\ mainPc # "exit" /\ pc[l] = "push"
  /\ Goto(l, Again)
  /\ wrQ' = Append(wrQ, [loop |-> l, seq |-> polls[cur[l]].seq, poll |-> cur[l]])
  /\ SetLast(l)
  /\ UNCHANGED <<polls, pollVars, respVars, loopQ, loopSem, cur, tracked, wrHand, written,
                 anaVars, mainPc>>

Monitor(l) == LoopReceive(l) \/ LoopTake(l)
              \/ LoopDecide(l) \/ LoopTrack(l) \/ LoopPush(l)

-----------------------------------------------------------------------------
(* threadWriteReq, without UWC_HIGH_PERFORMANCE_PROCESSOR a single thread. *)

\* Fault: the newest write first.
PopNewest == /\ wrQ' = SubSeq(wrQ, 1, Len(wrQ) - 1)
             /\ \/ written' = [written EXCEPT ![wrQ[Len(wrQ)].loop] = Append(@, wrQ[Len(wrQ)])]
                   /\ UNCHANGED wrHand
                \/ wrHand' = wrQ[Len(wrQ)] /\ UNCHANGED written

\* The write is published, or publishing fails.
PopAndPublish ==
  LET w == Head(wrQ) IN
  /\ wrQ' = Tail(wrQ)
  /\ \/ written' = [written EXCEPT ![w.loop] = Append(@, w)] /\ UNCHANGED wrHand
     \/ wrHand' = w /\ UNCHANGED written

\* After g_stopThread the write is dropped.
PublishWrite ==
  /\ mainPc # "exit" /\ wrHand = Nobody /\ wrQ # <<>>
  /\ IF Stopped THEN wrQ' = Tail(wrQ) /\ UNCHANGED <<wrHand, written>>
     ELSE PopAndPublish
  /\ UNCHANGED <<polls, pollVars, respVars, loopVars, tracked, anaVars, mainPc>>

WriteFailed ==
  /\ mainPc # "exit" /\ wrHand # Nobody
  /\ wrHand' = Nobody
  /\ PostDummy(wrHand.loop, wrHand.seq, "WrReqInitFailed")
  /\ UNCHANGED <<polls, pollVars, respVars, loopVars, wrQ, written, logged, mainPc>>

-----------------------------------------------------------------------------
(* analyzeControlLoopData and threadAnalysisMsg *)

\* A response that nobody waits for is dropped.
RespReceive ==
  /\ mainPc # "exit" /\ respPc = "wait" /\ respSem > 0
  /\ respSem' = respSem - 1
  /\ respPc' = Again
  /\ IF respQ = <<>> THEN UNCHANGED <<respQ, tracked, anaQ>>
     ELSE LET r == Head(respQ) IN
          /\ respQ' = Tail(respQ)
          /\ \/ \E t \in Key(r.loop, r.seq) :
                  Remove(t) /\ Analyse(r.loop, t.poll, "response", r.for)
             \/ Key(r.loop, r.seq) = {} /\ UNCHANGED <<tracked, anaQ>>
  /\ UNCHANGED <<polls, pollVars, loopVars, wrVars, logged, mainPc>>

\* After g_stopThread the message is dropped.
LogAnalysis ==
  /\ mainPc # "exit" /\ anaQ # <<>>
  /\ anaQ' = Tail(anaQ)
  /\ logged' = IF Stopped THEN logged ELSE logged \cup {Head(anaQ)}
  /\ UNCHANGED <<polls, pollVars, respVars, loopVars, tracked, wrVars, mainPc>>

-----------------------------------------------------------------------------
(* main, when the execution time is over; the threads of the loops, of the  *)
(* writes and of the log are detached, the two others joined.               *)

SetStop ==
  /\ Limited /\ mainPc = "run" /\ mainPc' = "breakLoops"
  /\ UNCHANGED <<polls, pollVars, respVars, loopVars, tracked, wrVars, anaVars>>

\* stopControlLoopOps
BreakLoops ==
  /\ mainPc = "breakLoops" /\ mainPc' = "breakPoll"
  /\ loopSem' = [l \in Loops |-> loopSem[l] + 1]
  /\ UNCHANGED <<polls, pollVars, respVars, loopQ, pc, cur, last, tracked, wrVars, anaVars>>

\* Fault: breakWaitOnQ wakes nobody.
NoPost(sem) == sem

\* sem_post of breakWaitOnQ
Post(sem) == sem + 1

BreakPoll ==
  /\ mainPc = "breakPoll" /\ mainPc' = "breakResp"
  /\ pollSem' = Post(pollSem)
  /\ UNCHANGED <<polls, pollQ, trigPc, respVars, loopVars, tracked, wrVars, anaVars>>

BreakResp ==
  /\ mainPc = "breakResp" /\ mainPc' = "join"
  /\ respSem' = Post(respSem)
  /\ UNCHANGED <<polls, pollVars, respQ, respPc, loopVars, tracked, wrVars, anaVars>>

Join ==
  /\ mainPc = "join" /\ trigPc = "done" /\ respPc = "done" /\ mainPc' = "exit"
  /\ UNCHANGED <<polls, pollVars, respVars, loopVars, tracked, wrVars, anaVars>>

MainStops == BreakLoops \/ BreakPoll \/ BreakResp \/ Join

Next ==
  \/ PollArrives \/ ResponseArrives \/ Trigger
  \/ \E l \in Loops : Monitor(l)
  \/ PublishWrite \/ WriteFailed
  \/ RespReceive \/ LogAnalysis
  \/ SetStop \/ MainStops

Spec == Init /\ [][Next]_vars

\* Every thread runs; nothing makes messages arrive or the time run out.
FairSpec ==
  /\ Spec
  /\ WF_vars(Trigger)
  /\ \A l \in Loops : WF_vars(Monitor(l))
  /\ WF_vars(PublishWrite \/ WriteFailed)
  /\ WF_vars(RespReceive)
  /\ WF_vars(LogAnalysis)
  /\ WF_vars(MainStops)

-----------------------------------------------------------------------------
(* Correctness. *)

\* Where the report on a poll of a loop is: the queue of the log or the log.
Reports(l, u) == {a \in logged : a.loop = l /\ a.poll = u}
Waiting(l, u) == {i \in DOMAIN anaQ : anaQ[i].loop = l /\ anaQ[i].poll = u}
IsTracked(l, u) == \E t \in tracked : t.loop = l /\ t.poll = u

\* A poll is analysed at most once: of the thread that gives up on the response,
\* the one that gets it and the one that could not publish the write, one takes
\* the entry (postDummyAnalysisMsg, analyzeControlLoopData, threadWriteReq).
AnalysedOnce ==
  \A l \in Loops, u \in Uids :
    /\ \A i, j \in Waiting(l, u) : i = j
    /\ \A a, b \in Reports(l, u) : a = b
    /\ Waiting(l, u) # {} => Reports(l, u) = {}
    /\ IsTracked(l, u) => Waiting(l, u) = {} /\ Reports(l, u) = {}

\* A response is analysed with the poll that its write was for, unless two polls
\* had the same driver_seq (a message that was delivered again).
OwnResponse ==
  \A a \in logged :
    \/ a.for = a.poll
    \/ \E i, j \in DOMAIN polls : i # j /\ polls[i] = polls[j] /\ i \in {a.poll, a.for}

\* A poll has one report at most, and a report the response to its own write.
ReportsAreRight == AnalysedOnce /\ OwnResponse

\* The map does not grow: a loop has one entry at most, that of its last write or
\* of the write that it is about to ask for (threadPollMonitoring).
OneTracked ==
  \A t \in tracked :
    /\ \A o \in tracked : o.loop = t.loop => o = t
    /\ IF pc[t.loop] = "push" THEN t.poll = cur[t.loop]
       ELSE t.seq = last[t.loop] /\ pc[t.loop] # "track"

\* The writes of a loop are published in the order of its polls (m_qWrOpData with
\* its single reader).
WritesInOrder ==
  \A l \in Loops : \A i, j \in DOMAIN written[l] : i < j => written[l][i].poll < written[l][j].poll

\* Every poll of a loop that another one follows is analysed, whatever becomes of
\* its write, unless the application stops.
EveryPollAnalysed ==
  \A l \in Loops, u \in 1..(MaxPolls - 1) :
    (/\ u + 1 \in DOMAIN polls /\ polls[u].kind # "noSeq"
     /\ polls[u].point = PointOf[l] /\ polls[u + 1].point = PointOf[l])
      ~> (Reports(l, u) # {} \/ Stopped)

\* When its time is over the application ends: no thread stays in sem_wait
\* (main, breakWaitOnQ).
StopEnds == Stopped ~> mainPc = "exit"
=============================================================================
