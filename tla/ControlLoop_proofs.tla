--------------------------- MODULE ControlLoop_proofs ---------------------------
(***************************************************************************)
(* Theorems about ControlLoop, for any loops, points, number of polls and  *)
(* of responses.                                                           *)
(***************************************************************************)
EXTENDS ControlLoop, TLAPS

-----------------------------------------------------------------------------
(* Queues *)

\* A message is put in at the end, and the others stay where they are.
LEMMA AppendFacts ==
  ASSUME NEW S, NEW s \in Seq(S), NEW e \in S
  PROVE  /\ Append(s, e) \in Seq(S)
         /\ Len(Append(s, e)) = Len(s) + 1
         /\ DOMAIN Append(s, e) = 1..(Len(s) + 1) /\ DOMAIN s = 1..Len(s) /\ Len(s) \in Nat
         /\ \A i \in 1..Len(s) : Append(s, e)[i] = s[i]
         /\ Append(s, e)[Len(s) + 1] = e
  OBVIOUS

\* The first one is taken out, and the others move up.
LEMMA TailFacts ==
  ASSUME NEW S, NEW s \in Seq(S), s # <<>>
  PROVE  /\ Head(s) \in S /\ Head(s) = s[1]
         /\ Tail(s) \in Seq(S)
         /\ Len(s) \in Nat \ {0} /\ DOMAIN s = 1..Len(s)
         /\ Len(Tail(s)) = Len(s) - 1 /\ DOMAIN Tail(s) = 1..(Len(s) - 1)
         /\ \A i \in 1..(Len(s) - 1) : Tail(s)[i] = s[i + 1]
  OBVIOUS

-----------------------------------------------------------------------------
(* Type correctness.  The monitors read polls[cur[l]]: TypeOK is inductive *)
(* only if whatever waits in a queue is a poll that has arrived, and what  *)
(* is tracked and written has a driver_seq.                                *)

SeqKnown   == \A i \in DOMAIN polls : polls[i].kind # "noSeq" => polls[i].seq # 0
SeqSmall   == \A i \in DOMAIN polls : polls[i].seq <= i
PollQKnown == \A i \in DOMAIN pollQ : pollQ[i] \in DOMAIN polls
LoopQKnown == \A l \in Loops : \A i \in DOMAIN loopQ[l] : loopQ[l][i] \in DOMAIN polls
CurGood    == \A l \in Loops : pc[l] \in {"track", "push"} => polls[cur[l]].kind = "good"

TInv == TypeOK /\ SeqKnown /\ SeqSmall /\ PollQKnown /\ LoopQKnown /\ CurGood

\* The queues start empty, the threads waiting.
LEMMA InitTInv == Init => TInv
<1> SUFFICES ASSUME Init PROVE TInv
  OBVIOUS
<1>1. PollTypes /\ RespTypes /\ LoopTypes /\ CurTypes
  BY LoopAssumption DEF Init, PollTypes, RespTypes, LoopTypes, CurTypes
<1>2. WriteTypes /\ ReportTypes
  BY DEF Init, WriteTypes, ReportTypes
<1>3. TypeOK
  BY <1>1, <1>2 DEF Init, TypeOK
<1>4. SeqKnown /\ SeqSmall /\ PollQKnown /\ LoopQKnown /\ CurGood
  BY DEF Init, SeqKnown, SeqSmall, PollQKnown, LoopQKnown, CurGood
<1> QED
  BY <1>3, <1>4 DEF TInv

\* A poll arrives: those that are there stay what they are.
LEMMA PollsGrow ==
  ASSUME TInv, PollArrives
  PROVE  \E m \in Poll :
           /\ polls' = Append(polls, m) /\ pollQ' = Append(pollQ, Len(polls) + 1)
           /\ Len(polls) + 1 \in Uids
           /\ m.seq \in 0..(Len(polls) + 1) /\ (m.kind # "noSeq" => m.seq # 0)
           /\ m.seq = Len(polls) + 1 \/ m.seq = 0 \/ \E i \in DOMAIN polls : m = polls[i]
<1> USE LoopAssumption DEF TInv, TypeOK, PollTypes
<1>1. PICK p \in Points, k \in Kinds :
        \E m \in {[point |-> p, kind |-> k, seq |-> IF k = "noSeq" THEN 0 ELSE Len(polls) + 1]}
                    \cup {polls[i] : i \in DOMAIN polls} : polls' = Append(polls, m)
  BY DEF PollArrives
<1>2. PICK m \in {[point |-> p, kind |-> k, seq |-> IF k = "noSeq" THEN 0 ELSE Len(polls) + 1]}
                    \cup {polls[i] : i \in DOMAIN polls} : polls' = Append(polls, m)
  BY <1>1
<1>3. Len(polls) \in Nat /\ Len(polls) + 1 \in 1..MaxPolls /\ DOMAIN polls = 1..Len(polls)
  BY DEF PollArrives
<1>4. m \in Poll /\ m.seq \in 0..(Len(polls) + 1) /\ (m.kind # "noSeq" => m.seq # 0)
      /\ (m.seq = Len(polls) + 1 \/ m.seq = 0 \/ \E i \in DOMAIN polls : m = polls[i])
  <2>1. CASE m = [point |-> p, kind |-> k, seq |-> IF k = "noSeq" THEN 0 ELSE Len(polls) + 1]
    BY <2>1, <1>3 DEF Poll
  <2>2. ASSUME NEW i \in DOMAIN polls, m = polls[i] PROVE <1>4!:
    <3>1. polls[i] \in Poll /\ i \in 1..Len(polls)
      BY <1>3
    <3>2. polls[i].seq \in 0..MaxPolls /\ polls[i].seq <= i
          /\ (polls[i].kind # "noSeq" => polls[i].seq # 0)
      BY <3>1 DEF Poll, SeqKnown, SeqSmall
    <3> QED
      BY <2>2, <3>1, <3>2, <1>3
  <2> QED
    BY <1>2, <2>1, <2>2
<1>5. Len(polls') = Len(polls) + 1
  BY <1>2, <1>4, AppendFacts
<1> QED
  BY <1>2, <1>3, <1>4, <1>5 DEF PollArrives, Uids

\* The polls and their queue.
LEMMA PollArrivesTInv == TInv /\ PollArrives => TInv'
<1> SUFFICES ASSUME TInv, PollArrives PROVE TInv'
  OBVIOUS
<1> USE LoopAssumption
<1>1. PICK m \in Poll :
           /\ polls' = Append(polls, m) /\ pollQ' = Append(pollQ, Len(polls) + 1)
           /\ Len(polls) + 1 \in Uids
           /\ m.seq \in 0..(Len(polls) + 1) /\ (m.kind # "noSeq" => m.seq # 0)
  BY PollsGrow
<1>2. UNCHANGED <<trigPc, respVars, loopVars, tracked, wrVars, anaVars, mainPc>> /\ pollSem' = pollSem + 1
  BY DEF PollArrives
<1>3. PollTypes'
  BY <1>1, <1>2 DEF TInv, TypeOK, PollTypes, Uids
<1>4. Len(polls') = Len(polls) + 1 /\ DOMAIN polls = 1..Len(polls) /\ DOMAIN polls' = 1..(Len(polls) + 1)
      /\ \A i \in DOMAIN polls : polls'[i] = polls[i]
      /\ polls'[Len(polls) + 1] = m /\ Len(polls) \in Nat
  BY <1>1, AppendFacts DEF TInv, TypeOK, PollTypes
<1>5. RespTypes' /\ LoopTypes' /\ WriteTypes' /\ ReportTypes' /\ (mainPc' = mainPc)
  BY <1>2 DEF TInv, TypeOK, RespTypes, LoopTypes, WriteTypes, ReportTypes, respVars, loopVars, wrVars, anaVars
<1>6. CurTypes'
  BY <1>2, <1>4 DEF TInv, TypeOK, CurTypes, loopVars
<1>7. SeqKnown' /\ SeqSmall'
  BY <1>1, <1>4 DEF TInv, TypeOK, PollTypes, SeqKnown, SeqSmall, Poll
<1>8. PollQKnown'
  <2>1. DOMAIN pollQ' = 1..(Len(pollQ) + 1) /\ DOMAIN pollQ = 1..Len(pollQ) /\ Len(pollQ) \in Nat
        /\ (\A i \in 1..Len(pollQ) : pollQ'[i] = pollQ[i])
        /\ pollQ'[Len(pollQ) + 1] = Len(polls) + 1
    BY <1>1, AppendFacts DEF TInv, TypeOK, PollTypes
  <2> QED
    BY <2>1, <1>4 DEF TInv, PollQKnown
<1>9. LoopQKnown'
  BY <1>2, <1>4 DEF TInv, LoopQKnown, loopVars
<1>10. CurGood'
  BY <1>2, <1>4 DEF TInv, TypeOK, CurTypes, CurGood, loopVars
<1> QED
  BY <1>3, <1>5, <1>6, <1>7, <1>8, <1>9, <1>10 DEF TInv, TypeOK

\* ResponseArrives changes nothing but the queue of responses.
LEMMA ResponseArrivesTInv == TInv /\ ResponseArrives => TInv'
<1> SUFFICES ASSUME TInv, ResponseArrives PROVE TInv'
  OBVIOUS
<1> USE LoopAssumption
<1>1. UNCHANGED <<polls, pollVars, respPc, loopVars, tracked, wrVars, anaVars, mainPc>>
  BY DEF ResponseArrives
<1>2. PICK r \in Response : respQ' = Append(respQ, r)
  <2>1. PICK l \in Loops :
       \/ \E i \in DOMAIN written[l] :
            respQ' = Append(respQ, [loop |-> l, seq |-> written[l][i].seq,
                                    for |-> written[l][i].poll])
       \/ respQ' = Append(respQ, [loop |-> l, seq |-> 0, for |-> 0])
    BY DEF ResponseArrives
  <2>2. \A i \in DOMAIN written[l] : written[l][i] \in WriteOp
    BY DEF TInv, TypeOK, WriteTypes
  <2> QED
    <3>1. CASE respQ' = Append(respQ, [loop |-> l, seq |-> 0, for |-> 0])
      BY <3>1 DEF Response
    <3>2. ASSUME NEW i \in DOMAIN written[l],
                 respQ' = Append(respQ, [loop |-> l, seq |-> written[l][i].seq,
                                         for |-> written[l][i].poll])
          PROVE \E r \in Response : respQ' = Append(respQ, r)
      <4>1. written[l][i].seq \in 0..MaxPolls /\ written[l][i].poll \in 0..MaxPolls
        BY <2>2 DEF WriteOp, Uids
      <4> QED
        BY <3>2, <4>1 DEF Response
    <3> QED
      BY <2>1, <3>1, <3>2
<1>3. RespTypes'
  BY <1>1, <1>2, AppendFacts DEF TInv, TypeOK, RespTypes, ResponseArrives
<1> QED
  BY <1>1, <1>3 DEF TInv, TypeOK, PollTypes, LoopTypes, CurTypes, WriteTypes, ReportTypes,
     SeqKnown, SeqSmall, PollQKnown, LoopQKnown, CurGood, pollVars, loopVars, wrVars, anaVars

\* The polls move from one queue to others.
LEMMA TriggerTInv == TInv /\ Trigger => TInv'
<1> SUFFICES ASSUME TInv, Trigger PROVE TInv'
  OBVIOUS
<1>1. UNCHANGED <<polls, respVars, pc, cur, last, tracked, wrVars, anaVars, mainPc>>
      /\ pollSem > 0 /\ pollSem' = pollSem - 1 /\ trigPc' \in {"wait", "done"}
  BY DEF Trigger, Again
<1>2. CASE UNCHANGED <<pollQ, loopQ, loopSem>>
  BY <1>1, <1>2 DEF TInv, TypeOK, PollTypes, RespTypes, LoopTypes, CurTypes, WriteTypes, ReportTypes,
     SeqKnown, SeqSmall, PollQKnown, LoopQKnown, CurGood, respVars, wrVars, anaVars
<1>3. ASSUME NEW to, pollQ # <<>>, pollQ' = Tail(pollQ),
        loopQ' = [l \in Loops |-> IF l \in to THEN Append(loopQ[l], Head(pollQ)) ELSE loopQ[l]],
        loopSem' = [l \in Loops |-> IF l \in to THEN loopSem[l] + 1 ELSE loopSem[l]]
      PROVE TInv'
  <2>1. /\ Head(pollQ) \in Uids /\ Head(pollQ) = pollQ[1] /\ 1 \in DOMAIN pollQ
        /\ Tail(pollQ) \in Seq(Uids)
        /\ \A i \in DOMAIN Tail(pollQ) : i + 1 \in DOMAIN pollQ /\ Tail(pollQ)[i] = pollQ[i + 1]
    BY <1>3, TailFacts DEF TInv, TypeOK, PollTypes
  <2>2. PollTypes' /\ PollQKnown'
    BY <1>1, <1>3, <2>1 DEF TInv, TypeOK, PollTypes, PollQKnown
  <2>3. ASSUME NEW l \in Loops
        PROVE  /\ loopQ'[l] \in Seq(Uids) /\ loopSem'[l] \in Nat
               /\ \A i \in DOMAIN loopQ'[l] : loopQ'[l][i] \in DOMAIN polls
    <3>1. loopQ[l] \in Seq(Uids) /\ loopSem[l] \in Nat
      BY DEF TInv, TypeOK, LoopTypes
    <3>2. Head(pollQ) \in DOMAIN polls
      BY <2>1 DEF TInv, PollQKnown
    <3>3. CASE l \in to
      BY <1>3, <2>1, <3>1, <3>2, <3>3, AppendFacts DEF TInv, LoopQKnown
    <3>4. CASE l \notin to
      BY <1>3, <3>1, <3>4 DEF TInv, LoopQKnown
    <3> QED
      BY <3>3, <3>4
  <2>4. LoopTypes' /\ LoopQKnown'
    BY <1>1, <1>3, <2>3 DEF TInv, TypeOK, LoopTypes, LoopQKnown
  <2> QED
    BY <1>1, <2>2, <2>4 DEF TInv, TypeOK, RespTypes, CurTypes, WriteTypes, ReportTypes,
     SeqKnown, SeqSmall, CurGood, respVars, wrVars, anaVars
<1> QED
  BY <1>2, <1>3 DEF Trigger

\* A monitor takes the next poll of its loop.
LEMMA LoopReceiveTInv == \A l \in Loops : TInv /\ LoopReceive(l) => TInv'
<1> SUFFICES ASSUME TInv, NEW l \in Loops, LoopReceive(l) PROVE TInv'
  OBVIOUS
<1>1. UNCHANGED <<polls, pollVars, respVars, last, tracked, wrVars, anaVars, mainPc>>
      /\ loopSem' = [loopSem EXCEPT ![l] = @ - 1] /\ loopSem[l] > 0
  BY DEF LoopReceive
<1>2. CASE UNCHANGED <<loopQ, cur>> /\ Goto(l, Again)
  BY <1>1, <1>2 DEF TInv, TypeOK, PollTypes, RespTypes, LoopTypes, CurTypes, WriteTypes, ReportTypes,
     SeqKnown, SeqSmall, PollQKnown, LoopQKnown, CurGood, pollVars, respVars, wrVars, anaVars, Goto, Again
<1>3. ASSUME NEW s \in {"take", "decide"}, loopQ[l] # <<>>, Goto(l, s),
        cur' = [cur EXCEPT ![l] = Head(loopQ[l])], loopQ' = [loopQ EXCEPT ![l] = Tail(@)]
      PROVE TInv'
  <2>1. /\ Head(loopQ[l]) \in Uids /\ Head(loopQ[l]) = loopQ[l][1] /\ 1 \in DOMAIN loopQ[l]
        /\ Tail(loopQ[l]) \in Seq(Uids)
        /\ \A i \in DOMAIN Tail(loopQ[l]) : i + 1 \in DOMAIN loopQ[l] /\ Tail(loopQ[l])[i] = loopQ[l][i + 1]
    BY <1>3, TailFacts DEF TInv, TypeOK, LoopTypes
  <2>2. Head(loopQ[l]) \in DOMAIN polls
    BY <2>1 DEF TInv, LoopQKnown
  <2>3. LoopTypes' /\ CurTypes'
    BY <1>1, <1>3, <2>1, <2>2 DEF TInv, TypeOK, LoopTypes, CurTypes, Goto, Uids
  <2>4. LoopQKnown' /\ CurGood'
    BY <1>1, <1>3, <2>1, <2>2 DEF TInv, TypeOK, LoopTypes, LoopQKnown, CurGood, Goto
  <2> QED
    BY <1>1, <2>3, <2>4 DEF TInv, TypeOK, PollTypes, RespTypes, WriteTypes, ReportTypes,
     SeqKnown, SeqSmall, PollQKnown, pollVars, respVars, wrVars, anaVars
<1> QED
  BY <1>2, <1>3 DEF LoopReceive

\* What is tracked, queued for the log and logged keeps its type.
LEMMA PostDummyTypes ==
  ASSUME TInv, NEW l, NEW s, NEW e \in Errors, PostDummy(l, s, e), logged' = logged
  PROVE  ReportTypes'
<1>1. CASE UNCHANGED <<tracked, anaQ>>
  BY <1>1 DEF TInv, TypeOK, ReportTypes
<1>2. ASSUME NEW t \in Key(l, s), Remove(t), Analyse(l, t.poll, e, t.poll) PROVE ReportTypes'
  <2>1. t \in Tracked /\ t.loop = l
    BY <1>2 DEF Key, TInv, TypeOK, ReportTypes
  <2>2. [loop |-> l, poll |-> t.poll, resp |-> e, for |-> t.poll] \in Analysis
    BY <2>1 DEF Tracked, Analysis, Uids
  <2>3. anaQ' \in Seq(Analysis)
    BY <1>2, <2>2, AppendFacts DEF Analyse, TInv, TypeOK, ReportTypes
  <2> QED
    BY <1>2, <2>3 DEF Remove, TInv, TypeOK, ReportTypes
<1> QED
  BY <1>1, <1>2 DEF PostDummy

\* A monitor gives up on the last response.
LEMMA LoopTakeTInv == \A l \in Loops : TInv /\ LoopTake(l) => TInv'
<1> SUFFICES ASSUME TInv, NEW l \in Loops, LoopTake(l) PROVE TInv'
  OBVIOUS
<1>1. /\ UNCHANGED <<polls, pollVars, respVars, loopQ, loopSem, cur, last, wrVars, logged, mainPc>>
      /\ pc[l] = "take" /\ pc' = [pc EXCEPT ![l] = "decide"]
  BY DEF LoopTake, Goto
<1>2. ReportTypes'
  BY PostDummyTypes, <1>1 DEF LoopTake, Errors
<1>3. LoopTypes' /\ CurTypes' /\ LoopQKnown' /\ CurGood'
  BY <1>1 DEF TInv, TypeOK, LoopTypes, CurTypes, LoopQKnown, CurGood
<1> QED
  BY <1>1, <1>2, <1>3 DEF TInv, TypeOK, PollTypes, RespTypes, WriteTypes,
     SeqKnown, SeqSmall, PollQKnown, pollVars, respVars, wrVars

\* A monitor looks at its poll.
LEMMA LoopDecideTInv == \A l \in Loops : TInv /\ LoopDecide(l) => TInv'
<1> SUFFICES ASSUME TInv, NEW l \in Loops, LoopDecide(l) PROVE TInv'
  OBVIOUS
<1>1. /\ UNCHANGED <<polls, pollVars, respVars, loopQ, loopSem, cur, tracked, wrVars, logged, mainPc>>
      /\ pc[l] = "decide" /\ last' = [last EXCEPT ![l] = 0]
  BY DEF LoopDecide
<1>2. cur[l] \in DOMAIN polls /\ cur[l] \in Uids /\ MaxPolls \in Nat
  BY <1>1, LoopAssumption DEF TInv, TypeOK, CurTypes, PollTypes, Uids
<1>3. ReportTypes'
  <2>1. CASE UNCHANGED anaQ
    BY <1>1, <2>1 DEF TInv, TypeOK, ReportTypes, anaVars
  <2>2. CASE Analyse(l, cur[l], "WrReqNotSent", cur[l])
    <3>1. [loop |-> l, poll |-> cur[l], resp |-> "WrReqNotSent", for |-> cur[l]] \in Analysis
      BY <1>2 DEF Analysis, Errors, Uids
    <3> QED
      BY <1>1, <2>2, <3>1, AppendFacts DEF Analyse, TInv, TypeOK, ReportTypes
  <2> QED
    BY <2>1, <2>2 DEF LoopDecide
<1>4. PICK s \in {"wait", "done", "track"} : pc' = [pc EXCEPT ![l] = s]
                                     /\ (s = "track" => polls[cur[l]].kind = "good")
  BY DEF LoopDecide, Goto, Again, KindOf
<1>5. LoopTypes' /\ CurTypes' /\ LoopQKnown' /\ CurGood'
  BY <1>1, <1>2, <1>4 DEF TInv, TypeOK, LoopTypes, CurTypes, LoopQKnown, CurGood
<1> QED
  BY <1>1, <1>3, <1>5 DEF TInv, TypeOK, PollTypes, RespTypes, WriteTypes,
     SeqKnown, SeqSmall, PollQKnown, pollVars, respVars, wrVars

\* A good poll at hand has a driver_seq.
LEMMA GoodPoll ==
  ASSUME TInv, NEW l \in Loops, pc[l] \in {"track", "push"}
  PROVE  cur[l] \in DOMAIN polls /\ cur[l] \in Uids /\ polls[cur[l]].seq \in 1..MaxPolls
<1>1. cur[l] \in DOMAIN polls /\ polls[cur[l]].kind = "good" /\ polls[cur[l]].seq # 0
  BY DEF TInv, TypeOK, CurTypes, CurGood, SeqKnown
<1>2. polls[cur[l]] \in Poll /\ cur[l] \in Uids
  BY <1>1, LoopAssumption DEF TInv, TypeOK, PollTypes, Uids
<1> QED
  BY <1>1, <1>2, LoopAssumption DEF Poll

\* A monitor tracks its poll.
LEMMA LoopTrackTInv == \A l \in Loops : TInv /\ LoopTrack(l) => TInv'
<1> SUFFICES ASSUME TInv, NEW l \in Loops, LoopTrack(l) PROVE TInv'
  OBVIOUS
<1>1. /\ UNCHANGED <<polls, pollVars, respVars, loopQ, loopSem, cur, last, wrVars, anaVars, mainPc>>
      /\ pc[l] = "track" /\ pc' = [pc EXCEPT ![l] = "push"]
  BY DEF LoopTrack, Goto
<1>2. [loop |-> l, seq |-> polls[cur[l]].seq, poll |-> cur[l]] \in Tracked
  BY <1>1, GoodPoll DEF Tracked
<1>3. ReportTypes'
  BY <1>1, <1>2 DEF LoopTrack, InsertForTracking, TInv, TypeOK, ReportTypes, anaVars
<1>4. LoopTypes' /\ CurTypes' /\ LoopQKnown' /\ CurGood'
  BY <1>1 DEF TInv, TypeOK, LoopTypes, CurTypes, LoopQKnown, CurGood
<1> QED
  BY <1>1, <1>3, <1>4 DEF TInv, TypeOK, PollTypes, RespTypes, WriteTypes,
     SeqKnown, SeqSmall, PollQKnown, pollVars, respVars, wrVars

\* A monitor asks for the write of its poll.
LEMMA LoopPushTInv == \A l \in Loops : TInv /\ LoopPush(l) => TInv'
<1> SUFFICES ASSUME TInv, NEW l \in Loops, LoopPush(l) PROVE TInv'
  OBVIOUS
<1>1. /\ UNCHANGED <<polls, pollVars, respVars, loopQ, loopSem, cur, tracked, wrHand, written, anaVars, mainPc>>
      /\ pc[l] = "push" /\ last' = [last EXCEPT ![l] = polls[cur[l]].seq]
      /\ wrQ' = Append(wrQ, [loop |-> l, seq |-> polls[cur[l]].seq, poll |-> cur[l]])
  BY DEF LoopPush, SetLast
<1>2. polls[cur[l]].seq \in 1..MaxPolls /\ cur[l] \in Uids
  BY <1>1, GoodPoll
<1>3. WriteTypes'
  <2>1. [loop |-> l, seq |-> polls[cur[l]].seq, poll |-> cur[l]] \in WriteOp
    BY <1>2 DEF WriteOp
  <2> QED
    BY <1>1, <2>1, AppendFacts DEF TInv, TypeOK, WriteTypes
<1>4. PICK s \in {"wait", "done"} : pc' = [pc EXCEPT ![l] = s]
  BY DEF LoopPush, Goto, Again
<1>5. LoopTypes' /\ CurTypes' /\ LoopQKnown' /\ CurGood'
  BY <1>1, <1>2, <1>4, LoopAssumption DEF TInv, TypeOK, LoopTypes, CurTypes, LoopQKnown, CurGood
<1> QED
  BY <1>1, <1>3, <1>5 DEF TInv, TypeOK, PollTypes, RespTypes, ReportTypes,
     SeqKnown, SeqSmall, PollQKnown, pollVars, respVars, anaVars

\* A write is published, fails or is dropped.
LEMMA PublishWriteTInv == TInv /\ PublishWrite => TInv'
<1> SUFFICES ASSUME TInv, PublishWrite PROVE TInv'
  OBVIOUS
<1>1. UNCHANGED <<polls, pollVars, respVars, loopVars, tracked, anaVars, mainPc>>
      /\ wrQ # <<>> /\ wrQ' = Tail(wrQ)
  BY DEF PublishWrite, PopAndPublish
<1>2. Head(wrQ) \in WriteOp /\ Tail(wrQ) \in Seq(WriteOp)
  BY <1>1, TailFacts DEF TInv, TypeOK, WriteTypes
<1>3. WriteTypes'
  <2>1. CASE UNCHANGED <<wrHand, written>>
    BY <1>1, <1>2, <2>1 DEF TInv, TypeOK, WriteTypes
  <2>2. CASE wrHand' = Head(wrQ) /\ UNCHANGED written
    BY <1>1, <1>2, <2>2 DEF TInv, TypeOK, WriteTypes
  <2>3. CASE written' = [written EXCEPT ![Head(wrQ).loop] = Append(@, Head(wrQ))] /\ UNCHANGED wrHand
    <3>1. Head(wrQ).loop \in Loops
      BY <1>2 DEF WriteOp
    <3>2. Append(written[Head(wrQ).loop], Head(wrQ)) \in Seq(WriteOp)
      BY <1>2, <3>1, AppendFacts DEF TInv, TypeOK, WriteTypes
    <3> QED
      BY <1>1, <1>2, <2>3, <3>1, <3>2 DEF TInv, TypeOK, WriteTypes
  <2> QED
    BY <2>1, <2>2, <2>3 DEF PublishWrite, PopAndPublish
<1> QED
  BY <1>1, <1>3 DEF TInv, TypeOK, PollTypes, RespTypes, LoopTypes, CurTypes, ReportTypes,
     SeqKnown, SeqSmall, PollQKnown, LoopQKnown, CurGood, pollVars, respVars, loopVars, anaVars

\* A write that could not be published is reported.
LEMMA WriteFailedTInv == TInv /\ WriteFailed => TInv'
<1> SUFFICES ASSUME TInv, WriteFailed PROVE TInv'
  OBVIOUS
<1>1. UNCHANGED <<polls, pollVars, respVars, loopVars, wrQ, written, logged, mainPc>>
      /\ wrHand' = Nobody
  BY DEF WriteFailed
<1>2. ReportTypes'
  BY PostDummyTypes, <1>1 DEF WriteFailed, Errors
<1>3. WriteTypes'
  BY <1>1 DEF TInv, TypeOK, WriteTypes
<1> QED
  BY <1>1, <1>2, <1>3 DEF TInv, TypeOK, PollTypes, RespTypes, LoopTypes, CurTypes,
     SeqKnown, SeqSmall, PollQKnown, LoopQKnown, CurGood, pollVars, respVars, loopVars

\* A response is analysed or dropped.
LEMMA RespReceiveTInv == TInv /\ RespReceive => TInv'
<1> SUFFICES ASSUME TInv, RespReceive PROVE TInv'
  OBVIOUS
<1>1. UNCHANGED <<polls, pollVars, loopVars, wrVars, logged, mainPc>>
      /\ respSem > 0 /\ respSem' = respSem - 1 /\ respPc' \in {"wait", "done"}
  BY DEF RespReceive, Again
<1>2. RespTypes' /\ ReportTypes'
  <2>1. CASE UNCHANGED <<respQ, tracked, anaQ>>
    BY <1>1, <2>1 DEF TInv, TypeOK, RespTypes, ReportTypes
  <2>2. CASE respQ # <<>> /\ respQ' = Tail(respQ) /\ UNCHANGED <<tracked, anaQ>>
    BY <1>1, <2>2, TailFacts DEF TInv, TypeOK, RespTypes, ReportTypes
  <2>3. ASSUME respQ # <<>>, respQ' = Tail(respQ),
          NEW t \in Key(Head(respQ).loop, Head(respQ).seq),
          Remove(t), Analyse(Head(respQ).loop, t.poll, "response", Head(respQ).for)
        PROVE RespTypes' /\ ReportTypes'
    <3>1. Head(respQ) \in Response /\ Tail(respQ) \in Seq(Response)
      BY <2>3, TailFacts DEF TInv, TypeOK, RespTypes
    <3>2. t \in Tracked
      BY DEF Key, TInv, TypeOK, ReportTypes
    <3>3. [loop |-> Head(respQ).loop, poll |-> t.poll, resp |-> "response",
           for |-> Head(respQ).for] \in Analysis
      BY <3>1, <3>2 DEF Response, Tracked, Analysis, Uids
    <3>4. anaQ' \in Seq(Analysis)
      BY <2>3, <3>3, AppendFacts DEF Analyse, TInv, TypeOK, ReportTypes
    <3> QED
      BY <1>1, <2>3, <3>1, <3>4 DEF Remove, TInv, TypeOK, RespTypes, ReportTypes
  <2> QED
    BY <2>1, <2>2, <2>3 DEF RespReceive
<1> QED
  BY <1>1, <1>2 DEF TInv, TypeOK, PollTypes, LoopTypes, CurTypes, WriteTypes,
     SeqKnown, SeqSmall, PollQKnown, LoopQKnown, CurGood, pollVars, loopVars, wrVars

\* What remains: the log, main, and steps that change nothing.
LEMMA OtherTInv == TInv /\ (LogAnalysis \/ SetStop \/ MainStops \/ UNCHANGED vars) => TInv'
<1> SUFFICES ASSUME TInv, LogAnalysis \/ SetStop \/ MainStops \/ UNCHANGED vars PROVE TInv'
  OBVIOUS
<1> USE DEF TInv, TypeOK, PollTypes, RespTypes, LoopTypes, CurTypes, WriteTypes, ReportTypes,
     SeqKnown, SeqSmall, PollQKnown, LoopQKnown, CurGood, pollVars, respVars, loopVars, wrVars, anaVars
<1>1. CASE LogAnalysis
  BY <1>1, TailFacts DEF LogAnalysis
<1>2. CASE SetStop
  BY <1>2 DEF SetStop
<1>3. CASE BreakLoops
  BY <1>3 DEF BreakLoops
<1>4. CASE BreakPoll \/ BreakResp \/ Join
  BY <1>4 DEF BreakPoll, BreakResp, Join, Post
<1>5. CASE UNCHANGED vars
  BY <1>5 DEF vars
<1> QED
  BY <1>1, <1>2, <1>3, <1>4, <1>5 DEF MainStops

\* What the monitors read from the list of polls and the queues is there.
LEMMA TInvHolds == Spec => []TInv
<1>1. TInv /\ [Next]_vars => TInv'
  BY PollArrivesTInv, ResponseArrivesTInv, TriggerTInv, LoopReceiveTInv, LoopTakeTInv,
     LoopDecideTInv, LoopTrackTInv, LoopPushTInv, PublishWriteTInv, WriteFailedTInv,
     RespReceiveTInv, OtherTInv DEF Next, Monitor
<1> QED
  BY InitTInv, <1>1, PTL DEF Spec

\* Every variable keeps its type, for all loops, points and bounds.
THEOREM TypeCorrect == Spec => []TypeOK
<1>1. TInv => TypeOK
  BY DEF TInv
<1> QED
  BY TInvHolds, <1>1, PTL

-----------------------------------------------------------------------------
(* One entry for a loop.  A monitor that is about to track a poll has taken *)
(* the entry of the last one, if no other thread has.                       *)

NoneTracked == \A t \in tracked : pc[t.loop] \notin {"decide", "track"}
PushTracked == \A t \in tracked : pc[t.loop] = "push" => t.seq = polls[cur[t.loop]].seq

OInv == OneTracked /\ NoneTracked /\ PushTracked

\* Taking entries out does no harm.
LEMMA FewerTracked ==
  ASSUME OInv, tracked' \subseteq tracked, UNCHANGED <<pc, cur, last, polls>>
  PROVE  OInv'
  BY DEF OInv, OneTracked, NoneTracked, PushTracked

\* postDummyAnalysisMsg and a response take entries out.
LEMMA PostDummyTakes ==
  ASSUME NEW l, NEW s, NEW e, PostDummy(l, s, e)
  PROVE  tracked' \subseteq tracked
  BY DEF PostDummy, Remove

\* A new poll does not change those at hand.
LEMMA PollsKept ==
  ASSUME TInv, PollArrives
  PROVE  /\ DOMAIN polls = 1..Len(polls) /\ DOMAIN polls' = 1..(Len(polls) + 1) /\ Len(polls) \in Nat
         /\ \A i \in DOMAIN polls : polls'[i] = polls[i]
<1>1. PICK m \in Poll : polls' = Append(polls, m)
  BY PollsGrow
<1> QED
  BY <1>1, AppendFacts DEF TInv, TypeOK, PollTypes

\* The monitors keep to one entry.
LEMMA MonitorOInv == \A l \in Loops : TInv /\ OInv /\ Monitor(l) => OInv'
<1> SUFFICES ASSUME TInv, OInv, NEW l \in Loops, Monitor(l) PROVE OInv'
  OBVIOUS
<1>1. /\ pc \in [Loops -> {"wait", "take", "decide", "track", "push", "done"}]
      /\ \A t \in tracked : t.loop \in Loops
  BY DEF TInv, TypeOK, LoopTypes, ReportTypes, Tracked
<1>2. UNCHANGED polls
  BY DEF Monitor, LoopReceive, LoopTake, LoopDecide, LoopTrack, LoopPush
<1>3. CASE LoopReceive(l)
  <2>1. UNCHANGED <<last, tracked>>
    BY <1>3 DEF LoopReceive
  <2>2. CASE pc' = [pc EXCEPT ![l] = Again] /\ UNCHANGED cur /\ pc[l] = "wait"
    BY <1>1, <1>2, <2>1, <2>2 DEF OInv, OneTracked, NoneTracked, PushTracked, Again
  <2>3. ASSUME NEW c, NEW s \in {"take", "decide"}, s = "decide" => Key(l, last[l]) = {},
          pc[l] = "wait", pc' = [pc EXCEPT ![l] = s], cur' = [cur EXCEPT ![l] = c]
        PROVE OInv'
    <3>1. s = "decide" => \A t \in tracked : t.loop # l
      BY <2>3 DEF OInv, OneTracked, Key
    <3>2. cur \in [Loops -> 0..MaxPolls]
      BY DEF TInv, TypeOK, LoopTypes
    <3> QED
      BY <1>1, <1>2, <2>1, <2>3, <3>1, <3>2 DEF OInv, OneTracked, NoneTracked, PushTracked
  <2>4. pc[l] = "wait"
    BY <1>3 DEF LoopReceive
  <2> QED
    BY <1>3, <2>2, <2>3, <2>4 DEF LoopReceive, Goto
<1>4. CASE LoopTake(l)
  <2>1. UNCHANGED <<cur, last>> /\ pc[l] = "take" /\ pc' = [pc EXCEPT ![l] = "decide"]
        /\ PostDummy(l, last[l], "WrRespNotRcvd")
    BY <1>4 DEF LoopTake, Goto
  <2>2. \A t \in tracked' : t \in tracked /\ t.loop # l
    <3>1. \A t \in tracked : t.loop = l => t \in Key(l, last[l])
      BY <2>1 DEF OInv, OneTracked, Key
    <3>2. \A t, o \in tracked : t.loop = l /\ o.loop = l => t = o
      BY DEF OInv, OneTracked
    <3>3. CASE Key(l, last[l]) = {} /\ UNCHANGED tracked
      BY <3>1, <3>3
    <3>4. ASSUME NEW t \in Key(l, last[l]), tracked' = tracked \ {t} PROVE \A o \in tracked' : o \in tracked /\ o.loop # l
      BY <3>2, <3>4 DEF Key
    <3> QED
      BY <2>1, <3>3, <3>4 DEF PostDummy, Remove
  <2> QED
    BY <1>1, <1>2, <2>1, <2>2 DEF OInv, OneTracked, NoneTracked, PushTracked
<1>5. CASE LoopDecide(l)
  <2>1. UNCHANGED <<cur, tracked>> /\ pc[l] = "decide"
        /\ last' = [last EXCEPT ![l] = 0] /\ \E s : pc' = [pc EXCEPT ![l] = s]
    BY <1>5 DEF LoopDecide, Goto
  <2>2. \A t \in tracked : t.loop # l
    BY <2>1 DEF OInv, NoneTracked
  <2> QED
    BY <1>1, <1>2, <2>1, <2>2 DEF OInv, OneTracked, NoneTracked, PushTracked
<1>6. CASE LoopTrack(l)
  <2>1. UNCHANGED <<cur, last>> /\ pc[l] = "track" /\ pc' = [pc EXCEPT ![l] = "push"]
        /\ InsertForTracking([loop |-> l, seq |-> polls[cur[l]].seq, poll |-> cur[l]])
    BY <1>6 DEF LoopTrack, Goto
  <2>2. \A t \in tracked : t.loop # l
    BY <2>1 DEF OInv, NoneTracked
  <2> QED
    BY <1>1, <1>2, <2>1, <2>2 DEF InsertForTracking, OInv, OneTracked, NoneTracked, PushTracked
<1>7. CASE LoopPush(l)
  <2>1. UNCHANGED <<cur, tracked>> /\ pc[l] = "push" /\ pc' = [pc EXCEPT ![l] = Again]
        /\ last' = [last EXCEPT ![l] = polls[cur[l]].seq]
    BY <1>7 DEF LoopPush, Goto, SetLast
  <2>2. last \in [Loops -> 0..MaxPolls]
    BY DEF TInv, TypeOK, LoopTypes
  <2> QED
    BY <1>1, <1>2, <2>1, <2>2 DEF OInv, OneTracked, NoneTracked, PushTracked, Again
<1> QED
  BY <1>3, <1>4, <1>5, <1>6, <1>7 DEF Monitor

\* The other threads take entries out, or leave the map alone.
LEMMA OtherOInv == TInv /\ OInv /\ [Next]_vars /\ ~(\E l \in Loops : Monitor(l)) => OInv'
<1> SUFFICES ASSUME TInv, OInv, [Next]_vars, ~(\E l \in Loops : Monitor(l)) PROVE OInv'
  OBVIOUS
<1>1. CASE PollArrives
  <2>1. UNCHANGED <<pc, cur, last, tracked>>
    BY <1>1 DEF PollArrives, loopVars
  <2>2. \A t \in tracked : pc[t.loop] = "push" => cur[t.loop] \in DOMAIN polls
    BY DEF TInv, TypeOK, CurTypes, ReportTypes, Tracked
  <2> QED
    BY <1>1, <2>1, <2>2, PollsKept DEF OInv, OneTracked, NoneTracked, PushTracked
<1>2. CASE ~PollArrives
  <2>1. UNCHANGED <<pc, cur, last, polls>>
    BY <1>2 DEF Next, vars, loopVars, ResponseArrives, Trigger, PublishWrite, WriteFailed,
       RespReceive, LogAnalysis, SetStop, MainStops, BreakLoops, BreakPoll, BreakResp, Join
  <2>2. CASE WriteFailed
    BY <2>1, <2>2, FewerTracked, PostDummyTakes DEF WriteFailed
  <2>3. CASE RespReceive
    <3>1. tracked' \subseteq tracked
      BY <2>3 DEF RespReceive, Remove
    <3> QED
      BY <2>1, <3>1, FewerTracked
  <2>4. CASE ~(WriteFailed \/ RespReceive)
    <3>1. UNCHANGED tracked
      BY <1>2, <2>4 DEF Next, vars, ResponseArrives, Trigger, PublishWrite,
         LogAnalysis, SetStop, MainStops, BreakLoops, BreakPoll, BreakResp, Join
    <3> QED
      BY <2>1, <3>1, FewerTracked
  <2> QED
    BY <2>2, <2>3, <2>4
<1> QED
  BY <1>1, <1>2

\* The invariant of the map.
LEMMA OInvHolds == Spec => []OInv
<1>1. Init => OInv
  BY DEF Init, OInv, OneTracked, NoneTracked, PushTracked
<1>2. TInv /\ OInv /\ [Next]_vars => OInv'
  BY MonitorOInv, OtherOInv
<1> QED
  BY <1>1, <1>2, TInvHolds, PTL DEF Spec

\* Of the map of tracked polls a loop never has more than one entry, and that is
\* of the write it asked for last: the map does not grow.
THEOREM OneTrackedCorrect == Spec => []OneTracked
<1>1. OInv => OneTracked
  BY DEF OInv
<1> QED
  BY <1>1, OInvHolds, PTL

-----------------------------------------------------------------------------
(* Polls pass the queues in the order in which they arrive, each loop takes *)
(* every poll once.                                                         *)

PollQOrder == \A i, j \in DOMAIN pollQ : i < j => pollQ[i] < pollQ[j]
LoopQOrder == \A l \in Loops : \A i, j \in DOMAIN loopQ[l] : i < j => loopQ[l][i] < loopQ[l][j]
QueuesApart ==
  \A l \in Loops : \A i \in DOMAIN loopQ[l], j \in DOMAIN pollQ : loopQ[l][i] < pollQ[j]
CurFirst ==
  \A l \in Loops :
    /\ \A i \in DOMAIN loopQ[l] : cur[l] < loopQ[l][i]
    /\ \A j \in DOMAIN pollQ : cur[l] < pollQ[j]
    /\ cur[l] <= Len(polls)

QInv == PollQOrder /\ LoopQOrder /\ QueuesApart /\ CurFirst

\* A poll that arrives is the last one.
LEMMA PollArrivesQInv == TInv /\ QInv /\ PollArrives => QInv'
<1> SUFFICES ASSUME TInv, QInv, PollArrives PROVE QInv'
  OBVIOUS
<1>1. UNCHANGED loopVars /\ pollQ' = Append(pollQ, Len(polls) + 1) /\ Len(polls) + 1 \in Uids
      /\ Len(polls') = Len(polls) + 1 /\ Len(polls) \in Nat /\ DOMAIN polls = 1..Len(polls)
  BY PollsGrow, AppendFacts DEF PollArrives, TInv, TypeOK, PollTypes
<1>2. DOMAIN pollQ' = 1..(Len(pollQ) + 1) /\ DOMAIN pollQ = 1..Len(pollQ) /\ Len(pollQ) \in Nat
      /\ (\A i \in 1..Len(pollQ) : pollQ'[i] = pollQ[i])
      /\ pollQ'[Len(pollQ) + 1] = Len(polls) + 1
  BY <1>1, AppendFacts DEF TInv, TypeOK, PollTypes
<1>3. \A i \in DOMAIN pollQ : pollQ[i] \in 1..Len(polls)
  BY <1>1 DEF TInv, PollQKnown
<1>4. \A l \in Loops : (\A i \in DOMAIN loopQ[l] : loopQ[l][i] \in 1..Len(polls)) /\ cur[l] \in Nat
  BY <1>1, LoopAssumption DEF TInv, TypeOK, LoopTypes, LoopQKnown
<1>5. PollQOrder'
  BY <1>2, <1>3, <1>1 DEF QInv, PollQOrder
<1>6. LoopQOrder' /\ QueuesApart'
  BY <1>1, <1>2, <1>4 DEF QInv, LoopQOrder, QueuesApart, loopVars
<1>7. CurFirst'
  BY <1>1, <1>2, <1>4 DEF QInv, CurFirst, loopVars
<1> QED
  BY <1>5, <1>6, <1>7 DEF QInv

\* The first poll goes to the end of the loops' queues.
LEMMA TriggerQInv == TInv /\ QInv /\ Trigger => QInv'
<1> SUFFICES ASSUME TInv, QInv, Trigger PROVE QInv'
  OBVIOUS
<1>1. UNCHANGED <<polls, cur>>
  BY DEF Trigger
<1>2. CASE UNCHANGED <<pollQ, loopQ>>
  BY <1>1, <1>2 DEF QInv, PollQOrder, LoopQOrder, QueuesApart, CurFirst
<1>3. ASSUME NEW to, pollQ # <<>>, pollQ' = Tail(pollQ),
        loopQ' = [l \in Loops |-> IF l \in to THEN Append(loopQ[l], Head(pollQ)) ELSE loopQ[l]]
      PROVE QInv'
  <2>1. /\ Head(pollQ) = pollQ[1] /\ DOMAIN pollQ = 1..Len(pollQ) /\ Len(pollQ) \in Nat \ {0}
        /\ DOMAIN pollQ' = 1..(Len(pollQ) - 1) /\ \A i \in DOMAIN pollQ : pollQ[i] \in Uids
        /\ \A i \in DOMAIN pollQ' : pollQ'[i] = pollQ[i + 1]
    BY <1>3, TailFacts DEF TInv, TypeOK, PollTypes
  <2>2. PollQOrder'
    BY <2>1 DEF QInv, PollQOrder
  <2>3. ASSUME NEW l \in Loops
        PROVE  /\ \A i, j \in DOMAIN loopQ'[l] : i < j => loopQ'[l][i] < loopQ'[l][j]
               /\ \A i \in DOMAIN loopQ'[l], j \in DOMAIN pollQ' : loopQ'[l][i] < pollQ'[j]
               /\ \A i \in DOMAIN loopQ'[l] : cur[l] < loopQ'[l][i]
    <3>1. DOMAIN loopQ[l] = 1..Len(loopQ[l]) /\ Len(loopQ[l]) \in Nat
          /\ (\A i \in DOMAIN loopQ[l] : loopQ[l][i] \in Uids) /\ cur[l] \in Nat
      BY LoopAssumption DEF TInv, TypeOK, LoopTypes
    <3>2. CASE l \notin to
      BY <1>3, <2>1, <3>1, <3>2 DEF QInv, LoopQOrder, QueuesApart, CurFirst
    <3>3. CASE l \in to
      <4>1. DOMAIN loopQ'[l] = 1..(Len(loopQ[l]) + 1)
            /\ (\A i \in 1..Len(loopQ[l]) : loopQ'[l][i] = loopQ[l][i])
            /\ loopQ'[l][Len(loopQ[l]) + 1] = pollQ[1]
        BY <1>3, <2>1, <3>3, AppendFacts DEF TInv, TypeOK, LoopTypes
      <4>2. ASSUME NEW i \in DOMAIN loopQ'[l], NEW j \in DOMAIN loopQ'[l], i < j
            PROVE  loopQ'[l][i] < loopQ'[l][j]
        <5>1. i \in DOMAIN loopQ[l] /\ loopQ'[l][i] = loopQ[l][i]
          BY <3>1, <4>1, <4>2
        <5>2. CASE j \in DOMAIN loopQ[l]
          BY <3>1, <4>1, <4>2, <5>1, <5>2 DEF QInv, LoopQOrder
        <5>3. CASE j = Len(loopQ[l]) + 1
          BY <2>1, <4>1, <5>1, <5>3 DEF QInv, QueuesApart
        <5> QED
          BY <3>1, <4>1, <5>2, <5>3
      <4>3. ASSUME NEW i \in DOMAIN loopQ'[l], NEW j \in DOMAIN pollQ'
            PROVE  loopQ'[l][i] < pollQ'[j]
        <5>1. j + 1 \in DOMAIN pollQ /\ 1 \in DOMAIN pollQ /\ 1 < j + 1 /\ pollQ'[j] = pollQ[j + 1]
          BY <2>1
        <5>2. CASE i \in DOMAIN loopQ[l]
          BY <3>1, <4>1, <5>1, <5>2 DEF QInv, QueuesApart
        <5>3. CASE i = Len(loopQ[l]) + 1
          BY <4>1, <5>1, <5>3 DEF QInv, PollQOrder
        <5> QED
          BY <3>1, <4>1, <5>2, <5>3
      <4>4. \A i \in DOMAIN loopQ'[l] : cur[l] < loopQ'[l][i]
        BY <2>1, <3>1, <4>1, SMTT(60) DEF QInv, CurFirst
      <4> QED
        BY <4>2, <4>3, <4>4
    <3> QED
      BY <3>2, <3>3
  <2>4. CurFirst'
    BY <1>1, <2>1, <2>3 DEF QInv, CurFirst
  <2> QED
    BY <2>2, <2>3, <2>4 DEF QInv, LoopQOrder, QueuesApart
<1> QED
  BY <1>2, <1>3 DEF Trigger

\* A monitor takes the first of its polls.
LEMMA LoopReceiveQInv == \A l \in Loops : TInv /\ QInv /\ LoopReceive(l) => QInv'
<1> SUFFICES ASSUME TInv, QInv, NEW l \in Loops, LoopReceive(l) PROVE QInv'
  OBVIOUS
<1>1. UNCHANGED <<polls, pollQ>>
  BY DEF LoopReceive, pollVars
<1>2. CASE UNCHANGED <<loopQ, cur>>
  BY <1>1, <1>2 DEF QInv, PollQOrder, LoopQOrder, QueuesApart, CurFirst
<1>3. CASE loopQ[l] # <<>> /\ cur' = [cur EXCEPT ![l] = Head(loopQ[l])]
           /\ loopQ' = [loopQ EXCEPT ![l] = Tail(@)]
  <2>1. /\ Head(loopQ[l]) = loopQ[l][1] /\ Len(loopQ[l]) \in Nat \ {0}
        /\ DOMAIN loopQ[l] = 1..Len(loopQ[l]) /\ \A i \in DOMAIN loopQ[l] : loopQ[l][i] \in Uids
        /\ DOMAIN Tail(loopQ[l]) = 1..(Len(loopQ[l]) - 1)
        /\ \A i \in DOMAIN Tail(loopQ[l]) : Tail(loopQ[l])[i] = loopQ[l][i + 1]
    BY <1>3, TailFacts DEF TInv, TypeOK, LoopTypes
  <2>2. /\ \A k \in Loops : k # l => loopQ'[k] = loopQ[k] /\ cur'[k] = cur[k]
        /\ loopQ'[l] = Tail(loopQ[l]) /\ cur'[l] = loopQ[l][1]
    BY <1>3, <2>1 DEF TInv, TypeOK, LoopTypes
  <2>6. DOMAIN loopQ'[l] = 1..(Len(loopQ[l]) - 1)
        /\ \A i \in DOMAIN loopQ'[l] : loopQ'[l][i] = loopQ[l][i + 1]
    BY <2>1, <2>2, Zenon
  <2>3. LoopQOrder' /\ QueuesApart'
    <3>1. ASSUME NEW k \in Loops, NEW i \in DOMAIN loopQ'[k], NEW j \in DOMAIN loopQ'[k], i < j
          PROVE  loopQ'[k][i] < loopQ'[k][j]
      <4>1. CASE k = l
        <5>0. i \in DOMAIN loopQ'[l] /\ j \in DOMAIN loopQ'[l]
          BY <4>1
        <5>1. i + 1 \in DOMAIN loopQ[l] /\ j + 1 \in DOMAIN loopQ[l] /\ i + 1 < j + 1
          BY <2>1, <2>6, <3>1, <5>0
        <5>2. loopQ'[l][i] = loopQ[l][i + 1] /\ loopQ'[l][j] = loopQ[l][j + 1]
          BY <2>6, <5>0
        <5> QED
          BY <4>1, <5>1, <5>2 DEF QInv, LoopQOrder
      <4> QED
        BY <2>2, <3>1, <4>1 DEF QInv, LoopQOrder
    <3>2. ASSUME NEW k \in Loops, NEW i \in DOMAIN loopQ'[k], NEW j \in DOMAIN pollQ
          PROVE  loopQ'[k][i] < pollQ[j]
      <4>1. CASE k = l
        <5>1. i + 1 \in DOMAIN loopQ[l] /\ loopQ'[k][i] = loopQ[l][i + 1]
          BY <2>1, <2>6, <3>2, <4>1
        <5> QED
          BY <5>1 DEF QInv, QueuesApart
      <4> QED
        BY <2>2, <3>2, <4>1 DEF QInv, QueuesApart
    <3> QED
      BY <1>1, <3>1, <3>2 DEF LoopQOrder, QueuesApart
  <2>4. loopQ[l][1] \in 1..Len(polls) /\ Len(polls) \in Nat
    BY <2>1 DEF TInv, TypeOK, PollTypes, LoopQKnown
  <2>5. ASSUME NEW k \in Loops
        PROVE  /\ \A i \in DOMAIN loopQ'[k] : cur'[k] < loopQ'[k][i]
               /\ \A j \in DOMAIN pollQ : cur'[k] < pollQ[j]
               /\ cur'[k] <= Len(polls)
    <3>1. CASE k # l
      BY <2>2, <3>1 DEF QInv, CurFirst
    <3>2. CASE k = l
      <4>1. 1 \in DOMAIN loopQ[l] /\ \A i \in DOMAIN loopQ'[k] :
              i + 1 \in DOMAIN loopQ[l] /\ 1 < i + 1 /\ loopQ'[k][i] = loopQ[l][i + 1]
        BY <2>1, <2>6, <3>2
      <4> QED
        BY <2>2, <2>4, <3>2, <4>1 DEF QInv, LoopQOrder, QueuesApart
    <3> QED
      BY <3>1, <3>2
  <2> QED
    BY <1>1, <2>3, <2>5 DEF QInv, PollQOrder, CurFirst
<1> QED
  BY <1>2, <1>3 DEF LoopReceive

\* Init and the steps that move no poll.
LEMMA QInvHolds == Spec => []QInv
<1>1. Init => QInv
  BY DEF Init, QInv, PollQOrder, LoopQOrder, QueuesApart, CurFirst
<1>2. ASSUME TInv, QInv, [Next]_vars PROVE QInv'
  <2>1. CASE PollArrives \/ Trigger \/ \E l \in Loops : LoopReceive(l)
    BY <1>2, <2>1, PollArrivesQInv, TriggerQInv, LoopReceiveQInv
  <2>2. CASE ~(PollArrives \/ Trigger \/ \E l \in Loops : LoopReceive(l))
    <3>1. UNCHANGED <<polls, pollQ, loopQ, cur>>
      BY <1>2, <2>2 DEF Next, vars, Monitor, pollVars, loopVars, ResponseArrives, LoopTake, LoopDecide,
         LoopTrack, LoopPush, PublishWrite, WriteFailed, RespReceive, LogAnalysis,
         SetStop, MainStops, BreakLoops, BreakPoll, BreakResp, Join
    <3> QED
      BY <1>2, <3>1 DEF QInv, PollQOrder, LoopQOrder, QueuesApart, CurFirst
  <2> QED
    BY <2>1, <2>2
<1> QED
  BY <1>1, <1>2, TInvHolds, PTL DEF Spec

-----------------------------------------------------------------------------
(* Reports.  A poll that is tracked or reported is behind the loop's        *)
(* monitor: it will not be tracked or refused once more.                    *)

Past(l, u) == u <= cur[l] /\ (pc[l] \in {"take", "decide", "track"} => u < cur[l])

\* Once behind, always behind.
LEMMA PastStays ==
  ASSUME TInv, QInv, [Next]_vars, NEW l \in Loops, NEW u \in Uids, Past(l, u)
  PROVE  Past(l, u)'
<1> USE LoopAssumption DEF Uids
<1>1. /\ pc \in [Loops -> {"wait", "take", "decide", "track", "push", "done"}]
      /\ cur \in [Loops -> 0..MaxPolls] /\ MaxPolls \in Nat
  BY DEF TInv, TypeOK, LoopTypes
<1>2. CASE UNCHANGED <<pc, cur>>
  BY <1>2 DEF Past
<1>3. ASSUME NEW k \in Loops, LoopReceive(k) PROVE Past(l, u)'
  <2>1. CASE UNCHANGED cur /\ pc' = [pc EXCEPT ![k] = Again]
    BY <1>1, <2>1 DEF Past, Again
  <2>2. CASE loopQ[k] # <<>> /\ cur' = [cur EXCEPT ![k] = Head(loopQ[k])] /\ \E s : pc' = [pc EXCEPT ![k] = s]
    <3>1. Head(loopQ[k]) = loopQ[k][1] /\ 1 \in DOMAIN loopQ[k] /\ Head(loopQ[k]) \in Uids
      BY <2>2, TailFacts, SMTT(60) DEF TInv, TypeOK, LoopTypes
    <3>2. cur[k] < Head(loopQ[k])
      BY <3>1 DEF QInv, CurFirst
    <3> QED
      BY <1>1, <2>2, <3>1, <3>2 DEF Past
  <2> QED
    BY <1>3, <2>1, <2>2 DEF LoopReceive, Goto
<1>4. ASSUME NEW k \in Loops, LoopTake(k) \/ LoopDecide(k) \/ LoopTrack(k) \/ LoopPush(k)
      PROVE  Past(l, u)'
  <2>1. UNCHANGED cur
    BY <1>4 DEF LoopTake, LoopDecide, LoopTrack, LoopPush
  <2>2. \E s : pc' = [pc EXCEPT ![k] = s]
             /\ (s \in {"take", "decide", "track"} => pc[k] \in {"take", "decide", "track"})
    BY <1>4 DEF LoopTake, LoopDecide, LoopTrack, LoopPush, Goto, Again
  <2> QED
    BY <1>1, <2>1, <2>2 DEF Past
<1>5. CASE ~(\E k \in Loops : Monitor(k))
  <2>1. UNCHANGED <<pc, cur>>
    BY <1>5 DEF Next, vars, loopVars, PollArrives, ResponseArrives, Trigger, PublishWrite, WriteFailed,
       RespReceive, LogAnalysis, SetStop, MainStops, BreakLoops, BreakPoll, BreakResp, Join
  <2> QED
    BY <1>2, <2>1
<1> QED
  BY <1>3, <1>4, <1>5 DEF Monitor

\* What a step may do to the map and to the reports.
Untouched == UNCHANGED <<tracked, anaQ, logged>>
Inserted(l) ==
  /\ pc[l] = "track" /\ pc'[l] = "push" /\ UNCHANGED <<cur, anaQ, logged>>
  /\ tracked' \subseteq tracked \cup {[loop |-> l, seq |-> polls[cur[l]].seq, poll |-> cur[l]]}
Taken(t, e, f) ==
  /\ tracked' = tracked \ {t} /\ UNCHANGED logged
  /\ anaQ' = Append(anaQ, [loop |-> t.loop, poll |-> t.poll, resp |-> e, for |-> f])
Refused(l) ==
  /\ pc[l] = "decide" /\ pc'[l] \in {"wait", "done"} /\ UNCHANGED <<cur, tracked, logged>>
  /\ anaQ' = Append(anaQ, [loop |-> l, poll |-> cur[l], resp |-> "WrReqNotSent", for |-> cur[l]])
Moved ==
  /\ anaQ # <<>> /\ anaQ' = Tail(anaQ) /\ UNCHANGED tracked
  /\ logged' \subseteq logged \cup {Head(anaQ)}

ResponseTo(t, f) == /\ respQ # <<>> /\ f = Head(respQ).for
                    /\ Head(respQ).loop = t.loop /\ Head(respQ).seq = t.seq

\* postDummyAnalysisMsg reports the entry that it takes.
LEMMA PostDummyEffect ==
  ASSUME NEW l, NEW s, NEW e \in Errors, PostDummy(l, s, e), UNCHANGED logged
  PROVE  Untouched \/ \E t \in tracked : Taken(t, e, t.poll)
  BY DEF PostDummy, Untouched, Taken, Key, Remove, Analyse

\* Every step does one of these.
LEMMA Effects ==
  ASSUME TInv, [Next]_vars
  PROVE  \/ Untouched \/ Moved
         \/ \E l \in Loops : Inserted(l) \/ Refused(l)
         \/ \E t \in tracked, e \in Errors \cup {"response"}, f \in 0..MaxPolls :
              Taken(t, e, f) /\ (f = t.poll \/ ResponseTo(t, f))
<1> DEFINE Goal == \/ Untouched \/ Moved
                   \/ \E l \in Loops : Inserted(l) \/ Refused(l)
                   \/ \E t \in tracked, e \in Errors \cup {"response"}, f \in 0..MaxPolls :
                         Taken(t, e, f) /\ (f = t.poll \/ ResponseTo(t, f))
<1>0. /\ pc \in [Loops -> {"wait", "take", "decide", "track", "push", "done"}]
      /\ \A t \in tracked : t.poll \in 0..MaxPolls
  BY LoopAssumption DEF TInv, TypeOK, LoopTypes, ReportTypes, Tracked, Uids
<1>1. ASSUME NEW l \in Loops, LoopTake(l) PROVE Goal
  <2>1. Untouched \/ \E t \in tracked : Taken(t, "WrRespNotRcvd", t.poll)
    BY <1>1, PostDummyEffect DEF LoopTake, Errors
  <2> QED
    BY <1>0, <2>1 DEF Errors
<1>2. CASE WriteFailed
  <2>1. Untouched \/ \E t \in tracked : Taken(t, "WrReqInitFailed", t.poll)
    BY <1>2, PostDummyEffect DEF WriteFailed, Errors
  <2> QED
    BY <1>0, <2>1 DEF Errors
<1>3. CASE RespReceive
  <2>1. CASE UNCHANGED <<tracked, anaQ>>
    BY <1>3, <2>1 DEF RespReceive, Untouched
  <2>2. ASSUME respQ # <<>>, NEW t \in Key(Head(respQ).loop, Head(respQ).seq), Remove(t),
               Analyse(Head(respQ).loop, t.poll, "response", Head(respQ).for)
        PROVE  Goal
    <3>1. Head(respQ).for \in 0..MaxPolls
      <4>1. Head(respQ) \in Response
        BY <2>2, TailFacts DEF TInv, TypeOK, RespTypes
      <4> QED
        BY <4>1 DEF Response
    <3>2. t \in tracked /\ Taken(t, "response", Head(respQ).for) /\ ResponseTo(t, Head(respQ).for)
      BY <1>3, <2>2 DEF RespReceive, Key, Remove, Analyse, Taken, ResponseTo
    <3> QED
      BY <3>1, <3>2
  <2> QED
    BY <1>3, <2>1, <2>2 DEF RespReceive
<1>4. ASSUME NEW l \in Loops, LoopDecide(l) PROVE Goal
  <2>1. Untouched \/ Refused(l)
    BY <1>0, <1>4 DEF LoopDecide, Goto, Again, Analyse, Untouched, Refused
  <2> QED
    BY <2>1
<1>5. ASSUME NEW l \in Loops, LoopTrack(l) PROVE Goal
  <2>1. Inserted(l)
    BY <1>0, <1>5 DEF LoopTrack, Goto, InsertForTracking, Inserted, anaVars
  <2> QED
    BY <2>1
<1>6. CASE LogAnalysis
  BY <1>6 DEF LogAnalysis, Moved
<1>7. CASE ~(\/ WriteFailed \/ RespReceive \/ LogAnalysis
             \/ \E l \in Loops : LoopTake(l) \/ LoopDecide(l) \/ LoopTrack(l))
  BY <1>7 DEF Next, vars, Monitor, anaVars, LoopReceive, LoopPush, PollArrives, ResponseArrives,
     Trigger, PublishWrite, SetStop, MainStops, BreakLoops, BreakPoll, BreakResp, Join, Untouched
<1> QED
  BY <1>1, <1>2, <1>3, <1>4, <1>5, <1>6, <1>7

SamePoll(x, y) == x.loop = y.loop /\ x.poll = y.poll

\* At most one analysis of a poll is awaited, waiting or done.
OnceWaiting == \A i, j \in DOMAIN anaQ : SamePoll(anaQ[i], anaQ[j]) => i = j
OnceLogged  == \A a, b \in logged : SamePoll(a, b) => a = b
OnceBoth    == \A a \in logged, i \in DOMAIN anaQ : ~SamePoll(a, anaQ[i])
NotYet      == \A t \in tracked : /\ \A i \in DOMAIN anaQ : ~SamePoll(t, anaQ[i])
                                 /\ \A a \in logged : ~SamePoll(t, a)
Once == OnceWaiting /\ OnceLogged /\ OnceBoth /\ NotYet

AllPast == /\ \A t \in tracked : Past(t.loop, t.poll)
           /\ \A i \in DOMAIN anaQ : Past(anaQ[i].loop, anaQ[i].poll)
           /\ \A a \in logged : Past(a.loop, a.poll)

RInv == Once /\ AllPast

\* Once is AnalysedOnce, of ControlLoop, without its sets.
LEMMA OnceIsAnalysedOnce == Once => AnalysedOnce
  BY DEF Once, OnceWaiting, OnceLogged, OnceBoth, NotYet, SamePoll, AnalysedOnce,
     Waiting, Reports, IsTracked

\* A report on a poll that has none, and that is not tracked any more.
LEMMA AddReport ==
  ASSUME TInv, Once, NEW a \in Analysis, anaQ' = Append(anaQ, a), UNCHANGED logged,
         tracked' \subseteq tracked, \A t \in tracked' : ~SamePoll(t, a),
         \A i \in DOMAIN anaQ : ~SamePoll(anaQ[i], a), \A b \in logged : ~SamePoll(b, a)
  PROVE  Once'
<1>1. /\ DOMAIN anaQ = 1..Len(anaQ) /\ DOMAIN anaQ' = 1..(Len(anaQ) + 1) /\ Len(anaQ) \in Nat
      /\ (\A i \in 1..Len(anaQ) : anaQ'[i] = anaQ[i]) /\ anaQ'[Len(anaQ) + 1] = a
  BY AppendFacts DEF TInv, TypeOK, ReportTypes
<1>2. OnceWaiting'
  <2>1. ASSUME NEW i \in DOMAIN anaQ', NEW j \in DOMAIN anaQ', SamePoll(anaQ'[i], anaQ'[j])
        PROVE  i = j
    <3>1. CASE i \in DOMAIN anaQ /\ j \in DOMAIN anaQ
      BY <1>1, <2>1, <3>1 DEF Once, OnceWaiting
    <3>2. CASE i \in DOMAIN anaQ /\ j = Len(anaQ) + 1
      BY <1>1, <2>1, <3>2
    <3>3. CASE i = Len(anaQ) + 1 /\ j \in DOMAIN anaQ
      BY <1>1, <2>1, <3>3 DEF SamePoll
    <3> QED
      BY <1>1, <3>1, <3>2, <3>3
  <2> QED
    BY <2>1 DEF OnceWaiting, SamePoll
<1>3. OnceLogged'
  BY DEF Once, OnceLogged, SamePoll
<1>4. OnceBoth'
  BY <1>1 DEF Once, OnceBoth, SamePoll
<1>5. NotYet'
  BY <1>1 DEF Once, NotYet, SamePoll
<1> QED
  BY <1>2, <1>3, <1>4, <1>5 DEF Once

\* The entries and reports have their types.
LEMMA ReportFacts ==
  ASSUME TInv
  PROVE  /\ \A t \in tracked : t.loop \in Loops /\ t.poll \in Uids
         /\ \A i \in DOMAIN anaQ : anaQ[i].loop \in Loops /\ anaQ[i].poll \in Uids
         /\ \A a \in logged : a.loop \in Loops /\ a.poll \in Uids
<1>1. \A i \in DOMAIN anaQ : anaQ[i] \in Analysis
  BY DEF TInv, TypeOK, ReportTypes
<1> QED
  BY <1>1 DEF TInv, TypeOK, ReportTypes, Tracked, Analysis

\* Reports and tracked polls keep apart.
LEMMA NextRInv == TInv /\ OInv /\ QInv /\ RInv /\ [Next]_vars => RInv'
<1> SUFFICES ASSUME TInv, OInv, QInv, RInv, [Next]_vars PROVE RInv'
  OBVIOUS
<1>1. ASSUME NEW l \in Loops, NEW u \in Uids, Past(l, u) PROVE Past(l, u)'
  BY <1>1, PastStays
<1>2. \A t \in tracked : t.poll <= cur'[t.loop] /\ (pc'[t.loop] \in {"take", "decide", "track"} => t.poll < cur'[t.loop])
  BY <1>1, ReportFacts DEF RInv, AllPast, Past
<1>3. \A i \in DOMAIN anaQ : /\ anaQ[i].poll <= cur'[anaQ[i].loop]
                             /\ pc'[anaQ[i].loop] \in {"take", "decide", "track"} => anaQ[i].poll < cur'[anaQ[i].loop]
  BY <1>1, ReportFacts DEF RInv, AllPast, Past
<1>4. \A a \in logged : a.poll <= cur'[a.loop] /\ (pc'[a.loop] \in {"take", "decide", "track"} => a.poll < cur'[a.loop])
  BY <1>1, ReportFacts DEF RInv, AllPast, Past
<1>5. /\ cur \in [Loops -> 0..MaxPolls] /\ MaxPolls \in Nat
      /\ DOMAIN anaQ = 1..Len(anaQ) /\ Len(anaQ) \in Nat /\ anaQ \in Seq(Analysis)
  BY LoopAssumption DEF TInv, TypeOK, LoopTypes, ReportTypes
<1>6. CASE Untouched
  <2>1. Once'
    BY <1>6 DEF Untouched, RInv, Once, OnceWaiting, OnceLogged, OnceBoth, NotYet
  <2>2. AllPast'
    BY <1>2, <1>3, <1>4, <1>6 DEF Untouched, AllPast, Past
  <2> QED
    BY <2>1, <2>2 DEF RInv
<1>7. CASE Moved
  <2>1. /\ DOMAIN anaQ' = 1..(Len(anaQ) - 1) /\ 1 \in DOMAIN anaQ
        /\ \A i \in DOMAIN anaQ' : i + 1 \in DOMAIN anaQ /\ i + 1 # 1 /\ anaQ'[i] = anaQ[i + 1]
        /\ \A a \in logged' : a \in logged \/ a = anaQ[1]
    BY <1>5, <1>7, TailFacts DEF Moved
  <2>2. UNCHANGED tracked
    BY <1>7 DEF Moved
  <2>3. OnceWaiting'
    BY <1>5, <2>1 DEF RInv, Once, OnceWaiting, SamePoll
  <2>4. OnceLogged' /\ OnceBoth' /\ NotYet'
    BY <2>1, <2>2 DEF RInv, Once, OnceWaiting, OnceLogged, OnceBoth, NotYet, SamePoll
  <2>5. AllPast'
    BY <1>2, <1>3, <1>4, <2>1, <2>2 DEF AllPast, Past
  <2> QED
    BY <2>3, <2>4, <2>5 DEF RInv, Once
<1>8. ASSUME NEW l \in Loops, Inserted(l) PROVE RInv'
  <2> DEFINE e == [loop |-> l, seq |-> polls[cur[l]].seq, poll |-> cur[l]]
  <2>1. pc[l] = "track" /\ pc'[l] = "push" /\ UNCHANGED <<cur, anaQ, logged>>
        /\ (\A t \in tracked' : t \in tracked \/ (t.loop = l /\ t.poll = cur[l]))
    BY <1>8 DEF Inserted
  <2>2. /\ \A i \in DOMAIN anaQ : anaQ[i].loop # l \/ anaQ[i].poll < cur[l]
        /\ \A a \in logged : a.loop # l \/ a.poll < cur[l]
    BY <2>1 DEF RInv, AllPast, Past
  <2>3. cur[l] \in 0..MaxPolls /\ (\A i \in DOMAIN anaQ : anaQ[i].poll \in Uids)
        /\ (\A a \in logged : a.poll \in Uids)
    BY <1>5, ReportFacts
  <2>4. NotYet'
    BY <1>5, <2>1, <2>2, <2>3 DEF RInv, Once, NotYet, SamePoll, Uids
  <2>5. OnceWaiting' /\ OnceLogged' /\ OnceBoth'
    BY <2>1 DEF RInv, Once, OnceWaiting, OnceLogged, OnceBoth
  <2>6. AllPast'
    BY <1>2, <1>3, <1>4, <1>5, <2>1, <2>3 DEF AllPast, Past
  <2> QED
    BY <2>4, <2>5, <2>6 DEF RInv, Once
<1>9. ASSUME NEW l \in Loops, Refused(l) PROVE RInv'
  <2> DEFINE a == [loop |-> l, poll |-> cur[l], resp |-> "WrReqNotSent", for |-> cur[l]]
  <2>1. pc[l] = "decide" /\ pc'[l] \in {"wait", "done"} /\ UNCHANGED <<cur, tracked, logged>>
        /\ anaQ' = Append(anaQ, a)
    BY <1>9 DEF Refused
  <2>2. /\ \A i \in DOMAIN anaQ : anaQ[i].loop # l \/ anaQ[i].poll < cur[l]
        /\ \A b \in logged : b.loop # l \/ b.poll < cur[l]
        /\ \A t \in tracked : t.loop # l \/ t.poll < cur[l]
    BY <2>1 DEF RInv, AllPast, Past
  <2>3. cur[l] \in Uids /\ cur[l] \in 0..MaxPolls
    BY <1>5, <2>1, SMTT(60) DEF TInv, TypeOK, CurTypes, PollTypes, Uids
  <2>4. a \in Analysis /\ a.loop = l /\ a.poll = cur[l]
    BY <2>3 DEF Analysis, Errors
  <2>5. /\ \A i \in DOMAIN anaQ : ~SamePoll(anaQ[i], a)
        /\ \A b \in logged : ~SamePoll(b, a)
        /\ \A t \in tracked : ~SamePoll(t, a)
    BY <2>2, <2>3, <2>4 DEF SamePoll
  <2>6. Once'
    BY <2>1, <2>4, <2>5, AddReport DEF RInv
  <2>7. AllPast'
    <3>1. /\ DOMAIN anaQ' = 1..(Len(anaQ) + 1) /\ (\A i \in 1..Len(anaQ) : anaQ'[i] = anaQ[i])
          /\ anaQ'[Len(anaQ) + 1] = a
      BY <1>5, <2>1, <2>4, AppendFacts
    <3> QED
      BY <1>2, <1>3, <1>4, <1>5, <2>1, <2>3, <2>4, <3>1 DEF AllPast, Past
  <2> QED
    BY <2>6, <2>7 DEF RInv
<1>10. ASSUME NEW t \in tracked, NEW e \in Errors \cup {"response"}, NEW f \in 0..MaxPolls, Taken(t, e, f)
       PROVE  RInv'
  <2> DEFINE a == [loop |-> t.loop, poll |-> t.poll, resp |-> e, for |-> f]
  <2>1. tracked' = tracked \ {t} /\ UNCHANGED logged /\ anaQ' = Append(anaQ, a)
    BY <1>10 DEF Taken
  <2>2. a \in Analysis /\ a.loop = t.loop /\ a.poll = t.poll
    BY ReportFacts DEF Analysis
  <2>3. /\ \A i \in DOMAIN anaQ : ~SamePoll(anaQ[i], a)
        /\ \A b \in logged : ~SamePoll(b, a)
    BY <2>2 DEF RInv, Once, NotYet, SamePoll
  <2>4. \A o \in tracked' : ~SamePoll(o, a)
    BY <2>1, <2>2 DEF OInv, OneTracked, SamePoll
  <2>5. Once'
    BY <2>1, <2>2, <2>3, <2>4, AddReport DEF RInv
  <2>6. AllPast'
    <3>1. /\ DOMAIN anaQ' = 1..(Len(anaQ) + 1) /\ (\A i \in 1..Len(anaQ) : anaQ'[i] = anaQ[i])
          /\ anaQ'[Len(anaQ) + 1] = a
      BY <1>5, <2>1, <2>2, AppendFacts
    <3> QED
      BY <1>2, <1>3, <1>4, <1>5, <2>1, <2>2, <3>1 DEF AllPast, Past
  <2> QED
    BY <2>5, <2>6 DEF RInv
<1> QED
  BY Effects, <1>6, <1>7, <1>8, <1>9, <1>10

\* The map of tracked polls decides who reports a poll: none is reported twice,
\* whichever of the three threads that may report it comes first.
THEOREM AnalysedOnceCorrect == Spec => []AnalysedOnce
<1>1. Init => RInv
  BY DEF Init, RInv, Once, OnceWaiting, OnceLogged, OnceBoth, NotYet, AllPast
<1>2. RInv => AnalysedOnce
  BY OnceIsAnalysedOnce DEF RInv
<1> QED
  BY <1>1, <1>2, NextRInv, TInvHolds, OInvHolds, QInvHolds, PTL DEF Spec

-----------------------------------------------------------------------------
(* Whose response it is.  Two polls with one driver_seq are one message     *)
(* that was delivered twice; entries, writes and responses carry the        *)
(* driver_seq of their poll.                                                *)

Numbered(x, u) == u \in DOMAIN polls /\ polls[u].seq = x /\ x # 0
SameSeq == \A i, j \in DOMAIN polls : polls[i].seq = polls[j].seq /\ polls[i].seq # 0 => polls[i] = polls[j]
TrackedSeq == \A t \in tracked : Numbered(t.seq, t.poll)
WrQSeq     == \A i \in DOMAIN wrQ : Numbered(wrQ[i].seq, wrQ[i].poll)
WrittenSeq == \A l \in Loops : \A i \in DOMAIN written[l] : Numbered(written[l][i].seq, written[l][i].poll)
RespSeq    == \A i \in DOMAIN respQ : respQ[i].seq = 0 \/ Numbered(respQ[i].seq, respQ[i].for)
Fits(a) == \/ a.for = a.poll
           \/ \E i, j \in DOMAIN polls : i # j /\ polls[i] = polls[j] /\ i \in {a.poll, a.for}
AllFit == (\A i \in DOMAIN anaQ : Fits(anaQ[i])) /\ (\A a \in logged : Fits(a))

MInv == SameSeq /\ TrackedSeq /\ WrQSeq /\ WrittenSeq /\ RespSeq /\ AllFit

\* The polls that are there keep their numbers.
LEMMA PollsOnlyGrow ==
  ASSUME TInv, [Next]_vars
  PROVE  \A i \in DOMAIN polls : i \in DOMAIN polls' /\ polls'[i] = polls[i]
<1>1. CASE PollArrives
  BY <1>1, PollsKept
<1>2. CASE ~PollArrives
  <2>1. UNCHANGED polls
    BY <1>2 DEF Next, vars, Monitor, LoopReceive, LoopTake, LoopDecide, LoopTrack, LoopPush,
       ResponseArrives, Trigger, PublishWrite, WriteFailed,
       RespReceive, LogAnalysis, SetStop, MainStops, BreakLoops, BreakPoll, BreakResp, Join
  <2> QED
    BY <2>1
<1> QED
  BY <1>1, <1>2

\* A new poll has a number of its own, one that is delivered again that of itself.
LEMMA NextSameSeq == TInv /\ SameSeq /\ [Next]_vars => SameSeq'
<1> SUFFICES ASSUME TInv, SameSeq, [Next]_vars PROVE SameSeq'
  OBVIOUS
<1>1. CASE PollArrives
  <2>1. PICK m \in Poll :
             /\ polls' = Append(polls, m)
             /\ m.seq = Len(polls) + 1 \/ m.seq = 0 \/ \E i \in DOMAIN polls : m = polls[i]
    BY <1>1, PollsGrow
  <2>2. /\ DOMAIN polls = 1..Len(polls) /\ DOMAIN polls' = 1..(Len(polls) + 1) /\ Len(polls) \in Nat
        /\ (\A i \in DOMAIN polls : polls'[i] = polls[i]) /\ polls'[Len(polls) + 1] = m
    <3>1. polls \in Seq(Poll) /\ Append(polls, m)[Len(polls) + 1] = m
      BY AppendFacts DEF TInv, TypeOK, PollTypes
    <3>2. polls'[Len(polls) + 1] = m
      BY <2>1, <3>1
    <3> QED
      BY <1>1, <3>2, PollsKept
  <2>3. \A i \in DOMAIN polls : polls[i].seq <= i /\ polls[i].seq \in Nat
    <3>1. \A i \in DOMAIN polls : polls[i] \in Poll
      BY DEF TInv, TypeOK, PollTypes
    <3> QED
      BY <3>1, LoopAssumption DEF TInv, SeqSmall, Poll
  <2>4. \A i \in DOMAIN polls : polls[i].seq = m.seq /\ m.seq # 0 => polls[i] = m
    <3>1. CASE m.seq = Len(polls) + 1
      BY <2>2, <2>3, <3>1
    <3>2. CASE \E j \in DOMAIN polls : m = polls[j]
      BY <3>2 DEF SameSeq
    <3> QED
      BY <2>1, <3>1, <3>2
  <2> QED
    BY <2>2, <2>4 DEF SameSeq
<1>2. CASE ~PollArrives
  <2>1. UNCHANGED polls
    BY <1>2 DEF Next, vars, Monitor, LoopReceive, LoopTake, LoopDecide, LoopTrack, LoopPush,
       ResponseArrives, Trigger, PublishWrite, WriteFailed,
       RespReceive, LogAnalysis, SetStop, MainStops, BreakLoops, BreakPoll, BreakResp, Join
  <2> QED
    BY <2>1 DEF SameSeq
<1> QED
  BY <1>1, <1>2

\* Entries carry the number of their poll.
LEMMA NextTrackedSeq == TInv /\ MInv /\ [Next]_vars => TrackedSeq'
<1> SUFFICES ASSUME TInv, MInv, [Next]_vars PROVE TrackedSeq'
  OBVIOUS
<1>1. ASSUME NEW t \in tracked PROVE Numbered(t.seq, t.poll)'
  BY PollsOnlyGrow DEF MInv, TrackedSeq, Numbered
<1>2. ASSUME NEW l \in Loops, Inserted(l) PROVE TrackedSeq'
  <2>1. cur[l] \in DOMAIN polls /\ polls[cur[l]].seq # 0
    BY <1>2, GoodPoll, LoopAssumption DEF Inserted
  <2>2. cur[l] \in DOMAIN polls' /\ polls'[cur[l]] = polls[cur[l]]
    BY <2>1, PollsOnlyGrow
  <2>3. \A t \in tracked' : t \in tracked \/ (t.seq = polls[cur[l]].seq /\ t.poll = cur[l])
    BY <1>2 DEF Inserted
  <2>4. \A t \in tracked : t.poll \in DOMAIN polls' /\ polls'[t.poll].seq = t.seq /\ t.seq # 0
    BY <1>1 DEF Numbered
  <2> QED
    BY <2>1, <2>2, <2>3, <2>4 DEF TrackedSeq, Numbered
<1>3. CASE tracked' \subseteq tracked
  BY <1>1, <1>3 DEF TrackedSeq, Numbered
<1> QED
  BY <1>2, <1>3, Effects DEF Untouched, Moved, Refused, Taken

\* So do the writes.
LEMMA NextWriteSeq == TInv /\ MInv /\ [Next]_vars => WrQSeq' /\ WrittenSeq'
<1> SUFFICES ASSUME TInv, MInv, [Next]_vars PROVE WrQSeq' /\ WrittenSeq'
  OBVIOUS
<1>1. /\ \A i \in DOMAIN wrQ : wrQ[i].poll \in DOMAIN polls' /\ polls'[wrQ[i].poll].seq = wrQ[i].seq /\ wrQ[i].seq # 0
      /\ \A l \in Loops : \A i \in DOMAIN written[l] :
           /\ written[l][i].poll \in DOMAIN polls' /\ polls'[written[l][i].poll].seq = written[l][i].seq
           /\ written[l][i].seq # 0
  BY PollsOnlyGrow DEF MInv, WrQSeq, WrittenSeq, Numbered
<1>2. CASE UNCHANGED <<wrQ, written>>
  BY <1>1, <1>2 DEF WrQSeq, WrittenSeq, Numbered
<1>3. ASSUME NEW l \in Loops, LoopPush(l) PROVE WrQSeq' /\ WrittenSeq'
  <2> DEFINE w == [loop |-> l, seq |-> polls[cur[l]].seq, poll |-> cur[l]]
  <2>1. Numbered(polls[cur[l]].seq, cur[l]) /\ w \in WriteOp
    BY <1>3, GoodPoll DEF LoopPush, Numbered, WriteOp
  <2>2. UNCHANGED <<written, polls>> /\ wrQ' = Append(wrQ, w)
    BY <1>3 DEF LoopPush
  <2>3. DOMAIN wrQ' = 1..(Len(wrQ) + 1) /\ DOMAIN wrQ = 1..Len(wrQ) /\ Len(wrQ) \in Nat
        /\ (\A i \in 1..Len(wrQ) : wrQ'[i] = wrQ[i]) /\ wrQ'[Len(wrQ) + 1] = w
    BY <2>1, <2>2, AppendFacts DEF TInv, TypeOK, WriteTypes
  <2> QED
    BY <1>1, <2>1, <2>2, <2>3 DEF WrQSeq, WrittenSeq, Numbered
<1>4. CASE PublishWrite
  <2>1. wrQ # <<>> /\ wrQ' = Tail(wrQ) /\ UNCHANGED polls
    BY <1>4 DEF PublishWrite, PopAndPublish
  <2>2. Head(wrQ) \in WriteOp /\ Head(wrQ) = wrQ[1] /\ 1 \in DOMAIN wrQ
        /\ \A i \in DOMAIN wrQ' : i + 1 \in DOMAIN wrQ /\ wrQ'[i] = wrQ[i + 1]
    BY <2>1, TailFacts DEF TInv, TypeOK, WriteTypes
  <2>3. WrQSeq'
    BY <1>1, <2>2 DEF WrQSeq, Numbered
  <2>4. CASE UNCHANGED written
    BY <1>1, <2>3, <2>4 DEF WrittenSeq, Numbered
  <2>5. CASE written' = [written EXCEPT ![Head(wrQ).loop] = Append(@, Head(wrQ))]
    <3>1. ASSUME NEW l \in Loops, NEW i \in DOMAIN written'[l]
          PROVE  Numbered(written'[l][i].seq, written'[l][i].poll)
      <4>0. written \in [Loops -> Seq(WriteOp)] /\ Head(wrQ).loop \in Loops
        BY <2>2 DEF TInv, TypeOK, WriteTypes, WriteOp
      <4>1. CASE l # Head(wrQ).loop
        BY <2>5, <3>1, <4>0, <4>1 DEF MInv, WrittenSeq
      <4>2. CASE l = Head(wrQ).loop
        <5>1. DOMAIN written'[l] = 1..(Len(written[l]) + 1) /\ DOMAIN written[l] = 1..Len(written[l])
              /\ Len(written[l]) \in Nat
              /\ (\A k \in 1..Len(written[l]) : written'[l][k] = written[l][k])
              /\ written'[l][Len(written[l]) + 1] = Head(wrQ)
          BY <2>2, <2>5, <4>0, <4>2, AppendFacts
        <5>2. Numbered(Head(wrQ).seq, Head(wrQ).poll)
          BY <2>2 DEF MInv, WrQSeq
        <5> QED
          BY <3>1, <5>1, <5>2 DEF MInv, WrittenSeq
      <4> QED
        BY <4>1, <4>2
    <3> QED
      BY <2>1, <2>3, <3>1 DEF WrittenSeq, Numbered
  <2> QED
    BY <1>4, <2>4, <2>5 DEF PublishWrite, PopAndPublish
<1> QED
  BY <1>2, <1>3, <1>4 DEF Next, vars, Monitor, wrVars, LoopReceive, LoopTake, LoopDecide, LoopTrack,
     PollArrives, ResponseArrives, Trigger, WriteFailed,
     RespReceive, LogAnalysis, SetStop, MainStops, BreakLoops, BreakPoll, BreakResp, Join

\* And the responses, but for those of other applications.
LEMMA NextRespSeq == TInv /\ MInv /\ [Next]_vars => RespSeq'
<1> SUFFICES ASSUME TInv, MInv, [Next]_vars PROVE RespSeq'
  OBVIOUS
<1>1. \A i \in DOMAIN respQ : \/ respQ[i].seq = 0
                               \/ /\ respQ[i].for \in DOMAIN polls' /\ polls'[respQ[i].for].seq = respQ[i].seq
                                  /\ respQ[i].seq # 0
  BY PollsOnlyGrow DEF MInv, RespSeq, Numbered
<1>2. CASE UNCHANGED respQ
  BY <1>1, <1>2 DEF RespSeq, Numbered
<1>3. CASE ResponseArrives
  <2>1. PICK l \in Loops :
       \/ \E i \in DOMAIN written[l] :
            respQ' = Append(respQ, [loop |-> l, seq |-> written[l][i].seq,
                                    for |-> written[l][i].poll])
       \/ respQ' = Append(respQ, [loop |-> l, seq |-> 0, for |-> 0])
    BY <1>3 DEF ResponseArrives
  <2>2. \A i \in DOMAIN written[l] : written[l][i] \in WriteOp
    BY DEF TInv, TypeOK, WriteTypes
  <2>3. PICK r : respQ' = Append(respQ, r) /\ r \in Response /\ (r.seq = 0 \/ Numbered(r.seq, r.for))
    <3>1. CASE respQ' = Append(respQ, [loop |-> l, seq |-> 0, for |-> 0])
      BY <3>1, LoopAssumption DEF Response
    <3>2. ASSUME NEW i \in DOMAIN written[l],
                 respQ' = Append(respQ, [loop |-> l, seq |-> written[l][i].seq,
                                         for |-> written[l][i].poll])
          PROVE \E r : respQ' = Append(respQ, r) /\ r \in Response /\ (r.seq = 0 \/ Numbered(r.seq, r.for))
      <4>1. written[l][i].seq \in 0..MaxPolls /\ written[l][i].poll \in 0..MaxPolls
        BY <2>2, LoopAssumption DEF WriteOp, Uids
      <4>2. Numbered(written[l][i].seq, written[l][i].poll)
        BY DEF MInv, WrittenSeq
      <4> QED
        BY <3>2, <4>1, <4>2 DEF Response
    <3> QED
      BY <2>1, <3>1, <3>2
  <2>4. DOMAIN respQ' = 1..(Len(respQ) + 1) /\ DOMAIN respQ = 1..Len(respQ) /\ Len(respQ) \in Nat
        /\ (\A i \in 1..Len(respQ) : respQ'[i] = respQ[i]) /\ respQ'[Len(respQ) + 1] = r
    BY <2>3, AppendFacts DEF TInv, TypeOK, RespTypes
  <2>5. UNCHANGED polls
    BY <1>3 DEF ResponseArrives
  <2> QED
    BY <1>1, <2>3, <2>4, <2>5 DEF RespSeq, Numbered
<1>4. CASE RespReceive /\ respQ # <<>>
  <2>1. UNCHANGED polls /\ respQ' = Tail(respQ)
    BY <1>4 DEF RespReceive
  <2>2. \A i \in DOMAIN respQ' : i + 1 \in DOMAIN respQ /\ respQ'[i] = respQ[i + 1]
    BY <1>4, <2>1, TailFacts DEF TInv, TypeOK, RespTypes
  <2> QED
    BY <1>1, <2>2 DEF RespSeq, Numbered
<1>5. RespReceive /\ respQ = <<>> => UNCHANGED respQ
  BY DEF RespReceive
<1> QED
  BY <1>2, <1>3, <1>4, <1>5 DEF Next, vars, Monitor, respVars, LoopReceive, LoopTake, LoopDecide,
     LoopTrack, LoopPush, PollArrives, Trigger, PublishWrite, WriteFailed,
     LogAnalysis, SetStop, MainStops, BreakLoops, BreakPoll, BreakResp, Join

\* A report fits its poll.
LEMMA NextAllFit == TInv /\ MInv /\ [Next]_vars => AllFit'
<1> SUFFICES ASSUME TInv, MInv, [Next]_vars PROVE AllFit'
  OBVIOUS
<1> DEFINE FitsNow(a) == \/ a.for = a.poll
                         \/ \E i, j \in DOMAIN polls' : i # j /\ polls'[i] = polls'[j] /\ i \in {a.poll, a.for}
<1>1. ASSUME NEW a, Fits(a) PROVE FitsNow(a)
  BY <1>1, PollsOnlyGrow DEF Fits
<1>2. (\A i \in DOMAIN anaQ : FitsNow(anaQ[i])) /\ (\A a \in logged : FitsNow(a))
  BY <1>1 DEF MInv, AllFit
<1>3. anaQ \in Seq(Analysis) /\ DOMAIN anaQ = 1..Len(anaQ) /\ Len(anaQ) \in Nat
  BY DEF TInv, TypeOK, ReportTypes
<1>4. ASSUME NEW a \in Analysis, FitsNow(a), anaQ' = Append(anaQ, a), UNCHANGED logged PROVE AllFit'
  <2>1. DOMAIN anaQ' = 1..(Len(anaQ) + 1)
        /\ (\A i \in 1..Len(anaQ) : anaQ'[i] = anaQ[i]) /\ anaQ'[Len(anaQ) + 1] = a
    BY <1>3, <1>4, AppendFacts
  <2>2. \A i \in DOMAIN anaQ' : FitsNow(anaQ'[i])
    BY <1>2, <1>3, <1>4, <2>1
  <2> QED
    BY <1>2, <1>4, <2>2 DEF AllFit, Fits
<1>5. CASE UNCHANGED <<anaQ, logged>>
  BY <1>2, <1>5 DEF AllFit, Fits
<1>6. CASE Moved
  <2>1. 1 \in DOMAIN anaQ
        /\ (\A i \in DOMAIN anaQ' : i + 1 \in DOMAIN anaQ /\ anaQ'[i] = anaQ[i + 1])
        /\ \A a \in logged' : a \in logged \/ a = anaQ[1]
    BY <1>3, <1>6, TailFacts DEF Moved
  <2>2. (\A i \in DOMAIN anaQ' : FitsNow(anaQ'[i])) /\ (\A a \in logged' : FitsNow(a))
    BY <1>2, <2>1
  <2> QED
    BY <2>2 DEF AllFit, Fits
<1>7. ASSUME NEW l \in Loops, Refused(l) PROVE AllFit'
  <2>1. cur[l] \in Uids /\ cur[l] \in 0..MaxPolls
    BY <1>7, LoopAssumption DEF Refused, TInv, TypeOK, CurTypes, PollTypes, Uids
  <2>2. [loop |-> l, poll |-> cur[l], resp |-> "WrReqNotSent", for |-> cur[l]] \in Analysis
    BY <2>1 DEF Analysis, Errors
  <2> QED
    BY <1>4, <1>7, <2>2 DEF Refused
<1>8. ASSUME NEW t \in tracked, NEW e \in Errors \cup {"response"}, NEW f \in 0..MaxPolls,
             Taken(t, e, f), f = t.poll \/ ResponseTo(t, f)
      PROVE  AllFit'
  <2> DEFINE a == [loop |-> t.loop, poll |-> t.poll, resp |-> e, for |-> f]
  <2>1. a \in Analysis
    BY ReportFacts DEF Analysis
  <2>2. CASE f = t.poll
    BY <1>4, <1>8, <2>1, <2>2 DEF Taken
  <2>3. CASE f # t.poll
    <3>1. Head(respQ) = respQ[1] /\ 1 \in DOMAIN respQ
      BY <1>8, <2>3, TailFacts DEF ResponseTo, TInv, TypeOK, RespTypes
    <3>2. Numbered(t.seq, t.poll)
      BY DEF MInv, TrackedSeq
    <3>3. Numbered(t.seq, f)
      BY <1>8, <2>3, <3>1, <3>2 DEF ResponseTo, MInv, RespSeq, Numbered
    <3>4. polls[t.poll] = polls[f] /\ t.poll \in DOMAIN polls /\ f \in DOMAIN polls
      BY <3>2, <3>3 DEF MInv, SameSeq, Numbered
    <3>5. FitsNow(a)
      BY <2>3, <3>4, PollsOnlyGrow
    <3> QED
      BY <1>4, <1>8, <2>1, <3>5 DEF Taken
  <2> QED
    BY <2>2, <2>3
<1> QED
  BY Effects, <1>5, <1>6, <1>7, <1>8 DEF Untouched, Inserted

\* A response is analysed with the poll whose write it answers, or with another
\* delivery of the same poll.
THEOREM OwnResponseCorrect == Spec => []OwnResponse
<1>1. Init => MInv
  BY DEF Init, MInv, SameSeq, TrackedSeq, WrQSeq, WrittenSeq, RespSeq, AllFit
<1>2. TInv /\ MInv /\ [Next]_vars => MInv'
  BY NextSameSeq, NextTrackedSeq, NextWriteSeq, NextRespSeq, NextAllFit DEF MInv
<1>3. MInv => OwnResponse
  BY DEF MInv, AllFit, Fits, OwnResponse
<1> QED
  BY <1>1, <1>2, <1>3, TInvHolds, PTL DEF Spec

\* Both together: a poll has at most one report, and in it its own response.
THEOREM ReportsCorrect == Spec => []ReportsAreRight
<1>1. AnalysedOnce /\ OwnResponse => ReportsAreRight
  BY DEF ReportsAreRight
<1> QED
  BY <1>1, AnalysedOnceCorrect, OwnResponseCorrect, PTL

-----------------------------------------------------------------------------
(* The order of writes.  A loop's monitor has asked for all of its writes   *)
(* before it takes the next poll, and one thread publishes them.            *)

Over(l, u) == u <= cur[l] /\ (pc[l] \notin {"wait", "done"} => u < cur[l])
WrQOrder == \A i, j \in DOMAIN wrQ : i < j /\ wrQ[i].loop = wrQ[j].loop => wrQ[i].poll < wrQ[j].poll
WrittenFirst ==
  \A l \in Loops : \A k \in DOMAIN written[l], i \in DOMAIN wrQ :
    wrQ[i].loop = l => written[l][k].poll < wrQ[i].poll
AllOver == /\ \A i \in DOMAIN wrQ : Over(wrQ[i].loop, wrQ[i].poll)
           /\ \A l \in Loops : \A k \in DOMAIN written[l] : Over(l, written[l][k].poll)

WInv == WritesInOrder /\ WrQOrder /\ WrittenFirst /\ AllOver

\* Once asked for, a write stays behind the poll at hand.
LEMMA OverStays ==
  ASSUME TInv, QInv, [Next]_vars, NEW l \in Loops, NEW u \in Uids, Over(l, u)
  PROVE  Over(l, u)'
<1> USE LoopAssumption DEF Uids
<1>1. /\ pc \in [Loops -> {"wait", "take", "decide", "track", "push", "done"}]
      /\ cur \in [Loops -> 0..MaxPolls] /\ MaxPolls \in Nat
  BY DEF TInv, TypeOK, LoopTypes
<1>2. CASE UNCHANGED <<pc, cur>>
  BY <1>2 DEF Over
<1>3. ASSUME NEW k \in Loops, LoopReceive(k) PROVE Over(l, u)'
  <2>1. CASE UNCHANGED cur /\ pc' = [pc EXCEPT ![k] = Again]
    BY <1>1, <2>1 DEF Over, Again
  <2>2. CASE loopQ[k] # <<>> /\ cur' = [cur EXCEPT ![k] = Head(loopQ[k])] /\ \E s : pc' = [pc EXCEPT ![k] = s]
    <3>1. Head(loopQ[k]) = loopQ[k][1] /\ 1 \in DOMAIN loopQ[k] /\ Head(loopQ[k]) \in Uids
      BY <2>2, TailFacts, SMTT(60) DEF TInv, TypeOK, LoopTypes
    <3>2. cur[k] < Head(loopQ[k])
      BY <3>1 DEF QInv, CurFirst
    <3> QED
      BY <1>1, <2>2, <3>1, <3>2 DEF Over
  <2> QED
    BY <1>3, <2>1, <2>2 DEF LoopReceive, Goto
<1>4. ASSUME NEW k \in Loops, LoopTake(k) \/ LoopDecide(k) \/ LoopTrack(k) \/ LoopPush(k)
      PROVE  Over(l, u)'
  <2>1. UNCHANGED cur /\ pc[k] \notin {"wait", "done"}
    BY <1>4 DEF LoopTake, LoopDecide, LoopTrack, LoopPush
  <2>2. \E s : pc' = [pc EXCEPT ![k] = s]
    BY <1>4 DEF LoopTake, LoopDecide, LoopTrack, LoopPush, Goto
  <2> QED
    BY <1>1, <2>1, <2>2 DEF Over
<1>5. CASE ~(\E k \in Loops : Monitor(k))
  <2>1. UNCHANGED <<pc, cur>>
    BY <1>5 DEF Next, vars, loopVars, PollArrives, ResponseArrives, Trigger, PublishWrite, WriteFailed,
       RespReceive, LogAnalysis, SetStop, MainStops, BreakLoops, BreakPoll, BreakResp, Join
  <2> QED
    BY <1>2, <2>1
<1> QED
  BY <1>3, <1>4, <1>5 DEF Monitor

\* The writes have their types.
LEMMA WriteFacts ==
  ASSUME TInv
  PROVE  /\ wrQ \in Seq(WriteOp) /\ DOMAIN wrQ = 1..Len(wrQ) /\ Len(wrQ) \in Nat
         /\ \A i \in DOMAIN wrQ : wrQ[i].loop \in Loops /\ wrQ[i].poll \in Uids
         /\ \A l \in Loops : \A k \in DOMAIN written[l] : written[l][k].poll \in Uids
<1>1. \A i \in DOMAIN wrQ : wrQ[i] \in WriteOp
  BY DEF TInv, TypeOK, WriteTypes
<1>2. \A l \in Loops : \A k \in DOMAIN written[l] : written[l][k] \in WriteOp
  BY DEF TInv, TypeOK, WriteTypes
<1> QED
  BY <1>1, <1>2 DEF TInv, TypeOK, WriteTypes, WriteOp

\* A new write is the last of its loop, and the first one is published first.
LEMMA NextWInv == TInv /\ QInv /\ WInv /\ [Next]_vars => WInv'
<1> SUFFICES ASSUME TInv, QInv, WInv, [Next]_vars PROVE WInv'
  OBVIOUS
<1>1. /\ \A i \in DOMAIN wrQ : wrQ[i].poll <= cur'[wrQ[i].loop]
           /\ (pc'[wrQ[i].loop] \notin {"wait", "done"} => wrQ[i].poll < cur'[wrQ[i].loop])
      /\ \A l \in Loops : \A k \in DOMAIN written[l] : written[l][k].poll <= cur'[l]
           /\ (pc'[l] \notin {"wait", "done"} => written[l][k].poll < cur'[l])
  <2>1. ASSUME NEW l \in Loops, NEW u \in Uids, Over(l, u) PROVE Over(l, u)'
    BY <2>1, OverStays
  <2> QED
    BY <2>1, WriteFacts DEF WInv, AllOver, Over
<1>2. CASE UNCHANGED <<wrQ, written>>
  BY <1>1, <1>2 DEF WInv, WritesInOrder, WrQOrder, WrittenFirst, AllOver, Over
<1>3. ASSUME NEW l \in Loops, LoopPush(l) PROVE WInv'
  <2> DEFINE w == [loop |-> l, seq |-> polls[cur[l]].seq, poll |-> cur[l]]
  <2>1. w \in WriteOp /\ w.loop = l /\ w.poll = cur[l] /\ cur[l] \in 0..MaxPolls /\ MaxPolls \in Nat
    BY <1>3, GoodPoll, LoopAssumption DEF LoopPush, WriteOp, Uids
  <2>2. UNCHANGED <<written, cur>> /\ wrQ' = Append(wrQ, w) /\ pc[l] = "push" /\ pc'[l] \in {"wait", "done"}
    BY <1>3 DEF LoopPush, Goto, Again, TInv, TypeOK, LoopTypes
  <2>3. DOMAIN wrQ' = 1..(Len(wrQ) + 1) /\ DOMAIN wrQ = 1..Len(wrQ) /\ Len(wrQ) \in Nat
        /\ (\A i \in 1..Len(wrQ) : wrQ'[i] = wrQ[i]) /\ wrQ'[Len(wrQ) + 1] = w
    BY <2>1, <2>2, AppendFacts DEF TInv, TypeOK, WriteTypes
  <2>4. /\ \A i \in DOMAIN wrQ : wrQ[i].loop = l => wrQ[i].poll < cur[l]
        /\ \A k \in DOMAIN written[l] : written[l][k].poll < cur[l]
    BY <2>2 DEF WInv, AllOver, Over
  <2>5. WrQOrder'
    <3>1. ASSUME NEW i \in DOMAIN wrQ', NEW j \in DOMAIN wrQ', i < j, wrQ'[i].loop = wrQ'[j].loop
          PROVE  wrQ'[i].poll < wrQ'[j].poll
      <4>1. i \in DOMAIN wrQ /\ wrQ'[i] = wrQ[i]
        BY <2>3, <3>1
      <4>2. CASE j \in DOMAIN wrQ
        BY <2>3, <3>1, <4>1, <4>2 DEF WInv, WrQOrder
      <4>3. CASE j = Len(wrQ) + 1
        BY <2>1, <2>3, <2>4, <3>1, <4>1, <4>3
      <4> QED
        BY <2>3, <4>2, <4>3
    <3> QED
      BY <3>1 DEF WrQOrder
  <2>6. WrittenFirst'
    BY <2>1, <2>2, <2>3, <2>4 DEF WInv, WrittenFirst
  <2>7. AllOver'
    BY <1>1, <2>1, <2>2, <2>3 DEF AllOver, Over
  <2> QED
    BY <2>2, <2>5, <2>6, <2>7 DEF WInv, WritesInOrder
<1>4. CASE PublishWrite
  <2>1. wrQ # <<>> /\ wrQ' = Tail(wrQ) /\ UNCHANGED <<pc, cur>>
    BY <1>4 DEF PublishWrite, PopAndPublish, loopVars
  <2>2. Head(wrQ) \in WriteOp /\ Head(wrQ) = wrQ[1] /\ 1 \in DOMAIN wrQ
        /\ \A i \in DOMAIN wrQ' : i \in Nat /\ 1 < i + 1 /\ i + 1 \in DOMAIN wrQ /\ wrQ'[i] = wrQ[i + 1]
    BY <2>1, TailFacts DEF TInv, TypeOK, WriteTypes
  <2>3. WrQOrder'
    BY <2>2 DEF WInv, WrQOrder
  <2>4. \A i \in DOMAIN wrQ' : Over(wrQ'[i].loop, wrQ'[i].poll)
    BY <2>2 DEF WInv, AllOver
  <2>5. CASE UNCHANGED written
    <3>1. WrittenFirst'
      BY <2>2, <2>5 DEF WInv, WrittenFirst
    <3> QED
      BY <2>1, <2>3, <2>4, <2>5, <3>1 DEF WInv, WritesInOrder, AllOver, Over
  <2>6. CASE written' = [written EXCEPT ![Head(wrQ).loop] = Append(@, Head(wrQ))]
    <3> DEFINE h == wrQ[1].loop
    <3>1. h \in Loops /\ Head(wrQ) = wrQ[1] /\ written \in [Loops -> Seq(WriteOp)]
      BY <2>2, WriteFacts DEF TInv, TypeOK, WriteTypes
    <3>2. /\ \A l \in Loops : l # h => written'[l] = written[l]
          /\ DOMAIN written[h] = 1..Len(written[h]) /\ Len(written[h]) \in Nat
          /\ DOMAIN written'[h] = 1..(Len(written[h]) + 1)
          /\ \A k \in 1..Len(written[h]) : written'[h][k] = written[h][k]
          /\ written'[h][Len(written[h]) + 1] = wrQ[1]
      BY <2>2, <2>6, <3>1, AppendFacts
    <3>3. \A k \in DOMAIN written[h] : written[h][k].poll < wrQ[1].poll
      BY <2>2, <3>1 DEF WInv, WrittenFirst
    <3>4. WritesInOrder'
      <4>1. ASSUME NEW l \in Loops, NEW i \in DOMAIN written'[l], NEW j \in DOMAIN written'[l], i < j
            PROVE  written'[l][i].poll < written'[l][j].poll
        <5>1. CASE l # h
          BY <3>2, <4>1, <5>1 DEF WInv, WritesInOrder
        <5>2. CASE l = h
          <6>1. i \in DOMAIN written[h] /\ written'[l][i] = written[h][i]
            BY <3>2, <4>1, <5>2
          <6>2. CASE j \in DOMAIN written[h]
            BY <3>1, <3>2, <4>1, <5>2, <6>1, <6>2 DEF WInv, WritesInOrder
          <6>3. CASE j = Len(written[h]) + 1
            BY <3>2, <3>3, <5>2, <6>1, <6>3
          <6> QED
            BY <3>2, <5>2, <6>2, <6>3
        <5> QED
          BY <5>1, <5>2
      <4> QED
        BY <4>1 DEF WritesInOrder
    <3>5. WrittenFirst'
      <4>1. ASSUME NEW l \in Loops, NEW k \in DOMAIN written'[l], NEW i \in DOMAIN wrQ', wrQ'[i].loop = l
            PROVE  written'[l][k].poll < wrQ'[i].poll
        <5>1. CASE l # h \/ k \in DOMAIN written[l]
          BY <2>2, <3>1, <3>2, <4>1, <5>1 DEF WInv, WrittenFirst
        <5>2. CASE l = h /\ k = Len(written[h]) + 1
          BY <2>2, <3>2, <4>1, <5>2 DEF WInv, WrQOrder
        <5> QED
          BY <3>2, <5>1, <5>2
      <4> QED
        BY <4>1 DEF WrittenFirst
    <3>6. ASSUME NEW l \in Loops, NEW k \in DOMAIN written'[l] PROVE Over(l, written'[l][k].poll)
      <4>1. CASE l # h \/ k \in DOMAIN written[l]
        BY <3>1, <3>2, <4>1 DEF WInv, AllOver
      <4>2. CASE l = h /\ k = Len(written[h]) + 1
        BY <2>2, <3>2, <4>2 DEF WInv, AllOver
      <4> QED
        BY <3>2, <4>1, <4>2
    <3> QED
      BY <2>1, <2>3, <2>4, <3>4, <3>5, <3>6 DEF WInv, AllOver, Over
  <2> QED
    BY <1>4, <2>5, <2>6 DEF PublishWrite, PopAndPublish
<1> QED
  BY <1>2, <1>3, <1>4 DEF Next, vars, Monitor, wrVars, LoopReceive, LoopTake, LoopDecide, LoopTrack,
     PollArrives, ResponseArrives, Trigger, WriteFailed,
     RespReceive, LogAnalysis, SetStop, MainStops, BreakLoops, BreakPoll, BreakResp, Join

\* The writes of a loop leave in the order of its polls, though every loop and the
\* publisher run on threads of their own.
THEOREM WritesInOrderCorrect == Spec => []WritesInOrder
<1>1. Init => WInv
  BY DEF Init, WInv, WritesInOrder, WrQOrder, WrittenFirst, AllOver
<1>2. WInv => WritesInOrder
  BY DEF WInv
<1> QED
  BY <1>1, <1>2, NextWInv, TInvHolds, QInvHolds, PTL DEF Spec
=============================================================================
