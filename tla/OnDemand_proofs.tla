----------------------------- MODULE OnDemand_proofs -----------------------------
(***************************************************************************)
(* Theorems about OnDemand, for any operations, commands, messages, number *)
(* of TxIDs and retries.                                                   *)
(***************************************************************************)
EXTENDS OnDemand, TLAPS

-----------------------------------------------------------------------------
(* Queues *)

\* A response is put in at the end, and the others stay where they are.
LEMMA AppendFacts ==
  ASSUME NEW S, NEW s \in Seq(S), NEW e \in S
  PROVE  /\ Append(s, e) \in Seq(S)
         /\ Len(Append(s, e)) = Len(s) + 1 /\ Len(s) \in Nat
         /\ \A i \in 1..Len(s) : Append(s, e)[i] = s[i]
         /\ Append(s, e)[Len(s) + 1] = e
  OBVIOUS

\* The first one is taken out, and the others move up.
LEMMA TailFacts ==
  ASSUME NEW S, NEW s \in Seq(S), Len(s) > 0
  PROVE  /\ Head(s) \in S /\ Head(s) = s[1]
         /\ Tail(s) \in Seq(S)
         /\ Len(s) \in Nat \ {0} /\ Len(Tail(s)) = Len(s) - 1
         /\ \A i \in 1..(Len(s) - 1) : Tail(s)[i] = s[i + 1]
  OBVIOUS

\* An element of a sequence over a set is a member of it.
LEMMA ElementFacts ==
  ASSUME NEW S, NEW s \in Seq(S), NEW i \in 1..Len(s)
  PROVE  s[i] \in S
  OBVIOUS

-----------------------------------------------------------------------------
(* Type correctness.  A retry counts down what RetryGet has found to be    *)
(* more than 0.                                                            *)

RetryLeft == \A o \in Ops : respPc[o] = "retryUpdate" => copy[o].budget > 0

TInv == TypeOK /\ RetryLeft

\* Nothing has arrived, every thread waits.
LEMMA InitTInv == Init => TInv
<1> SUFFICES ASSUME Init PROVE TInv
  OBVIOUS
<1>1. LisTypes
  BY DEF Init, LisTypes, LisPcs, NoFun
<1>2. MapTypes
  BY OnDemandAssumption DEF Init, MapTypes, TxIds, NoFun
<1>3. QueueTypes
  BY DEF Init, QueueTypes
<1>4. RespTypes
  BY DEF Init, RespTypes, RespPcs, InHand, Copied
<1>5. HistTypes
  <2>1. <<>> \in Seq([for : Requests, from : Requests, out : BOOLEAN])
    OBVIOUS
  <2>2. sent \in [Requests -> Nat]
    BY DEF Init
  <2> QED
    BY <2>1, <2>2 DEF Init, HistTypes
<1>6. RetryLeft
  BY DEF Init, RetryLeft
<1> QED
  BY <1>1, <1>2, <1>3, <1>4, <1>5, <1>6 DEF TInv, TypeOK

\* A response that is pushed wakes its thread.
LEMMA PushTypes ==
  ASSUME TInv, NEW o \in Ops, NEW x \in Response, Push(o, x), UNCHANGED respPc
  PROVE  QueueTypes'
<1> DEFINE s == respQ[o]
<1>1. s \in Seq(Response) /\ respQ' = [respQ EXCEPT ![o] = Append(s, x)]
  BY DEF TInv, TypeOK, QueueTypes, Push
<1> HIDE DEF s
<1>2. Append(s, x) \in Seq(Response) /\ Len(Append(s, x)) = Len(s) + 1 /\ Len(s) \in Nat
  BY <1>1, AppendFacts
<1>3. respQ' \in [Ops -> Seq(Response)] /\ respSem' \in [Ops -> Nat]
  BY <1>1, <1>2 DEF TInv, TypeOK, QueueTypes, Push
<1>4. ASSUME NEW p \in Ops
      PROVE  Len(respQ'[p]) = respSem'[p] + (IF respPc'[p] = "pop" THEN 1 ELSE 0)
  <2>1. CASE p = o
    BY <1>1, <1>2, <2>1 DEF s, TInv, TypeOK, QueueTypes, Push
  <2>2. CASE p # o
    BY <1>1, <2>2 DEF TInv, TypeOK, QueueTypes, Push
  <2> QED
    BY <2>1, <2>2
<1> QED
  BY <1>3, <1>4 DEF QueueTypes

\* What is submitted is a submission.
LEMMA SubmitTypes ==
  ASSUME TInv, NEW o \in Ops, NEW t \in TxIds, NEW r \in Requests, NEW d \in Requests,
         Submit(o, t, r, d), UNCHANGED <<alive, wrapped, reused, answers>>
  PROVE  HistTypes'
<1>1. [tx |-> t, for |-> r, data |-> d, op |-> o] \in Submission
  BY DEF Submission
<1>2. stack' \subseteq Submission /\ leaked' \subseteq Requests
  BY <1>1 DEF Submit, TInv, TypeOK, HistTypes
<1>3. sent' \in [Requests -> Nat]
  BY DEF Submit, TInv, TypeOK, HistTypes
<1> QED
  BY <1>2, <1>3 DEF TInv, TypeOK, HistTypes

\* A listener takes a command.
LEMMA RecvTInv == \A o \in Ops : TInv /\ Recv(o) => TInv'
<1> SUFFICES ASSUME TInv, NEW o \in Ops, Recv(o) PROVE TInv'
  OBVIOUS
<1>1. UNCHANGED <<txId, reqMap, qVars, respVars, stack, alive, wrapped, reused, leaked, answers, sent>>
  BY DEF Recv
<1>2. PICK r \in Requests \ DOMAIN content, m \in Messages :
        /\ content' = Store(content, r, m)
        /\ \/ /\ cur' = [cur EXCEPT ![o] = [req |-> r, tx |-> 0]]
              /\ lisPc' = [lisPc EXCEPT ![o] = "number"]
           \/ UNCHANGED <<lisPc, cur>>
  BY DEF Recv, LisGoto, lisVars
<1>3. DOMAIN content' \subseteq Requests /\ \A q \in DOMAIN content' : content'[q] \in Messages
  <2>1. DOMAIN content' = DOMAIN content \cup {r} /\ content'[r] = m
        /\ \A q \in DOMAIN content : q # r => content'[q] = content[q]
    BY <1>2 DEF Store
  <2> QED
    BY <2>1 DEF TInv, TypeOK, LisTypes
<1>4. [req |-> r, tx |-> 0] \in Command
  BY OnDemandAssumption DEF Command, TxIds
<1>5. LisTypes'
  BY <1>2, <1>3, <1>4 DEF TInv, TypeOK, LisTypes, LisPcs
<1>6. (MapTypes /\ QueueTypes /\ RespTypes /\ HistTypes /\ RetryLeft)'
  BY <1>1 DEF TInv, TypeOK, MapTypes, QueueTypes, RespTypes, HistTypes, RetryLeft, qVars, respVars
<1> QED
  BY <1>5, <1>6 DEF TInv, TypeOK

\* A number is a TxID.
LEMMA NumberTInv == \A o \in Ops : TInv /\ Number(o) => TInv'
<1> SUFFICES ASSUME TInv, NEW o \in Ops, Number(o) PROVE TInv'
  OBVIOUS
<1>1. UNCHANGED <<content, reqMap, qVars, respVars, stack, alive, leaked, answers, sent>>
  BY DEF Number
<1>2. txId' \in TxIds
  BY OnDemandAssumption DEF Number, TInv, TypeOK, MapTypes, TxIds
<1>3. cur' = [cur EXCEPT ![o].tx = txId'] /\ lisPc' = [lisPc EXCEPT ![o] = "insert"]
      /\ cur[o] \in Command
  BY DEF Number, LisGoto, TInv, TypeOK, LisTypes
<1>4. cur'[o] \in Command /\ \A p \in Ops : p # o => cur'[p] = cur[p] /\ lisPc'[p] = lisPc[p]
  BY <1>2, <1>3 DEF Command, TInv, TypeOK, LisTypes
<1>5. cur' \in [Ops -> Command \cup {NoFun}] /\ lisPc' \in [Ops -> LisPcs]
  BY <1>2, <1>3 DEF Command, TInv, TypeOK, LisTypes, LisPcs
<1>6. LisTypes'
  BY <1>1, <1>4, <1>5 DEF TInv, TypeOK, LisTypes
<1>7. MapTypes'
  BY <1>1, <1>2 DEF TInv, TypeOK, MapTypes
<1>8. wrapped' \in BOOLEAN
  BY DEF Number, TInv, TypeOK, HistTypes
<1>9. reused' \subseteq Requests
  <2>1. reused \subseteq Requests /\ cur[o].req \in Requests
    BY <1>3 DEF TInv, TypeOK, HistTypes, Command
  <2>2. Owner(txId') \subseteq Requests
    BY DEF Owner, TInv, TypeOK, MapTypes, Entry
  <2>3. Working(txId') \subseteq Requests
    BY DEF Working, TInv, TypeOK, LisTypes, HistTypes, RespTypes, Command, Submission, Response
  <2> QED
    BY <2>1, <2>2, <2>3 DEF Number
<1>10. HistTypes'
  BY <1>1, <1>8, <1>9 DEF TInv, TypeOK, HistTypes
<1>11. (QueueTypes /\ RespTypes /\ RetryLeft)'
  BY <1>1 DEF TInv, TypeOK, QueueTypes, RespTypes, RetryLeft, qVars, respVars
<1> QED
  BY <1>6, <1>7, <1>10, <1>11 DEF TInv, TypeOK

\* A listener that is done, or goes on, has a command at hand if it needs one.
LEMMA LisMoves ==
  ASSUME TInv, NEW o \in Ops, lisPc[o] # "recv", UNCHANGED content,
         \/ LisDone(o)
         \/ \E n \in LisPcs : LisGoto(o, n) /\ UNCHANGED cur
  PROVE  LisTypes'
<1>1. CASE LisDone(o)
  BY <1>1 DEF LisDone, LisGoto, TInv, TypeOK, LisTypes, LisPcs
<1>2. ASSUME NEW n \in LisPcs, LisGoto(o, n), UNCHANGED cur PROVE LisTypes'
  BY <1>2 DEF LisGoto, TInv, TypeOK, LisTypes
<1> QED
  BY <1>1, <1>2

\* What is stored for a command has all its retries.
LEMMA InsertTInv == \A o \in Ops : TInv /\ Insert(o) => TInv'
<1> SUFFICES ASSUME TInv, NEW o \in Ops, Insert(o) PROVE TInv'
  OBVIOUS
<1>1. UNCHANGED <<content, txId, qVars, respVars, stack, alive, wrapped, reused, answers, sent>>
  BY DEF Insert
<1>2. cur[o] \in Command /\ lisPc[o] # "recv"
  BY DEF Insert, TInv, TypeOK, LisTypes
<1>3. MapTypes'
  <2> DEFINE e == [req |-> cur[o].req, budget |-> MaxRetry]
  <2>1. e \in Entry /\ cur[o].tx \in TxIds
    BY <1>2, OnDemandAssumption DEF Entry, Command
  <2>2. reqMap' = IF cur[o].tx \in DOMAIN reqMap THEN reqMap ELSE Store(reqMap, cur[o].tx, e)
    BY DEF Insert
  <2> HIDE DEF e
  <2>3. CASE cur[o].tx \notin DOMAIN reqMap
    <3>1. DOMAIN reqMap' = DOMAIN reqMap \cup {cur[o].tx} /\ reqMap'[cur[o].tx] = e
          /\ \A t \in DOMAIN reqMap : t # cur[o].tx => reqMap'[t] = reqMap[t]
      BY <2>2, <2>3 DEF Store
    <3> QED
      BY <1>1, <2>1, <3>1 DEF TInv, TypeOK, MapTypes
  <2> QED
    BY <1>1, <2>2, <2>3 DEF TInv, TypeOK, MapTypes
<1>4. leaked' \subseteq Requests
  BY <1>2 DEF Insert, TInv, TypeOK, HistTypes, Command
<1>5. LisTypes'
  BY <1>1, <1>2, LisMoves DEF Insert, LisPcs
<1>6. HistTypes'
  BY <1>1, <1>4 DEF TInv, TypeOK, HistTypes
<1>7. (QueueTypes /\ RespTypes /\ RetryLeft)'
  BY <1>1 DEF TInv, TypeOK, QueueTypes, RespTypes, RetryLeft, qVars, respVars
<1> QED
  BY <1>3, <1>5, <1>6, <1>7 DEF TInv, TypeOK

\* The stack takes a command or refuses it.
LEMMA CallTInv == \A o \in Ops : TInv /\ Call(o) => TInv'
<1> SUFFICES ASSUME TInv, NEW o \in Ops, Call(o) PROVE TInv'
  OBVIOUS
<1>1. UNCHANGED <<content, txId, reqMap, qVars, respVars, alive, wrapped, reused, answers>>
  BY DEF Call
<1>2. cur[o] \in Command /\ lisPc[o] # "recv"
  BY DEF Call, TInv, TypeOK, LisTypes
<1>3. HistTypes'
  BY <1>1, <1>2, SubmitTypes DEF Call, Command
<1>4. LisTypes'
  BY <1>1, <1>2, LisMoves DEF Call
<1>5. (MapTypes /\ QueueTypes /\ RespTypes /\ RetryLeft)'
  BY <1>1 DEF TInv, TypeOK, MapTypes, QueueTypes, RespTypes, RetryLeft, qVars, respVars
<1> QED
  BY <1>3, <1>4, <1>5 DEF TInv, TypeOK

\* An error response is queued like one of the stack.
LEMMA ErrorResponseTInv == \A o \in Ops : TInv /\ ErrorResponse(o) => TInv'
<1> SUFFICES ASSUME TInv, NEW o \in Ops, ErrorResponse(o) PROVE TInv'
  OBVIOUS
<1>1. UNCHANGED <<content, txId, reqMap, respVars, stack, alive, wrapped, reused, leaked, answers, sent>>
  BY DEF ErrorResponse
<1>2. cur[o] \in Command /\ lisPc[o] # "recv"
  BY DEF ErrorResponse, TInv, TypeOK, LisTypes
<1>3. QueueTypes'
  <2> DEFINE x == [tx |-> cur[o].tx, for |-> cur[o].req, kind |-> "error"]
  <2>1. x \in Response /\ Push(o, x) /\ UNCHANGED respPc
    BY <1>1, <1>2 DEF ErrorResponse, Response, Command, respVars
  <2> HIDE DEF x
  <2> QED
    BY <2>1, PushTypes
<1>4. LisTypes'
  BY <1>1, <1>2, LisMoves DEF ErrorResponse
<1>5. (MapTypes /\ RespTypes /\ HistTypes /\ RetryLeft)'
  BY <1>1 DEF TInv, TypeOK, MapTypes, RespTypes, HistTypes, RetryLeft, respVars
<1> QED
  BY <1>3, <1>4, <1>5 DEF TInv, TypeOK

\* The stack answers to the operation of the submission.
LEMMA StackAnswerTInv == TInv /\ StackAnswer => TInv'
<1> SUFFICES ASSUME TInv, StackAnswer PROVE TInv'
  OBVIOUS
<1>1. UNCHANGED <<content, txId, reqMap, lisVars, respVars, alive, wrapped, reused, leaked, answers, sent>>
  BY DEF StackAnswer
<1>2. PICK s \in stack, k \in {"good", "error", "timeout"} :
        stack' = stack \ {s} /\ Push(s.op, [tx |-> s.tx, for |-> s.for, kind |-> k])
  BY DEF StackAnswer
<1>3. QueueTypes'
  <2> DEFINE x == [tx |-> s.tx, for |-> s.for, kind |-> k]
  <2>1. x \in Response /\ Push(s.op, x) /\ UNCHANGED respPc /\ s.op \in Ops
    BY <1>1, <1>2 DEF Response, Submission, respVars, TInv, TypeOK, HistTypes
  <2> HIDE DEF x
  <2> QED
    BY <2>1, PushTypes
<1>4. HistTypes'
  BY <1>1, <1>2 DEF TInv, TypeOK, HistTypes
<1>5. (LisTypes /\ MapTypes /\ RespTypes /\ RetryLeft)'
  BY <1>1 DEF TInv, TypeOK, LisTypes, MapTypes, RespTypes, RetryLeft, respVars, lisVars
<1> QED
  BY <1>3, <1>4, <1>5 DEF TInv, TypeOK

\* A response thread that is woken has a response in its queue.
LEMMA RespWaitTInv == \A o \in Ops : TInv /\ RespWait(o) => TInv'
<1> SUFFICES ASSUME TInv, NEW o \in Ops, RespWait(o) PROVE TInv'
  OBVIOUS
<1>1. UNCHANGED <<content, txId, reqMap, lisVars, respQ, resp, copy, stack, alive, wrapped, reused, leaked, answers, sent>>
  BY DEF RespWait, RespOnly
<1>2. QueueTypes'
  BY <1>1 DEF RespWait, RespGoto, TInv, TypeOK, QueueTypes, RespTypes
<1>3. RespTypes' /\ RetryLeft'
  BY <1>1 DEF RespWait, RespGoto, TInv, TypeOK, RespTypes, RetryLeft, RespPcs, InHand, Copied
<1>4. (LisTypes /\ MapTypes /\ HistTypes)'
  BY <1>1 DEF TInv, TypeOK, LisTypes, MapTypes, HistTypes, lisVars
<1> QED
  BY <1>2, <1>3, <1>4 DEF TInv, TypeOK

\* The thread takes out the first response.
LEMMA RespPopTInv == \A o \in Ops : TInv /\ RespPop(o) => TInv'
<1> SUFFICES ASSUME TInv, NEW o \in Ops, RespPop(o) PROVE TInv'
  OBVIOUS
<1>1. UNCHANGED <<content, txId, reqMap, lisVars, respSem, copy, stack, alive, wrapped, reused, leaked, answers, sent>>
  BY DEF RespPop, RespOnly
<1> DEFINE s == respQ[o]
<1>2. s \in Seq(Response) /\ Len(s) = respSem[o] + 1 /\ Len(s) > 0
  BY DEF RespPop, TInv, TypeOK, QueueTypes
<1>3. PICK n \in {"retryGet", "lookup"} : respPc' = [respPc EXCEPT ![o] = n]
  BY DEF RespPop, RespGoto
<1>4. respPc[o] = "pop" /\ resp' = [resp EXCEPT ![o] = Head(s)] /\ respQ' = [respQ EXCEPT ![o] = Tail(s)]
  BY DEF RespPop, TInv, TypeOK, QueueTypes
<1> HIDE DEF s
<1>5. Head(s) \in Response /\ Tail(s) \in Seq(Response) /\ Len(Tail(s)) = Len(s) - 1
  BY <1>2, TailFacts
<1>6. QueueTypes'
  <2>1. respQ' \in [Ops -> Seq(Response)]
    BY <1>4, <1>5 DEF TInv, TypeOK, QueueTypes
  <2>2. ASSUME NEW p \in Ops
        PROVE  Len(respQ'[p]) = respSem'[p] + (IF respPc'[p] = "pop" THEN 1 ELSE 0)
    <3>1. CASE p = o
      <4>1. respQ'[p] = Tail(s) /\ respPc'[p] # "pop" /\ respSem'[p] = respSem[o] /\ respSem[o] \in Nat
        BY <1>1, <1>3, <1>4, <3>1 DEF TInv, TypeOK, QueueTypes, RespTypes
      <4> QED
        BY <1>2, <1>5, <4>1
    <3>2. CASE p # o
      BY <1>1, <1>3, <1>4, <3>2 DEF TInv, TypeOK, QueueTypes, RespTypes
    <3> QED
      BY <3>1, <3>2
  <2> QED
    BY <1>1, <2>1, <2>2 DEF TInv, TypeOK, QueueTypes
<1>7. RespTypes' /\ RetryLeft'
  BY <1>1, <1>3, <1>4, <1>5 DEF TInv, TypeOK, RespTypes, RetryLeft, RespPcs, InHand, Copied
<1>8. (LisTypes /\ MapTypes /\ HistTypes)'
  BY <1>1 DEF TInv, TypeOK, LisTypes, MapTypes, HistTypes, lisVars
<1> QED
  BY <1>6, <1>7, <1>8 DEF TInv, TypeOK

\* What a thread at a response leaves alone, and the types of where it goes.
LEMMA RespMoves ==
  ASSUME TInv, NEW o \in Ops, respPc[o] \in InHand, UNCHANGED <<qVars, content, txId, lisVars>>,
         \/ RespDone(o)
         \/ RespGoto(o, "lookup") /\ UNCHANGED <<resp, copy>>
         \/ \E n \in Copied, e \in Entry : /\ RespGoto(o, n) /\ UNCHANGED resp
                                           /\ copy' = [copy EXCEPT ![o] = e]
                                           /\ n = "retryUpdate" => e.budget > 0
  PROVE  (LisTypes /\ QueueTypes /\ RespTypes /\ RetryLeft)'
<1>1. LisTypes'
  BY DEF TInv, TypeOK, LisTypes, lisVars
<1>2. \E n \in RespPcs \ {"pop"} : respPc' = [respPc EXCEPT ![o] = n]
  BY DEF RespDone, RespGoto, RespPcs, Copied
<1>3. QueueTypes'
  BY <1>2 DEF TInv, TypeOK, QueueTypes, RespTypes, qVars, InHand
<1>4. CASE RespDone(o)
  <2>1. RespTypes'
    BY <1>4 DEF RespDone, RespGoto, TInv, TypeOK, RespTypes, RespPcs, InHand, Copied
  <2>2. RetryLeft'
    BY <1>4 DEF RespDone, RespGoto, TInv, TypeOK, RespTypes, RetryLeft
  <2> QED
    BY <1>1, <1>3, <2>1, <2>2
<1>5. CASE RespGoto(o, "lookup") /\ UNCHANGED <<resp, copy>>
  BY <1>1, <1>3, <1>5 DEF RespGoto, TInv, TypeOK, RespTypes, RetryLeft, RespPcs, InHand, Copied
<1>6. ASSUME NEW n \in Copied, NEW e \in Entry, RespGoto(o, n), UNCHANGED resp,
             copy' = [copy EXCEPT ![o] = e], n = "retryUpdate" => e.budget > 0
      PROVE  RespTypes' /\ RetryLeft'
  <2>1. n \in RespPcs /\ n \in InHand
    BY DEF Copied, RespPcs, InHand
  <2>2. copy'[o] = e /\ respPc'[o] = n /\ resp'[o] \in Response
        /\ \A p \in Ops : p # o => copy'[p] = copy[p] /\ respPc'[p] = respPc[p] /\ resp'[p] = resp[p]
    BY <1>6 DEF RespGoto, TInv, TypeOK, RespTypes
  <2>3. respPc' \in [Ops -> RespPcs] /\ copy' \in [Ops -> Entry \cup {NoFun}] /\ resp' \in [Ops -> Response \cup {NoFun}]
    BY <1>6, <2>1 DEF RespGoto, TInv, TypeOK, RespTypes
  <2>4. RespTypes'
    BY <2>2, <2>3 DEF TInv, TypeOK, RespTypes
  <2>5. RetryLeft'
    BY <1>6, <2>2 DEF TInv, RetryLeft
  <2> QED
    BY <2>4, <2>5
<1> QED
  BY <1>1, <1>3, <1>4, <1>5, <1>6

\* RetryGet copies an entry that has retries left.
LEMMA RetryGetTInv == \A o \in Ops : TInv /\ RetryGet(o) => TInv'
<1> SUFFICES ASSUME TInv, NEW o \in Ops, RetryGet(o) PROVE TInv'
  OBVIOUS
<1>1. UNCHANGED <<content, txId, lisVars, wrapped, reused, reqMap, qVars, stack, alive, leaked, answers, sent>>
  BY DEF RetryGet, RespOnly
<1>2. respPc[o] \in InHand
  BY DEF RetryGet, InHand, RespPcs
<1>3. \/ RespDone(o)
      \/ RespGoto(o, "lookup") /\ UNCHANGED <<resp, copy>>
      \/ \E n \in Copied, e \in Entry : /\ RespGoto(o, n) /\ UNCHANGED resp
                                        /\ copy' = [copy EXCEPT ![o] = e]
                                        /\ n = "retryUpdate" => e.budget > 0
  BY DEF RetryGet, TInv, TypeOK, MapTypes, Copied
<1>4. (LisTypes /\ QueueTypes /\ RespTypes /\ RetryLeft)'
  BY <1>1, <1>2, <1>3, RespMoves
<1>5. MapTypes' /\ HistTypes'
  BY <1>1 DEF TInv, TypeOK, MapTypes, HistTypes
<1> QED
  BY <1>4, <1>5 DEF TInv, TypeOK

\* RetryUpdate stores what it counts down.
LEMMA RetryUpdateTInv == \A o \in Ops : TInv /\ RetryUpdate(o) => TInv'
<1> SUFFICES ASSUME TInv, NEW o \in Ops, RetryUpdate(o) PROVE TInv'
  OBVIOUS
<1>1. UNCHANGED <<content, txId, lisVars, wrapped, reused, qVars, stack, alive, leaked, answers, sent>>
  BY DEF RetryUpdate, RespOnly
<1>2. respPc[o] \in InHand /\ respPc[o] = "retryUpdate" /\ resp[o] \in Response /\ copy[o] \in Entry
  BY DEF RetryUpdate, InHand, RespPcs, Copied, TInv, TypeOK, RespTypes
<1> DEFINE e == [copy[o] EXCEPT !.budget = @ - 1]
<1>3. e \in Entry
  <2>1. copy[o].budget \in 0..MaxRetry /\ copy[o].budget > 0 /\ MaxRetry \in Nat
    BY <1>2, OnDemandAssumption DEF Entry, TInv, RetryLeft
  <2>2. copy[o].budget - 1 \in 0..MaxRetry
    BY <2>1
  <2> QED
    BY <1>2, <2>2 DEF Entry
<1>4. copy' = [copy EXCEPT ![o] = e] /\ UNCHANGED resp /\ RespGoto(o, "resend")
  BY DEF RetryUpdate
<1>5. reqMap' = Store(reqMap, resp[o].tx, e)
  BY <1>2, <1>4 DEF RetryUpdate, TInv, TypeOK, RespTypes
<1> HIDE DEF e
<1>6. (LisTypes /\ QueueTypes /\ RespTypes /\ RetryLeft)'
  BY <1>1, <1>2, <1>3, <1>4, RespMoves DEF Copied
<1>7. MapTypes'
  <2>1. DOMAIN reqMap' = DOMAIN reqMap \cup {resp[o].tx} /\ reqMap'[resp[o].tx] = e
        /\ \A t \in DOMAIN reqMap : t # resp[o].tx => reqMap'[t] = reqMap[t]
    BY <1>5 DEF Store
  <2>2. resp[o].tx \in TxIds
    BY <1>2 DEF Response
  <2> QED
    BY <1>1, <1>3, <2>1, <2>2 DEF TInv, TypeOK, MapTypes
<1>8. HistTypes'
  BY <1>1 DEF TInv, TypeOK, HistTypes
<1> QED
  BY <1>6, <1>7, <1>8 DEF TInv, TypeOK

\* The copy that is sent again is an entry.
LEMMA ResendTInv == \A o \in Ops : TInv /\ Resend(o) => TInv'
<1> SUFFICES ASSUME TInv, NEW o \in Ops, Resend(o) PROVE TInv'
  OBVIOUS
<1>1. UNCHANGED <<content, txId, lisVars, wrapped, reused, reqMap, qVars, alive, answers>>
  BY DEF Resend, RespOnly
<1>2. respPc[o] \in InHand /\ resp[o] \in Response /\ copy[o] \in Entry
  BY DEF Resend, InHand, RespPcs, Copied, TInv, TypeOK, RespTypes
<1>3. (LisTypes /\ QueueTypes /\ RespTypes /\ RetryLeft)'
  BY <1>1, <1>2, RespMoves DEF Resend
<1>4. HistTypes'
  BY <1>1, <1>2, SubmitTypes DEF Resend, Response, Entry
<1>5. MapTypes'
  BY <1>1 DEF TInv, TypeOK, MapTypes
<1> QED
  BY <1>3, <1>4, <1>5 DEF TInv, TypeOK

\* Lookup copies an entry, or there is none.
LEMMA LookupTInv == \A o \in Ops : TInv /\ Lookup(o) => TInv'
<1> SUFFICES ASSUME TInv, NEW o \in Ops, Lookup(o) PROVE TInv'
  OBVIOUS
<1>1. UNCHANGED <<content, txId, lisVars, wrapped, reused, reqMap, qVars, stack, answers, sent>>
  BY DEF Lookup, RespOnly
<1>2. respPc[o] \in InHand /\ alive' \in BOOLEAN
  BY DEF Lookup, InHand, RespPcs, TInv, TypeOK, HistTypes
<1>3. leaked' \subseteq Requests
  BY <1>2 DEF Lookup, Response, TInv, TypeOK, HistTypes, RespTypes
<1>4. \/ RespDone(o)
      \/ \E n \in Copied, e \in Entry : /\ RespGoto(o, n) /\ UNCHANGED resp
                                        /\ copy' = [copy EXCEPT ![o] = e]
                                        /\ n = "retryUpdate" => e.budget > 0
  BY DEF Lookup, TInv, TypeOK, MapTypes, Copied
<1>5. (LisTypes /\ QueueTypes /\ RespTypes /\ RetryLeft)'
  BY <1>1, <1>2, <1>4, RespMoves
<1>6. MapTypes' /\ HistTypes'
  BY <1>1, <1>2, <1>3 DEF TInv, TypeOK, MapTypes, HistTypes
<1> QED
  BY <1>5, <1>6 DEF TInv, TypeOK

AnswerSet == [for : Requests, from : Requests, out : BOOLEAN]

\* The answer that Publish records, whether or not the bus takes it.
LEMMA PublishFacts ==
  ASSUME TInv, NEW o \in Ops, resp[o] \in Response, copy[o] \in Entry, Publish(o)
  PROVE  \E a \in AnswerSet :
           a.for = resp[o].for /\ a.from = copy[o].req /\ answers' = Append(answers, a)
<1>1. PICK b \in BOOLEAN : answers' = Append(answers, [for |-> resp[o].for, from |-> copy[o].req, out |-> b])
  BY DEF Publish
<1> DEFINE a == [for |-> resp[o].for, from |-> copy[o].req, out |-> b]
<1>2. a \in AnswerSet /\ a.for = resp[o].for /\ a.from = copy[o].req
  BY DEF AnswerSet, Response, Entry
<1> QED
  BY <1>1, <1>2

\* Remove takes one entry away and records one answer.
LEMMA RemoveTInv == \A o \in Ops : TInv /\ Remove(o) => TInv'
<1> SUFFICES ASSUME TInv, NEW o \in Ops, Remove(o) PROVE TInv'
  OBVIOUS
<1>1. UNCHANGED <<content, txId, lisVars, wrapped, reused, qVars, stack, alive, leaked, sent>>
  BY DEF Remove, RespOnly
<1>2. respPc[o] \in InHand /\ resp[o] \in Response /\ copy[o] \in Entry
  BY DEF Remove, InHand, RespPcs, Copied, TInv, TypeOK, RespTypes
<1>3. (LisTypes /\ QueueTypes /\ RespTypes /\ RetryLeft)'
  BY <1>1, <1>2, RespMoves DEF Remove
<1>4. MapTypes'
  BY <1>1 DEF Remove, TInv, TypeOK, MapTypes
<1>5. answers' \in Seq(AnswerSet)
  <2>1. PICK a \in AnswerSet : answers' = Append(answers, a)
    BY <1>2, PublishFacts DEF Remove
  <2>2. answers \in Seq(AnswerSet)
    BY DEF AnswerSet, TInv, TypeOK, HistTypes
  <2> QED
    BY <2>1, <2>2, AppendFacts
<1>6. HistTypes'
  BY <1>1, <1>5 DEF AnswerSet, TInv, TypeOK, HistTypes
<1> QED
  BY <1>3, <1>4, <1>6 DEF TInv, TypeOK

\* A step that changes nothing.
LEMMA StutterTInv == TInv /\ UNCHANGED vars => TInv'
  BY DEF TInv, TypeOK, LisTypes, MapTypes, QueueTypes, RespTypes, HistTypes, RetryLeft,
     vars, lisVars, qVars, respVars

\* TInv holds in every state.
LEMMA TInvHolds == Spec => []TInv
<1>1. TInv /\ [Next]_vars => TInv'
  BY RecvTInv, NumberTInv, InsertTInv, CallTInv, ErrorResponseTInv, StackAnswerTInv, RespWaitTInv,
     RespPopTInv, RetryGetTInv, RetryUpdateTInv, ResendTInv, LookupTInv, RemoveTInv, StutterTInv
     DEF Next, Listener, Responder
<1> QED
  BY InitTInv, <1>1, PTL DEF Spec

\* Every variable keeps its type: a response thread that is woken finds a
\* response in its queue (getDataToProcess), and no retry counts below 0.
THEOREM TypeCorrect == Spec => []TypeOK
<1>1. TInv => TypeOK
  BY DEF TInv
<1> QED
  BY TInvHolds, <1>1, PTL

-----------------------------------------------------------------------------
(* Where a command is.  It is at one place at a time: with its listener,   *)
(* with the stack, in the queue of its operation, in the hand of the       *)
(* response thread, or answered.                                           *)

Held(r)     == lisPc[OpOf[r]] # "recv" /\ cur[OpOf[r]].req = r
OnStack(r)  == \E s \in stack : s.for = r
Queued(r)   == \E k \in 1..Len(respQ[OpOf[r]]) : respQ[OpOf[r]][k].for = r
AtHand(r)   == respPc[OpOf[r]] \in InHand /\ resp[OpOf[r]].for = r
Answered(r) == \E k \in 1..Len(answers) : answers[k].for = r

\* Every thread and queue has commands of its own operation.
LisRight   == \A o \in Ops : lisPc[o] # "recv" => OpOf[cur[o].req] = o
StackRight == \A s \in stack : OpOf[s.for] = s.op
QueueRight == \A o \in Ops : \A k \in 1..Len(respQ[o]) : OpOf[respQ[o][k].for] = o
HandRight  == \A o \in Ops : respPc[o] \in InHand => OpOf[resp[o].for] = o

Once(r) ==
  /\ r \notin DOMAIN content => ~Held(r) /\ ~OnStack(r) /\ ~Queued(r) /\ ~AtHand(r) /\ ~Answered(r)
  /\ Held(r) => ~OnStack(r) /\ ~Queued(r) /\ ~AtHand(r) /\ ~Answered(r)
  /\ OnStack(r) => ~Queued(r) /\ ~AtHand(r) /\ ~Answered(r)
  /\ Queued(r) => ~AtHand(r) /\ ~Answered(r)
  /\ AtHand(r) => ~Answered(r)

AllOnce     == \A r \in Requests : Once(r)
StackOnce   == \A s, u \in stack : s.for = u.for => s = u
QueueOnce   == \A o \in Ops : \A j, k \in 1..Len(respQ[o]) : j < k => respQ[o][j].for # respQ[o][k].for
AnswersOnce == \A j, k \in 1..Len(answers) : j < k => answers[j].for # answers[k].for

UInv == /\ LisRight /\ StackRight /\ QueueRight /\ HandRight
        /\ AllOnce /\ StackOnce /\ QueueOnce /\ AnswersOnce

\* No command is anywhere.
LEMMA InitUInv == Init => UInv
<1> SUFFICES ASSUME Init PROVE UInv
  OBVIOUS
<1>1. /\ \A o \in Ops : lisPc[o] = "recv" /\ respPc[o] = "wait" /\ Len(respQ[o]) = 0
      /\ stack = {} /\ Len(answers) = 0
  BY DEF Init
<1>2. \A r \in Requests : OpOf[r] \in Ops
  BY OnDemandAssumption
<1>3. AllOnce
  BY <1>1, <1>2 DEF AllOnce, Once, Held, OnStack, Queued, AtHand, Answered, InHand
<1>4. LisRight /\ StackRight /\ QueueRight /\ HandRight /\ StackOnce /\ QueueOnce /\ AnswersOnce
  BY <1>1 DEF LisRight, StackRight, QueueRight, HandRight, StackOnce, QueueOnce, AnswersOnce, InHand
<1> QED
  BY <1>3, <1>4 DEF UInv

\* What a push does to the queues.
LEMMA PushFacts ==
  ASSUME TInv, NEW o \in Ops, NEW x \in Response, Push(o, x)
  PROVE  /\ \A p \in Ops : p # o => respQ'[p] = respQ[p]
         /\ Len(respQ[o]) \in Nat /\ Len(respQ'[o]) = Len(respQ[o]) + 1
         /\ \A k \in 1..Len(respQ[o]) : respQ'[o][k] = respQ[o][k]
         /\ respQ'[o][Len(respQ[o]) + 1] = x
<1> DEFINE s == respQ[o]
<1>1. s \in Seq(Response) /\ respQ'[o] = Append(s, x) /\ \A p \in Ops : p # o => respQ'[p] = respQ[p]
  BY DEF TInv, TypeOK, QueueTypes, Push
<1> HIDE DEF s
<1>2. /\ Len(Append(s, x)) = Len(s) + 1 /\ Len(s) \in Nat
      /\ \A i \in 1..Len(s) : Append(s, x)[i] = s[i]
      /\ Append(s, x)[Len(s) + 1] = x
  BY <1>1, AppendFacts
<1> QED
  BY <1>1, <1>2 DEF s

\* The pushed response is the only new one, and for a command that had none.
LEMMA PushOnce ==
  ASSUME TInv, UInv, NEW o \in Ops, NEW x \in Response, Push(o, x), OpOf[x.for] = o, ~Queued(x.for)
  PROVE  /\ QueueRight' /\ QueueOnce'
         /\ \A r \in Requests : r # x.for => (Queued(r)' <=> Queued(r))
<1>1. /\ \A p \in Ops : p # o => respQ'[p] = respQ[p]
      /\ Len(respQ[o]) \in Nat /\ Len(respQ'[o]) = Len(respQ[o]) + 1
      /\ \A k \in 1..Len(respQ[o]) : respQ'[o][k] = respQ[o][k]
      /\ respQ'[o][Len(respQ[o]) + 1] = x
  BY PushFacts
<1>2. ASSUME NEW p \in Ops, NEW k \in 1..Len(respQ'[p])
      PROVE  \/ k \in 1..Len(respQ[p]) /\ respQ'[p][k] = respQ[p][k]
             \/ p = o /\ k = Len(respQ[o]) + 1 /\ respQ'[p][k] = x
  BY <1>1
<1>3. QueueRight'
  <2>1. ASSUME NEW p \in Ops, NEW k \in 1..Len(respQ'[p]) PROVE OpOf[respQ'[p][k].for] = p
    BY <1>2 DEF UInv, QueueRight
  <2> QED
    BY <2>1 DEF QueueRight
<1>4. QueueOnce'
  <2>1. ASSUME NEW p \in Ops, NEW j \in 1..Len(respQ'[p]), NEW k \in 1..Len(respQ'[p]), j < k
        PROVE  respQ'[p][j].for # respQ'[p][k].for
    <3>1. CASE k \in 1..Len(respQ[p]) /\ respQ'[p][k] = respQ[p][k]
      <4>1. j \in 1..Len(respQ[p]) /\ respQ'[p][j] = respQ[p][j]
        BY <1>1, <2>1, <3>1
      <4> QED
        BY <2>1, <3>1, <4>1 DEF UInv, QueueOnce
    <3>2. CASE p = o /\ k = Len(respQ[o]) + 1 /\ respQ'[p][k] = x
      <4>1. j \in 1..Len(respQ[o]) /\ respQ'[o][j] = respQ[o][j]
        BY <1>1, <2>1, <3>2
      <4> QED
        BY <3>2, <4>1 DEF Queued
    <3> QED
      BY <1>2, <3>1, <3>2
  <2> QED
    BY <2>1 DEF QueueOnce
<1>5. ASSUME NEW r \in Requests, r # x.for PROVE Queued(r)' <=> Queued(r)
  <2>1. OpOf[r] \in Ops
    BY OnDemandAssumption
  <2>2. Queued(r)' => Queued(r)
    BY <1>2, <1>5, <2>1 DEF Queued
  <2>3. Queued(r) => Queued(r)'
    <3>1. CASE OpOf[r] # o
      BY <1>1, <2>1, <3>1 DEF Queued
    <3>2. CASE OpOf[r] = o
      <4>1. 1..Len(respQ[o]) \subseteq 1..Len(respQ'[o])
        BY <1>1
      <4> QED
        BY <1>1, <3>2, <4>1 DEF Queued
    <3> QED
      BY <3>1, <3>2
  <2> QED
    BY <2>2, <2>3
<1> QED
  BY <1>3, <1>4, <1>5

\* What is submitted is the only thing new on the stack.
LEMMA SubmitOnce ==
  ASSUME UInv, NEW o \in Ops, NEW t, NEW r \in Requests, NEW d, Submit(o, t, r, d), OpOf[r] = o, ~OnStack(r)
  PROVE  /\ StackRight' /\ StackOnce'
         /\ \A q \in Requests : q # r => (OnStack(q)' <=> OnStack(q))
<1> DEFINE n == [tx |-> t, for |-> r, data |-> d, op |-> o]
<1>1. n.for = r /\ n.op = o
  OBVIOUS
<1>2. stack' = stack \cup {n} \/ stack' = stack
  BY DEF Submit
<1> HIDE DEF n
<1>3. StackRight' /\ StackOnce'
  BY <1>1, <1>2 DEF StackRight, StackOnce, UInv, OnStack
<1>4. ASSUME NEW q \in Requests, q # r PROVE OnStack(q)' <=> OnStack(q)
  BY <1>1, <1>2, <1>4 DEF OnStack
<1> QED
  BY <1>3, <1>4

\* If one command moves, the others are where they were.
LEMMA MoveOnce ==
  ASSUME UInv, NEW c \in Requests, DOMAIN content \subseteq DOMAIN content', Once(c)',
         \A r \in Requests : r # c => /\ Held(r)' => Held(r)
                                      /\ OnStack(r)' => OnStack(r)
                                      /\ Queued(r)' => Queued(r)
                                      /\ AtHand(r)' => AtHand(r)
                                      /\ Answered(r)' => Answered(r)
  PROVE  AllOnce'
<1>1. ASSUME NEW r \in Requests, r # c PROVE Once(r)'
  <2>1. Once(r)
    BY DEF UInv, AllOnce
  <2> QED
    BY <1>1, <2>1 DEF Once
<1> QED
  BY <1>1 DEF AllOnce

\* A listener takes up a command that was nowhere.
LEMMA RecvUInv == \A o \in Ops : TInv /\ UInv /\ Recv(o) => UInv'
<1> SUFFICES ASSUME TInv, UInv, NEW o \in Ops, Recv(o) PROVE UInv'
  OBVIOUS
<1>1. UNCHANGED <<respQ, respPc, resp, stack, answers>>
  BY DEF Recv, qVars, respVars
<1>2. PICK c \in Requests \ DOMAIN content, m \in Messages :
        /\ OpOf[c] = o /\ content' = Store(content, c, m)
        /\ \/ /\ cur' = [cur EXCEPT ![o] = [req |-> c, tx |-> 0]]
              /\ lisPc' = [lisPc EXCEPT ![o] = "number"]
           \/ UNCHANGED <<lisPc, cur>>
  BY DEF Recv, LisGoto, lisVars
<1>3. DOMAIN content' = DOMAIN content \cup {c}
  BY <1>2 DEF Store
<1>4. \A p \in Ops : p # o => lisPc'[p] = lisPc[p] /\ cur'[p] = cur[p]
  BY <1>2 DEF TInv, TypeOK, LisTypes
<1>5. lisPc'[o] = "recv" \/ cur'[o].req = c
  BY <1>2 DEF Recv, TInv, TypeOK, LisTypes
<1>6. lisPc[o] = "recv"
  BY DEF Recv
<1>7. LisRight'
  BY <1>2, <1>4, <1>5 DEF UInv, LisRight
<1>8. ASSUME NEW r \in Requests PROVE /\ OnStack(r)' = OnStack(r) /\ Queued(r)' = Queued(r)
                                      /\ AtHand(r)' = AtHand(r) /\ Answered(r)' = Answered(r)
                                      /\ r # c => (Held(r)' => Held(r))
  <2>1. OpOf[r] \in Ops
    BY OnDemandAssumption
  <2>2. r # c => (Held(r)' => Held(r))
    BY <1>4, <1>5, <2>1 DEF Held
  <2> QED
    BY <1>1, <2>2 DEF OnStack, Queued, AtHand, Answered
<1>9. Once(c)'
  <2>1. Once(c)
    BY DEF UInv, AllOnce
  <2> QED
    BY <1>2, <1>3, <1>8, <2>1 DEF Once
<1>10. AllOnce'
  BY <1>3, <1>8, <1>9, MoveOnce
<1> QED
  BY <1>1, <1>7, <1>10 DEF UInv, StackRight, QueueRight, HandRight, StackOnce, QueueOnce, AnswersOnce

\* If no command gets to a place, each is at one still.
LEMMA ShrinkOnce ==
  ASSUME UInv, DOMAIN content \subseteq DOMAIN content',
         \A r \in Requests : /\ Held(r)' => Held(r)
                             /\ OnStack(r)' => OnStack(r)
                             /\ Queued(r)' => Queued(r)
                             /\ AtHand(r)' => AtHand(r)
                             /\ Answered(r)' => Answered(r)
  PROVE  AllOnce'
<1>1. ASSUME NEW r \in Requests PROVE Once(r)'
  <2>1. Once(r)
    BY DEF UInv, AllOnce
  <2> QED
    BY <1>1, <2>1 DEF Once
<1> QED
  BY <1>1 DEF AllOnce

\* A listener numbers and stores the command that it has.
LEMMA NumberInsertUInv == \A o \in Ops : TInv /\ UInv /\ (Number(o) \/ Insert(o)) => UInv'
<1> SUFFICES ASSUME TInv, UInv, NEW o \in Ops, Number(o) \/ Insert(o) PROVE UInv'
  OBVIOUS
<1>1. UNCHANGED <<respQ, respPc, resp, stack, answers, content>>
  BY DEF Number, Insert, qVars, respVars
<1>2. /\ lisPc[o] # "recv" /\ cur[o] \in Command
      /\ \A p \in Ops : p # o => lisPc'[p] = lisPc[p] /\ cur'[p] = cur[p]
  BY DEF Number, Insert, LisGoto, LisDone, TInv, TypeOK, LisTypes
<1>3. lisPc'[o] = "recv" \/ cur'[o].req = cur[o].req
  <2>1. CASE Number(o)
    <3>1. cur' = [cur EXCEPT ![o].tx = txId']
      BY <2>1 DEF Number
    <3> QED
      BY <1>2, <3>1 DEF Command, TInv, TypeOK, LisTypes
  <2>2. CASE Insert(o)
    BY <2>2 DEF Insert, LisGoto, LisDone, TInv, TypeOK, LisTypes
  <2> QED
    BY <2>1, <2>2
<1>4. LisRight'
  BY <1>2, <1>3 DEF UInv, LisRight
<1>5. ASSUME NEW r \in Requests PROVE Held(r)' => Held(r)
  <2>1. OpOf[r] \in Ops
    BY OnDemandAssumption
  <2> QED
    BY <1>2, <1>3, <2>1 DEF Held
<1>6. \A r \in Requests : /\ OnStack(r)' => OnStack(r)
                          /\ Queued(r)' => Queued(r)
                          /\ AtHand(r)' => AtHand(r)
                          /\ Answered(r)' => Answered(r)
  BY <1>1 DEF OnStack, Queued, AtHand, Answered
<1>7. AllOnce'
  BY <1>1, <1>5, <1>6, ShrinkOnce
<1> QED
  BY <1>1, <1>4, <1>7 DEF UInv, StackRight, QueueRight, HandRight, StackOnce, QueueOnce, AnswersOnce

\* A listener that is done has no command.
LEMMA LisDoneUInv ==
  ASSUME TInv, UInv, NEW o \in Ops, lisPc[o] # "recv", LisDone(o)
  PROVE  /\ LisRight' /\ cur[o] \in Command
         /\ \A r \in Requests : Held(r)' => Held(r)
         /\ \E c \in Requests : c = cur[o].req /\ OpOf[c] = o /\ Held(c) /\ ~Held(c)'
<1>1. cur[o] \in Command /\ cur[o].req \in Requests
  BY DEF TInv, TypeOK, LisTypes, Command
<1>2. lisPc'[o] = "recv" /\ \A p \in Ops : p # o => lisPc'[p] = lisPc[p] /\ cur'[p] = cur[p]
  BY DEF LisDone, LisGoto, TInv, TypeOK, LisTypes
<1>3. LisRight' /\ OpOf[cur[o].req] = o
  BY <1>2 DEF UInv, LisRight
<1>4. ASSUME NEW r \in Requests PROVE Held(r)' => Held(r)
  <2>1. OpOf[r] \in Ops
    BY OnDemandAssumption
  <2> QED
    BY <1>2, <2>1 DEF Held
<1>5. PICK c \in Requests : c = cur[o].req
  BY <1>1
<1>6. OpOf[c] = o /\ Held(c) /\ ~Held(c)'
  BY <1>2, <1>3, <1>5 DEF Held
<1> QED
  BY <1>1, <1>3, <1>4, <1>5, <1>6

\* A call moves its command to the stack, or drops it.
LEMMA CallUInv == \A o \in Ops : TInv /\ UInv /\ Call(o) => UInv'
<1> SUFFICES ASSUME TInv, UInv, NEW o \in Ops, Call(o) PROVE UInv'
  OBVIOUS
<1>1. UNCHANGED <<respQ, respPc, resp, answers, content>>
  BY DEF Call, qVars, respVars
<1>2. lisPc[o] # "recv" /\ LisDone(o) /\ Submit(o, cur[o].tx, cur[o].req, cur[o].req)
  BY DEF Call
<1>3. LisRight' /\ \A r \in Requests : Held(r)' => Held(r)
  BY <1>2, LisDoneUInv
<1>4. PICK c \in Requests : c = cur[o].req /\ OpOf[c] = o /\ Held(c) /\ ~Held(c)'
  BY <1>2, LisDoneUInv
<1>5. Once(c)
  BY <1>4 DEF UInv, AllOnce
<1>6. ~OnStack(c)
  BY <1>4, <1>5 DEF Once
<1>7. StackRight' /\ StackOnce' /\ \A r \in Requests : r # c => (OnStack(r)' <=> OnStack(r))
  BY <1>2, <1>3, <1>4, <1>6, SubmitOnce
<1>8. \A r \in Requests : /\ Queued(r)' <=> Queued(r)
                          /\ AtHand(r)' <=> AtHand(r)
                          /\ Answered(r)' <=> Answered(r)
  BY <1>1 DEF Queued, AtHand, Answered
<1>9. Once(c)'
  BY <1>1, <1>3, <1>4, <1>5, <1>8 DEF Once
<1>10. AllOnce'
  BY <1>1, <1>3, <1>4, <1>7, <1>8, <1>9, MoveOnce
<1> QED
  BY <1>1, <1>3, <1>7, <1>10 DEF UInv, QueueRight, HandRight, QueueOnce, AnswersOnce

\* An error response takes the command to the queue.
LEMMA ErrorResponseUInv == \A o \in Ops : TInv /\ UInv /\ ErrorResponse(o) => UInv'
<1> SUFFICES ASSUME TInv, UInv, NEW o \in Ops, ErrorResponse(o) PROVE UInv'
  OBVIOUS
<1>1. UNCHANGED <<stack, respPc, resp, answers, content>>
  BY DEF ErrorResponse, respVars
<1>2. lisPc[o] # "recv" /\ LisDone(o) /\ Push(o, [tx |-> cur[o].tx, for |-> cur[o].req, kind |-> "error"])
  BY DEF ErrorResponse
<1>3. LisRight' /\ cur[o] \in Command /\ \A r \in Requests : Held(r)' => Held(r)
  BY <1>2, LisDoneUInv
<1>4. PICK c \in Requests : c = cur[o].req /\ OpOf[c] = o /\ Held(c) /\ ~Held(c)'
  BY <1>2, LisDoneUInv
<1>5. Once(c)
  BY <1>4 DEF UInv, AllOnce
<1>6. PICK x \in Response : x.for = c /\ Push(o, x)
  BY <1>2, <1>3, <1>4 DEF Response, Command
<1>7. QueueRight' /\ QueueOnce' /\ \A r \in Requests : r # c => (Queued(r)' <=> Queued(r))
  <2>1. ~Queued(x.for) /\ OpOf[x.for] = o
    BY <1>4, <1>5, <1>6 DEF Once
  <2> QED
    BY <1>6, <2>1, PushOnce
<1>8. \A r \in Requests : /\ OnStack(r)' <=> OnStack(r)
                          /\ AtHand(r)' <=> AtHand(r)
                          /\ Answered(r)' <=> Answered(r)
  BY <1>1 DEF OnStack, AtHand, Answered
<1>9. Once(c)'
  BY <1>1, <1>3, <1>4, <1>5, <1>8 DEF Once
<1>10. AllOnce'
  BY <1>1, <1>3, <1>4, <1>7, <1>8, <1>9, MoveOnce
<1> QED
  BY <1>1, <1>3, <1>7, <1>10 DEF UInv, StackRight, HandRight, StackOnce, AnswersOnce

\* An answer moves its command from the stack to the queue.
LEMMA StackAnswerUInv == TInv /\ UInv /\ StackAnswer => UInv'
<1> SUFFICES ASSUME TInv, UInv, StackAnswer PROVE UInv'
  OBVIOUS
<1>1. UNCHANGED <<lisPc, cur, respPc, resp, answers, content>>
  BY DEF StackAnswer, respVars, lisVars
<1>2. PICK s \in stack, k \in {"good", "error", "timeout"} :
        stack' = stack \ {s} /\ Push(s.op, [tx |-> s.tx, for |-> s.for, kind |-> k])
  BY DEF StackAnswer
<1> DEFINE x == [tx |-> s.tx, for |-> s.for, kind |-> k]
<1>3. /\ s \in Submission /\ s.for \in Requests /\ s.op \in Ops
      /\ x \in Response /\ x.for = s.for /\ Push(s.op, x)
  BY <1>2 DEF Response, Submission, TInv, TypeOK, HistTypes
<1> HIDE DEF x
<1>4. Once(s.for) /\ OnStack(s.for) /\ OpOf[s.for] = s.op
  BY <1>3 DEF UInv, AllOnce, OnStack, StackRight
<1>5. ~Queued(s.for)
  BY <1>4 DEF Once
<1>6. QueueRight' /\ QueueOnce' /\ \A r \in Requests : r # s.for => (Queued(r)' <=> Queued(r))
  BY <1>3, <1>4, <1>5, PushOnce
<1>7. StackRight' /\ StackOnce'
  BY <1>2 DEF UInv, StackRight, StackOnce
<1>8. ~OnStack(s.for)'
  BY <1>2 DEF UInv, StackOnce, OnStack
<1>9. \A r \in Requests : OnStack(r)' => OnStack(r)
  BY <1>2 DEF OnStack
<1>10. \A r \in Requests : /\ Held(r)' <=> Held(r)
                           /\ AtHand(r)' <=> AtHand(r)
                           /\ Answered(r)' <=> Answered(r)
  BY <1>1 DEF Held, AtHand, Answered
<1>11. Once(s.for)'
  BY <1>1, <1>3, <1>4, <1>8, <1>10 DEF Once
<1>12. AllOnce'
  BY <1>1, <1>3, <1>6, <1>9, <1>10, <1>11, MoveOnce
<1> QED
  BY <1>1, <1>6, <1>7, <1>12 DEF UInv, LisRight, HandRight, AnswersOnce

\* The response that is popped is in the hand of the thread, and in no queue.
LEMMA RespPopUInv == \A o \in Ops : TInv /\ UInv /\ RespPop(o) => UInv'
<1> SUFFICES ASSUME TInv, UInv, NEW o \in Ops, RespPop(o) PROVE UInv'
  OBVIOUS
<1>1. UNCHANGED <<lisPc, cur, stack, answers, content>> /\ respPc[o] = "pop"
  BY DEF RespPop, RespOnly, lisVars
<1>2. PICK s \in Seq(Response) : s = respQ[o] /\ Len(s) > 0
  BY DEF RespPop, TInv, TypeOK, QueueTypes
<1>3. PICK t \in Seq(Response) : t = Tail(s)
  BY <1>2, TailFacts
<1>4. PICK x \in Response : x = Head(s)
  BY <1>2, TailFacts
<1>5. /\ Len(s) \in Nat \ {0} /\ Len(t) = Len(s) - 1 /\ x = s[1]
      /\ \A i \in 1..(Len(s) - 1) : t[i] = s[i + 1]
  BY <1>2, <1>3, <1>4, TailFacts
<1>6. /\ \E n \in InHand : respPc' = [respPc EXCEPT ![o] = n]
      /\ resp' = [resp EXCEPT ![o] = x] /\ respQ' = [respQ EXCEPT ![o] = t]
  <2>1. \E n \in {"retryGet", "lookup"} : respPc' = [respPc EXCEPT ![o] = n]
    BY DEF RespPop, RespGoto
  <2>2. respQ' = [respQ EXCEPT ![o] = Tail(respQ[o])]
    BY DEF RespPop, TInv, TypeOK, QueueTypes
  <2>3. resp' = [resp EXCEPT ![o] = Head(respQ[o])]
    BY DEF RespPop
  <2> QED
    BY <1>2, <1>3, <1>4, <2>1, <2>2, <2>3 DEF InHand, RespPcs
<1>7. /\ respPc'[o] \in InHand /\ resp'[o] = x /\ respQ'[o] = t
      /\ \A p \in Ops : p # o => respPc'[p] = respPc[p] /\ resp'[p] = resp[p] /\ respQ'[p] = respQ[p]
  BY <1>6 DEF TInv, TypeOK, QueueTypes, RespTypes
<1>8. PICK c \in Requests : c = x.for
  BY DEF Response
<1>9. OpOf[c] = o /\ Queued(c) /\ Once(c)
  <2>1. 1 \in 1..Len(respQ[o]) /\ respQ[o][1].for = c
    BY <1>2, <1>5, <1>8
  <2> QED
    BY <1>8, <2>1 DEF UInv, QueueRight, AllOnce, Queued
<1>10. ASSUME NEW p \in Ops, NEW k \in 1..Len(respQ'[p])
       PROVE  \/ p # o /\ respQ'[p] = respQ[p]
              \/ p = o /\ k + 1 \in 1..Len(respQ[o]) /\ respQ'[p][k] = respQ[o][k + 1]
  BY <1>2, <1>5, <1>7
<1>11. QueueRight'
  <2>1. ASSUME NEW p \in Ops, NEW k \in 1..Len(respQ'[p]) PROVE OpOf[respQ'[p][k].for] = p
    <3>1. CASE p # o /\ respQ'[p] = respQ[p]
      BY <3>1 DEF UInv, QueueRight
    <3>2. CASE p = o /\ k + 1 \in 1..Len(respQ[o]) /\ respQ'[p][k] = respQ[o][k + 1]
      BY <3>2 DEF UInv, QueueRight
    <3> QED
      BY <1>10, <3>1, <3>2
  <2> QED
    BY <2>1 DEF QueueRight
<1>12. QueueOnce'
  <2>1. ASSUME NEW p \in Ops, NEW j \in 1..Len(respQ'[p]), NEW k \in 1..Len(respQ'[p]), j < k
        PROVE  respQ'[p][j].for # respQ'[p][k].for
    <3>1. CASE p # o
      BY <1>7, <2>1, <3>1 DEF UInv, QueueOnce
    <3>2. CASE p = o
      <4>1. /\ j + 1 \in 1..Len(respQ[o]) /\ k + 1 \in 1..Len(respQ[o]) /\ j + 1 < k + 1
            /\ respQ'[o][j] = respQ[o][j + 1] /\ respQ'[o][k] = respQ[o][k + 1]
        BY <1>2, <1>5, <1>7, <2>1, <3>2
      <4> QED
        BY <3>2, <4>1 DEF UInv, QueueOnce
    <3> QED
      BY <3>1, <3>2
  <2> QED
    BY <2>1 DEF QueueOnce
<1>13. HandRight'
  BY <1>1, <1>7, <1>8, <1>9 DEF UInv, HandRight
<1>14. ASSUME NEW r \in Requests PROVE Queued(r)' => Queued(r)
  <2>1. OpOf[r] \in Ops
    BY OnDemandAssumption
  <2> QED
    BY <1>10, <2>1, SMTT(60) DEF Queued
<1>15. ~Queued(c)'
  <2> SUFFICES ASSUME NEW k \in 1..Len(respQ'[o]) PROVE respQ'[o][k].for # c
    BY <1>9 DEF Queued
  <2>1. 1 \in 1..Len(respQ[o]) /\ k + 1 \in 1..Len(respQ[o]) /\ 1 < k + 1
        /\ respQ'[o][k] = respQ[o][k + 1] /\ respQ[o][1].for = c
    BY <1>2, <1>5, <1>7, <1>8
  <2> QED
    BY <2>1 DEF UInv, QueueOnce
<1>16. ASSUME NEW r \in Requests, r # c PROVE AtHand(r)' => AtHand(r)
  <2>1. OpOf[r] \in Ops
    BY OnDemandAssumption
  <2> QED
    BY <1>7, <1>8, <1>16, <2>1 DEF AtHand
<1>17. \A r \in Requests : /\ Held(r)' <=> Held(r)
                           /\ OnStack(r)' <=> OnStack(r)
                           /\ Answered(r)' <=> Answered(r)
  BY <1>1 DEF Held, OnStack, Answered
<1>18. Once(c)'
  BY <1>1, <1>9, <1>15, <1>17 DEF Once
<1>19. AllOnce'
  BY <1>1, <1>14, <1>16, <1>17, <1>18, MoveOnce
<1> QED
  BY <1>1, <1>11, <1>12, <1>13, <1>19 DEF UInv, LisRight, StackRight, StackOnce, AnswersOnce

\* A thread that is done, or goes on with its response.
LEMMA RespStepFacts ==
  ASSUME TInv, UInv, NEW o \in Ops, respPc[o] \in InHand,
         RespDone(o) \/ (UNCHANGED resp /\ \E n \in InHand : RespGoto(o, n))
  PROVE  HandRight' /\ \A r \in Requests : AtHand(r)' => AtHand(r)
<1>1. /\ respPc'[o] \in InHand => resp'[o] = resp[o]
      /\ \A p \in Ops : p # o => respPc'[p] = respPc[p] /\ resp'[p] = resp[p]
  BY DEF RespDone, RespGoto, InHand, TInv, TypeOK, RespTypes
<1>2. HandRight'
  BY <1>1 DEF UInv, HandRight
<1>3. ASSUME NEW r \in Requests PROVE AtHand(r)' => AtHand(r)
  <2>1. OpOf[r] \in Ops
    BY OnDemandAssumption
  <2> QED
    BY <1>1, <2>1 DEF AtHand
<1> QED
  BY <1>2, <1>3

\* A thread that is done has no response.
LEMMA RespDoneFacts ==
  ASSUME TInv, UInv, NEW o \in Ops, respPc[o] \in InHand, RespDone(o)
  PROVE  \E c \in Requests : c = resp[o].for /\ OpOf[c] = o /\ AtHand(c) /\ ~AtHand(c)'
<1>1. resp[o] \in Response /\ respPc'[o] \notin InHand
  BY DEF RespDone, RespGoto, InHand, TInv, TypeOK, RespTypes
<1>2. PICK c \in Requests : c = resp[o].for
  BY <1>1 DEF Response
<1>3. OpOf[c] = o /\ AtHand(c) /\ ~AtHand(c)'
  BY <1>1, <1>2 DEF UInv, HandRight, AtHand
<1> QED
  BY <1>2, <1>3

\* A response thread waits, or looks up and counts down what it has in hand.
LEMMA RespStepUInv ==
  \A o \in Ops : TInv /\ UInv /\ (RespWait(o) \/ RetryGet(o) \/ RetryUpdate(o) \/ Lookup(o)) => UInv'
<1> SUFFICES ASSUME TInv, UInv, NEW o \in Ops,
                    RespWait(o) \/ RetryGet(o) \/ RetryUpdate(o) \/ Lookup(o)
             PROVE  UInv'
  OBVIOUS
<1>1. UNCHANGED <<lisPc, cur, stack, respQ, answers, content>>
  BY DEF RespWait, RetryGet, RetryUpdate, Lookup, RespOnly, lisVars, qVars
<1>2. HandRight' /\ \A r \in Requests : AtHand(r)' => AtHand(r)
  <2>1. CASE RespWait(o)
    <3>1. /\ respPc'[o] = "pop" /\ UNCHANGED resp
          /\ \A p \in Ops : p # o => respPc'[p] = respPc[p]
      BY <2>1 DEF RespWait, RespGoto, TInv, TypeOK, RespTypes
    <3>2. HandRight'
      BY <3>1 DEF UInv, HandRight, InHand
    <3>3. ASSUME NEW r \in Requests PROVE AtHand(r)' => AtHand(r)
      <4>1. OpOf[r] \in Ops
        BY OnDemandAssumption
      <4> QED
        BY <3>1, <4>1 DEF AtHand, InHand
    <3> QED
      BY <3>2, <3>3
  <2>2. CASE RetryGet(o) \/ RetryUpdate(o) \/ Lookup(o)
    <3>1. respPc[o] \in InHand
          /\ (RespDone(o) \/ (UNCHANGED resp /\ \E n \in InHand : RespGoto(o, n)))
      BY <2>2 DEF RetryGet, RetryUpdate, Lookup, InHand, RespPcs
    <3> QED
      BY <3>1, RespStepFacts
  <2> QED
    BY <2>1, <2>2
<1>3. \A r \in Requests : /\ Held(r)' => Held(r)
                          /\ OnStack(r)' => OnStack(r)
                          /\ Queued(r)' => Queued(r)
                          /\ Answered(r)' => Answered(r)
  BY <1>1 DEF Held, OnStack, Queued, Answered
<1>4. AllOnce'
  BY <1>1, <1>2, <1>3, ShrinkOnce
<1> QED
  BY <1>1, <1>2, <1>4 DEF UInv, LisRight, StackRight, QueueRight, StackOnce, QueueOnce, AnswersOnce

\* What is sent again goes back to the stack, or is dropped.
LEMMA ResendUInv == \A o \in Ops : TInv /\ UInv /\ Resend(o) => UInv'
<1> SUFFICES ASSUME TInv, UInv, NEW o \in Ops, Resend(o) PROVE UInv'
  OBVIOUS
<1>1. UNCHANGED <<lisPc, cur, respQ, answers, content>>
  BY DEF Resend, RespOnly, lisVars, qVars
<1>2. respPc[o] \in InHand /\ RespDone(o) /\ Submit(o, resp[o].tx, resp[o].for, copy[o].req)
  BY DEF Resend, InHand, RespPcs
<1>3. HandRight' /\ \A r \in Requests : AtHand(r)' => AtHand(r)
  BY <1>2, RespStepFacts
<1>4. PICK c \in Requests : c = resp[o].for /\ OpOf[c] = o /\ AtHand(c) /\ ~AtHand(c)'
  BY <1>2, RespDoneFacts
<1>5. Once(c)
  BY <1>4 DEF UInv, AllOnce
<1>6. ~OnStack(c)
  BY <1>4, <1>5 DEF Once
<1>7. StackRight' /\ StackOnce' /\ \A r \in Requests : r # c => (OnStack(r)' <=> OnStack(r))
  BY <1>2, <1>4, <1>6, SubmitOnce
<1>8. \A r \in Requests : /\ Held(r)' <=> Held(r)
                          /\ Queued(r)' <=> Queued(r)
                          /\ Answered(r)' <=> Answered(r)
  BY <1>1 DEF Held, Queued, Answered
<1>9. Once(c)'
  BY <1>1, <1>4, <1>5, <1>8 DEF Once
<1>10. AllOnce'
  BY <1>1, <1>3, <1>7, <1>8, <1>9, MoveOnce
<1> QED
  BY <1>1, <1>3, <1>7, <1>10 DEF UInv, LisRight, QueueRight, QueueOnce, AnswersOnce

\* A removed command is answered.
LEMMA RemoveUInv == \A o \in Ops : TInv /\ UInv /\ Remove(o) => UInv'
<1> SUFFICES ASSUME TInv, UInv, NEW o \in Ops, Remove(o) PROVE UInv'
  OBVIOUS
<1>1. UNCHANGED <<lisPc, cur, respQ, stack, content>>
  BY DEF Remove, RespOnly, lisVars, qVars
<1>2. respPc[o] \in InHand /\ RespDone(o)
  BY DEF Remove, InHand, RespPcs
<1>3. HandRight' /\ \A r \in Requests : AtHand(r)' => AtHand(r)
  BY <1>2, RespStepFacts
<1>4. PICK c \in Requests : c = resp[o].for /\ OpOf[c] = o /\ AtHand(c) /\ ~AtHand(c)'
  BY <1>2, RespDoneFacts
<1>5. Once(c)
  BY <1>4 DEF UInv, AllOnce
<1>6. PICK a \in AnswerSet : a.for = c /\ answers' = Append(answers, a)
  <2>1. resp[o] \in Response /\ copy[o] \in Entry
    BY <1>2 DEF Remove, TInv, TypeOK, RespTypes, Copied
  <2> QED
    BY <1>4, <2>1, PublishFacts DEF Remove
<1>7. /\ Len(answers) \in Nat /\ Len(answers') = Len(answers) + 1 /\ answers'[Len(answers) + 1] = a
      /\ \A i \in 1..Len(answers) : answers'[i] = answers[i]
  <2>1. answers \in Seq(AnswerSet)
    BY DEF AnswerSet, TInv, TypeOK, HistTypes
  <2> QED
    BY <1>6, <2>1, AppendFacts
<1>8. \A r \in Requests : r # c => (Answered(r)' => Answered(r))
  BY <1>6, <1>7 DEF Answered
<1>9. AnswersOnce'
  <2>1. ~Answered(c)
    BY <1>4, <1>5 DEF Once
  <2>2. ASSUME NEW j \in 1..Len(answers'), NEW k \in 1..Len(answers'), j < k
        PROVE  answers'[j].for # answers'[k].for
    <3>1. CASE k \in 1..Len(answers)
      BY <1>7, <2>2, <3>1 DEF UInv, AnswersOnce
    <3>2. CASE k = Len(answers) + 1
      <4>1. j \in 1..Len(answers)
        BY <1>7, <2>2, <3>2
      <4> QED
        BY <1>6, <1>7, <2>1, <3>2, <4>1 DEF Answered
    <3> QED
      BY <1>7, <2>2, <3>1, <3>2
  <2> QED
    BY <2>2 DEF AnswersOnce
<1>10. \A r \in Requests : /\ Held(r)' <=> Held(r)
                           /\ OnStack(r)' <=> OnStack(r)
                           /\ Queued(r)' <=> Queued(r)
  BY <1>1 DEF Held, OnStack, Queued
<1>11. Once(c)'
  BY <1>1, <1>4, <1>5, <1>10 DEF Once
<1>12. AllOnce'
  BY <1>1, <1>3, <1>8, <1>10, <1>11, MoveOnce
<1> QED
  BY <1>1, <1>3, <1>9, <1>12 DEF UInv, LisRight, StackRight, QueueRight, StackOnce, QueueOnce

\* A step that changes nothing.
LEMMA StutterUInv == UInv /\ UNCHANGED vars => UInv'
<1> SUFFICES ASSUME UInv, UNCHANGED vars PROVE UInv'
  OBVIOUS
<1>1. UNCHANGED <<content, lisPc, cur, stack, respQ, respPc, resp, answers>>
  BY DEF vars, lisVars, qVars, respVars
<1>2. \A r \in Requests : /\ Held(r)' <=> Held(r)
                          /\ OnStack(r)' <=> OnStack(r)
                          /\ Queued(r)' <=> Queued(r)
                          /\ AtHand(r)' <=> AtHand(r)
                          /\ Answered(r)' <=> Answered(r)
  BY <1>1 DEF Held, OnStack, Queued, AtHand, Answered
<1>3. AllOnce'
  BY <1>1, <1>2, ShrinkOnce
<1> QED
  BY <1>1, <1>3 DEF UInv, LisRight, StackRight, QueueRight, HandRight, StackOnce, QueueOnce, AnswersOnce

\* UInv holds in every state.
LEMMA UInvHolds == Spec => []UInv
<1>1. TInv /\ UInv /\ [Next]_vars => UInv'
  BY RecvUInv, NumberInsertUInv, CallUInv, ErrorResponseUInv, StackAnswerUInv, RespPopUInv,
     RespStepUInv, ResendUInv, RemoveUInv, StutterUInv DEF Next, Listener, Responder
<1> QED
  BY InitUInv, TInvHolds, <1>1, PTL DEF Spec

-----------------------------------------------------------------------------
(* What is worked on under a TxID, place by place, and how each step       *)
(* changes it.  But for Number, no step brings a command under a TxID.     *)

LisWorks(t, r)   == \E o \in Ops : lisPc[o] \in {"insert", "call", "error"} /\ cur[o].tx = t /\ cur[o].req = r
StackWorks(t, r) == \E s \in stack : s.tx = t /\ s.for = r
QueueWorks(t, r) == \E o \in Ops : \E k \in 1..Len(respQ[o]) : respQ[o][k].tx = t /\ respQ[o][k].for = r
HandWorks(t, r)  == \E o \in Ops : respPc[o] \in InHand /\ resp[o].tx = t /\ resp[o].for = r

Works(t, r) == LisWorks(t, r) \/ StackWorks(t, r) \/ QueueWorks(t, r) \/ HandWorks(t, r)

\* Works is membership of Working.
LEMMA WorkingFacts ==
  ASSUME NEW t, NEW r \in Requests
  PROVE  r \in Working(t) <=> Works(t, r)
  BY DEF Working, Works, LisWorks, StackWorks, QueueWorks, HandWorks

\* All that is worked on is a command.
LEMMA WorkTypes ==
  ASSUME TInv, NEW t
  PROVE  Working(t) \subseteq Requests
  BY DEF Working, TInv, TypeOK, LisTypes, HistTypes, RespTypes, Command, Submission, Response

\* A step that adds no work, and one whose lost work has leaked or has no entry.
NoneAdded == \A t \in TxIds, r \in Requests : Works(t, r)' => Works(t, r)
NoneLost  == \A t \in TxIds, r \in Requests :
               Works(t, r) => Works(t, r)' \/ r \in leaked' \/ t \notin DOMAIN reqMap'

\* A push adds the work of the response that is pushed.
LEMMA PushWorks ==
  ASSUME TInv, NEW o \in Ops, NEW x \in Response, Push(o, x), NEW t, NEW r
  PROVE  QueueWorks(t, r)' <=> QueueWorks(t, r) \/ (x.tx = t /\ x.for = r)
<1>1. /\ \A p \in Ops : p # o => respQ'[p] = respQ[p]
      /\ Len(respQ[o]) \in Nat /\ Len(respQ'[o]) = Len(respQ[o]) + 1
      /\ \A k \in 1..Len(respQ[o]) : respQ'[o][k] = respQ[o][k]
      /\ respQ'[o][Len(respQ[o]) + 1] = x
  BY PushFacts
<1>2. ASSUME NEW p \in Ops, NEW k \in 1..Len(respQ'[p])
      PROVE  \/ k \in 1..Len(respQ[p]) /\ respQ'[p][k] = respQ[p][k]
             \/ p = o /\ k = Len(respQ[o]) + 1 /\ respQ'[p][k] = x
  BY <1>1
<1>3. ASSUME NEW p \in Ops, NEW k \in 1..Len(respQ[p])
      PROVE  k \in 1..Len(respQ'[p]) /\ respQ'[p][k] = respQ[p][k]
  BY <1>1
<1>4. Len(respQ[o]) + 1 \in 1..Len(respQ'[o]) /\ respQ'[o][Len(respQ[o]) + 1] = x
  BY <1>1
<1> QED
  BY <1>2, <1>3, <1>4, SMTT(60) DEF QueueWorks

\* A submission adds its work, unless it is refused.
LEMMA SubmitWorks ==
  ASSUME NEW o \in Ops, NEW u, NEW c, NEW d, Submit(o, u, c, d), NEW t, NEW r
  PROVE  \/ StackWorks(t, r)' <=> StackWorks(t, r) \/ (u = t /\ c = r)
         \/ (StackWorks(t, r)' <=> StackWorks(t, r)) /\ c \in leaked'
<1> DEFINE n == [tx |-> u, for |-> c, data |-> d, op |-> o]
<1>1. n.for = c /\ n.tx = u
  OBVIOUS
<1>2. stack' = stack \cup {n} \/ (stack' = stack /\ c \in leaked')
  BY DEF Submit
<1> HIDE DEF n
<1> QED
  BY <1>1, <1>2 DEF StackWorks

\* A listener that is done has no work.
LEMMA LisDoneWorks ==
  ASSUME TInv, NEW o \in Ops, LisDone(o), lisPc[o] \in {"insert", "call", "error"}, NEW t, NEW r
  PROVE  /\ LisWorks(t, r)' => LisWorks(t, r)
         /\ LisWorks(t, r) => LisWorks(t, r)' \/ (cur[o].tx = t /\ cur[o].req = r)
<1>1. lisPc'[o] = "recv" /\ \A p \in Ops : p # o => lisPc'[p] = lisPc[p] /\ cur'[p] = cur[p]
  BY DEF LisDone, LisGoto, TInv, TypeOK, LisTypes
<1> QED
  BY <1>1 DEF LisWorks

\* A response thread that is done has no work, and one that goes on the same.
LEMMA RespWorks ==
  ASSUME TInv, NEW o \in Ops, respPc[o] \in InHand, NEW t, NEW r
  PROVE  /\ RespDone(o) => /\ HandWorks(t, r)' => HandWorks(t, r)
                           /\ HandWorks(t, r) => HandWorks(t, r)' \/ (resp[o].tx = t /\ resp[o].for = r)
         /\ (UNCHANGED resp /\ \E n \in InHand : RespGoto(o, n)) => (HandWorks(t, r)' <=> HandWorks(t, r))
<1>1. ASSUME RespDone(o)
      PROVE  respPc'[o] \notin InHand /\ \A p \in Ops : p # o => respPc'[p] = respPc[p] /\ resp'[p] = resp[p]
  BY <1>1 DEF RespDone, RespGoto, InHand, TInv, TypeOK, RespTypes
<1>2. ASSUME UNCHANGED resp, NEW n \in InHand, RespGoto(o, n)
      PROVE  respPc'[o] \in InHand /\ \A p \in Ops : p # o => respPc'[p] = respPc[p]
  BY <1>2 DEF RespGoto, TInv, TypeOK, RespTypes
<1>3. RespDone(o) => /\ HandWorks(t, r)' => HandWorks(t, r)
                     /\ HandWorks(t, r) => HandWorks(t, r)' \/ (resp[o].tx = t /\ resp[o].for = r)
  BY <1>1 DEF HandWorks
<1>4. (UNCHANGED resp /\ \E n \in InHand : RespGoto(o, n)) => (HandWorks(t, r)' <=> HandWorks(t, r))
  BY <1>2 DEF HandWorks
<1> QED
  BY <1>3, <1>4

\* Recv and RespWait change no work.
LEMMA RecvWaitWorks == \A o \in Ops : TInv /\ (Recv(o) \/ RespWait(o)) => NoneAdded /\ NoneLost
<1> SUFFICES ASSUME TInv, NEW o \in Ops, Recv(o) \/ RespWait(o), NEW t \in TxIds, NEW r \in Requests
             PROVE  Works(t, r)' <=> Works(t, r)
  BY DEF NoneAdded, NoneLost
<1>1. UNCHANGED <<stack, respQ, resp>>
  BY DEF Recv, RespWait, RespOnly, qVars, respVars
<1>2. LisWorks(t, r)' <=> LisWorks(t, r)
  <2>1. /\ \A p \in Ops : p # o => lisPc'[p] = lisPc[p] /\ cur'[p] = cur[p]
        /\ (lisPc'[o] = lisPc[o] /\ cur'[o] = cur[o])
            \/ (lisPc[o] \notin {"insert", "call", "error"} /\ lisPc'[o] \notin {"insert", "call", "error"})
    BY DEF Recv, RespWait, RespOnly, lisVars, LisGoto, TInv, TypeOK, LisTypes
  <2> QED
    BY <2>1 DEF LisWorks
<1>3. HandWorks(t, r)' <=> HandWorks(t, r)
  <2>1. /\ \A p \in Ops : p # o => respPc'[p] = respPc[p]
        /\ respPc'[o] = respPc[o] \/ (respPc[o] \notin InHand /\ respPc'[o] \notin InHand)
    BY DEF Recv, RespWait, RespGoto, respVars, InHand, TInv, TypeOK, RespTypes
  <2> QED
    BY <1>1, <2>1 DEF HandWorks
<1>4. (StackWorks(t, r)' <=> StackWorks(t, r)) /\ (QueueWorks(t, r)' <=> QueueWorks(t, r))
  BY <1>1 DEF StackWorks, QueueWorks
<1> QED
  BY <1>2, <1>3, <1>4 DEF Works

\* A number brings its command under it.
LEMMA NumberWorks ==
  ASSUME TInv, NEW o \in Ops, Number(o), NEW t, NEW r
  PROVE  Works(t, r)' <=> Works(t, r) \/ (t = txId' /\ r = cur[o].req)
<1>1. UNCHANGED <<stack, respQ, resp, respPc>>
  BY DEF Number, qVars, respVars
<1>2. cur' = [cur EXCEPT ![o].tx = txId'] /\ lisPc' = [lisPc EXCEPT ![o] = "insert"]
      /\ lisPc[o] = "number" /\ cur[o] \in Command
  BY DEF Number, LisGoto, TInv, TypeOK, LisTypes
<1>3. /\ lisPc'[o] = "insert" /\ cur'[o].tx = txId' /\ cur'[o].req = cur[o].req
      /\ \A p \in Ops : p # o => lisPc'[p] = lisPc[p] /\ cur'[p] = cur[p]
  BY <1>2 DEF Command, TInv, TypeOK, LisTypes
<1>4. LisWorks(t, r)' <=> LisWorks(t, r) \/ (t = txId' /\ r = cur[o].req)
  BY <1>2, <1>3 DEF LisWorks
<1>5. /\ StackWorks(t, r)' <=> StackWorks(t, r)
      /\ QueueWorks(t, r)' <=> QueueWorks(t, r)
      /\ HandWorks(t, r)' <=> HandWorks(t, r)
  BY <1>1 DEF StackWorks, QueueWorks, HandWorks
<1> QED
  BY <1>4, <1>5 DEF Works

\* Insert keeps the command at hand, or it has leaked.
LEMMA InsertWorks == \A o \in Ops : TInv /\ Insert(o) => NoneAdded /\ NoneLost
<1> SUFFICES ASSUME TInv, NEW o \in Ops, Insert(o), NEW t \in TxIds, NEW r \in Requests
             PROVE  /\ Works(t, r)' => Works(t, r)
                    /\ Works(t, r) => Works(t, r)' \/ r \in leaked'
  BY DEF NoneAdded, NoneLost
<1>1. UNCHANGED <<stack, respQ, resp, respPc>> /\ lisPc[o] = "insert"
  BY DEF Insert, qVars, respVars
<1>2. /\ LisWorks(t, r)' => LisWorks(t, r)
      /\ LisWorks(t, r) => LisWorks(t, r)' \/ r \in leaked'
  <2>1. CASE LisDone(o) /\ leaked' = leaked \cup {cur[o].req}
    BY <1>1, <2>1, LisDoneWorks
  <2>2. CASE UNCHANGED cur /\ \E n \in {"call", "error"} : LisGoto(o, n)
    <3>1. lisPc'[o] \in {"insert", "call", "error"} /\ \A p \in Ops : p # o => lisPc'[p] = lisPc[p]
      BY <2>2 DEF LisGoto, TInv, TypeOK, LisTypes
    <3> QED
      BY <1>1, <2>2, <3>1 DEF LisWorks
  <2> QED
    BY <2>1, <2>2 DEF Insert
<1>3. /\ StackWorks(t, r)' <=> StackWorks(t, r)
      /\ QueueWorks(t, r)' <=> QueueWorks(t, r)
      /\ HandWorks(t, r)' <=> HandWorks(t, r)
  BY <1>1 DEF StackWorks, QueueWorks, HandWorks
<1> QED
  BY <1>2, <1>3 DEF Works

\* A command that is called for is with the stack, or has leaked.
LEMMA CallWorks == \A o \in Ops : TInv /\ Call(o) => NoneAdded /\ NoneLost
<1> SUFFICES ASSUME TInv, NEW o \in Ops, Call(o), NEW t \in TxIds, NEW r \in Requests
             PROVE  /\ Works(t, r)' => Works(t, r)
                    /\ Works(t, r) => Works(t, r)' \/ r \in leaked'
  BY DEF NoneAdded, NoneLost
<1>1. UNCHANGED <<respQ, resp, respPc>> /\ lisPc[o] = "call" /\ LisDone(o)
      /\ Submit(o, cur[o].tx, cur[o].req, cur[o].req)
  BY DEF Call, qVars, respVars
<1>2. /\ LisWorks(t, r)' => LisWorks(t, r)
      /\ LisWorks(t, r) => LisWorks(t, r)' \/ (cur[o].tx = t /\ cur[o].req = r)
  BY <1>1, LisDoneWorks
<1>3. \/ StackWorks(t, r)' <=> StackWorks(t, r) \/ (cur[o].tx = t /\ cur[o].req = r)
      \/ (StackWorks(t, r)' <=> StackWorks(t, r)) /\ cur[o].req \in leaked'
  BY <1>1, SubmitWorks
<1>4. cur[o].tx = t /\ cur[o].req = r => LisWorks(t, r)
  BY <1>1 DEF LisWorks
<1>5. (QueueWorks(t, r)' <=> QueueWorks(t, r)) /\ (HandWorks(t, r)' <=> HandWorks(t, r))
  BY <1>1 DEF QueueWorks, HandWorks
<1> QED
  BY <1>2, <1>3, <1>4, <1>5 DEF Works

\* An error response is in the queue.
LEMMA ErrorResponseWorks == \A o \in Ops : TInv /\ ErrorResponse(o) => NoneAdded /\ NoneLost
<1> SUFFICES ASSUME TInv, NEW o \in Ops, ErrorResponse(o), NEW t \in TxIds, NEW r \in Requests
             PROVE  Works(t, r)' <=> Works(t, r)
  BY DEF NoneAdded, NoneLost
<1>1. UNCHANGED <<stack, resp, respPc>> /\ lisPc[o] = "error" /\ LisDone(o)
      /\ Push(o, [tx |-> cur[o].tx, for |-> cur[o].req, kind |-> "error"])
  BY DEF ErrorResponse, respVars
<1>2. PICK x \in Response : x.tx = cur[o].tx /\ x.for = cur[o].req /\ Push(o, x)
  BY <1>1 DEF Response, Command, TInv, TypeOK, LisTypes
<1>3. /\ LisWorks(t, r)' => LisWorks(t, r)
      /\ LisWorks(t, r) => LisWorks(t, r)' \/ (cur[o].tx = t /\ cur[o].req = r)
  BY <1>1, LisDoneWorks
<1>4. QueueWorks(t, r)' <=> QueueWorks(t, r) \/ (x.tx = t /\ x.for = r)
  BY <1>2, PushWorks
<1>5. cur[o].tx = t /\ cur[o].req = r => LisWorks(t, r)
  BY <1>1 DEF LisWorks
<1>6. (StackWorks(t, r)' <=> StackWorks(t, r)) /\ (HandWorks(t, r)' <=> HandWorks(t, r))
  BY <1>1 DEF StackWorks, HandWorks
<1> QED
  BY <1>2, <1>3, <1>4, <1>5, <1>6 DEF Works

\* What the stack answers is in the queue.
LEMMA StackAnswerWorks == TInv /\ StackAnswer => NoneAdded /\ NoneLost
<1> SUFFICES ASSUME TInv, StackAnswer, NEW t \in TxIds, NEW r \in Requests
             PROVE  Works(t, r)' <=> Works(t, r)
  BY DEF NoneAdded, NoneLost
<1>1. UNCHANGED <<lisPc, cur, resp, respPc>>
  BY DEF StackAnswer, respVars, lisVars
<1>2. PICK s \in stack, k \in {"good", "error", "timeout"} :
        stack' = stack \ {s} /\ Push(s.op, [tx |-> s.tx, for |-> s.for, kind |-> k])
  BY DEF StackAnswer
<1>3. s.op \in Ops /\ s \in Submission
  BY DEF TInv, TypeOK, HistTypes, Submission
<1>4. PICK x \in Response : x.tx = s.tx /\ x.for = s.for /\ Push(s.op, x)
  BY <1>2, <1>3 DEF Response, Submission
<1>5. QueueWorks(t, r)' <=> QueueWorks(t, r) \/ (x.tx = t /\ x.for = r)
  BY <1>3, <1>4, PushWorks
<1>6. /\ StackWorks(t, r)' => StackWorks(t, r)
      /\ StackWorks(t, r) => StackWorks(t, r)' \/ (s.tx = t /\ s.for = r)
      /\ s.tx = t /\ s.for = r => StackWorks(t, r)
  BY <1>2 DEF StackWorks
<1>7. (LisWorks(t, r)' <=> LisWorks(t, r)) /\ (HandWorks(t, r)' <=> HandWorks(t, r))
  BY <1>1 DEF LisWorks, HandWorks
<1> QED
  BY <1>4, <1>5, <1>6, <1>7 DEF Works

\* What is popped is in the hand of the thread.
LEMMA RespPopWorks == \A o \in Ops : TInv /\ RespPop(o) => NoneAdded /\ NoneLost
<1> SUFFICES ASSUME TInv, NEW o \in Ops, RespPop(o), NEW t \in TxIds, NEW r \in Requests
             PROVE  Works(t, r)' <=> Works(t, r)
  BY DEF NoneAdded, NoneLost
<1>1. UNCHANGED <<lisPc, cur, stack>> /\ respPc[o] = "pop"
  BY DEF RespPop, RespOnly, lisVars
<1> DEFINE s == respQ[o]
<1>2. s \in Seq(Response) /\ Len(s) > 0
  BY DEF RespPop, TInv, TypeOK, QueueTypes
<1>3. respQ'[o] = Tail(s) /\ \A p \in Ops : p # o => respQ'[p] = respQ[p]
  BY DEF RespPop, TInv, TypeOK, QueueTypes
<1>4. /\ respPc'[o] \in InHand /\ resp'[o] = Head(s)
      /\ \A p \in Ops : p # o => respPc'[p] = respPc[p] /\ resp'[p] = resp[p]
  BY DEF RespPop, RespGoto, InHand, RespPcs, TInv, TypeOK, RespTypes
<1> HIDE DEF s
<1>5. /\ Len(s) \in Nat \ {0} /\ Len(Tail(s)) = Len(s) - 1 /\ Head(s) = s[1]
      /\ \A i \in 1..(Len(s) - 1) : Tail(s)[i] = s[i + 1]
  BY <1>2, TailFacts
<1>6. /\ \A k \in 1..Len(respQ'[o]) : k + 1 \in 1..Len(respQ[o]) /\ respQ'[o][k] = respQ[o][k + 1]
      /\ \A k \in 1..Len(respQ[o]) : k = 1 \/ (k - 1 \in 1..Len(respQ'[o]) /\ respQ'[o][k - 1] = respQ[o][k])
      /\ 1 \in 1..Len(respQ[o]) /\ respQ[o][1] = resp'[o]
  BY <1>3, <1>4, <1>5 DEF s
<1>7. QueueWorks(t, r)' => QueueWorks(t, r)
  <2> SUFFICES ASSUME NEW p \in Ops, NEW k \in 1..Len(respQ'[p]), respQ'[p][k].tx = t, respQ'[p][k].for = r
               PROVE  QueueWorks(t, r)
    BY DEF QueueWorks
  <2>1. CASE p # o
    BY <1>3, <2>1 DEF QueueWorks
  <2>2. CASE p = o
    <3>1. k + 1 \in 1..Len(respQ[o]) /\ respQ'[o][k] = respQ[o][k + 1]
      BY <1>6, <2>2
    <3> QED
      BY <2>2, <3>1 DEF QueueWorks
  <2> QED
    BY <2>1, <2>2
<1>8. QueueWorks(t, r) => QueueWorks(t, r)' \/ HandWorks(t, r)'
  <2> SUFFICES ASSUME NEW p \in Ops, NEW k \in 1..Len(respQ[p]), respQ[p][k].tx = t, respQ[p][k].for = r
               PROVE  QueueWorks(t, r)' \/ HandWorks(t, r)'
    BY DEF QueueWorks
  <2>1. CASE p # o
    BY <1>3, <2>1 DEF QueueWorks
  <2>2. CASE p = o /\ k = 1
    BY <1>4, <1>6, <2>2 DEF HandWorks
  <2>3. CASE p = o /\ k - 1 \in 1..Len(respQ'[o]) /\ respQ'[o][k - 1] = respQ[o][k]
    BY <2>3 DEF QueueWorks
  <2> QED
    BY <1>6, <2>1, <2>2, <2>3
<1>9. HandWorks(t, r)' => HandWorks(t, r) \/ QueueWorks(t, r)
  BY <1>4, <1>6 DEF HandWorks, QueueWorks
<1>10. HandWorks(t, r) => HandWorks(t, r)'
  BY <1>1, <1>4 DEF HandWorks, InHand
<1>11. (LisWorks(t, r)' <=> LisWorks(t, r)) /\ (StackWorks(t, r)' <=> StackWorks(t, r))
  BY <1>1 DEF LisWorks, StackWorks
<1> QED
  BY <1>7, <1>8, <1>9, <1>10, <1>11 DEF Works

\* A thread that is done without an answer found no entry, or leaves one that
\* is named.
LEMMA LookWorks == \A o \in Ops : TInv /\ (RetryGet(o) \/ RetryUpdate(o) \/ Lookup(o)) => NoneAdded /\ NoneLost
<1> SUFFICES ASSUME TInv, NEW o \in Ops, RetryGet(o) \/ RetryUpdate(o) \/ Lookup(o),
                    NEW t \in TxIds, NEW r \in Requests
             PROVE  /\ Works(t, r)' => Works(t, r)
                    /\ Works(t, r) => Works(t, r)' \/ t \notin DOMAIN reqMap' \/ r \in leaked'
  BY DEF NoneAdded, NoneLost
<1>1. UNCHANGED <<lisPc, cur, stack, respQ>> /\ respPc[o] \in InHand
  BY DEF RetryGet, RetryUpdate, Lookup, RespOnly, lisVars, qVars, InHand, RespPcs
<1>2. \/ RespDone(o) /\ (resp[o].tx \notin DOMAIN reqMap' \/ resp[o].for \in leaked')
      \/ UNCHANGED resp /\ \E n \in InHand : RespGoto(o, n)
  BY DEF RetryGet, RetryUpdate, Lookup, InHand, RespPcs
<1>3. /\ HandWorks(t, r)' => HandWorks(t, r)
      /\ HandWorks(t, r) => HandWorks(t, r)' \/ t \notin DOMAIN reqMap' \/ r \in leaked'
  BY <1>1, <1>2, RespWorks
<1>4. /\ LisWorks(t, r)' <=> LisWorks(t, r)
      /\ StackWorks(t, r)' <=> StackWorks(t, r)
      /\ QueueWorks(t, r)' <=> QueueWorks(t, r)
  BY <1>1 DEF LisWorks, StackWorks, QueueWorks
<1> QED
  BY <1>3, <1>4 DEF Works

\* What is sent again is with the stack, or has leaked.
LEMMA ResendWorks == \A o \in Ops : TInv /\ Resend(o) => NoneAdded /\ NoneLost
<1> SUFFICES ASSUME TInv, NEW o \in Ops, Resend(o), NEW t \in TxIds, NEW r \in Requests
             PROVE  /\ Works(t, r)' => Works(t, r)
                    /\ Works(t, r) => Works(t, r)' \/ r \in leaked'
  BY DEF NoneAdded, NoneLost
<1>1. UNCHANGED <<lisPc, cur, respQ>> /\ respPc[o] \in InHand /\ RespDone(o)
      /\ Submit(o, resp[o].tx, resp[o].for, copy[o].req)
  BY DEF Resend, RespOnly, lisVars, qVars, InHand, RespPcs
<1>2. /\ HandWorks(t, r)' => HandWorks(t, r)
      /\ HandWorks(t, r) => HandWorks(t, r)' \/ (resp[o].tx = t /\ resp[o].for = r)
  BY <1>1, RespWorks
<1>3. \/ StackWorks(t, r)' <=> StackWorks(t, r) \/ (resp[o].tx = t /\ resp[o].for = r)
      \/ (StackWorks(t, r)' <=> StackWorks(t, r)) /\ resp[o].for \in leaked'
  BY <1>1, SubmitWorks
<1>4. resp[o].tx = t /\ resp[o].for = r => HandWorks(t, r)
  BY <1>1 DEF HandWorks
<1>5. (LisWorks(t, r)' <=> LisWorks(t, r)) /\ (QueueWorks(t, r)' <=> QueueWorks(t, r))
  BY <1>1 DEF LisWorks, QueueWorks
<1> QED
  BY <1>2, <1>3, <1>4, <1>5 DEF Works

\* The work that ends with an answer leaves no entry.
LEMMA RemoveWorks == \A o \in Ops : TInv /\ Remove(o) => NoneAdded /\ NoneLost
<1> SUFFICES ASSUME TInv, NEW o \in Ops, Remove(o), NEW t \in TxIds, NEW r \in Requests
             PROVE  /\ Works(t, r)' => Works(t, r)
                    /\ Works(t, r) => Works(t, r)' \/ t \notin DOMAIN reqMap'
  BY DEF NoneAdded, NoneLost
<1>1. UNCHANGED <<lisPc, cur, respQ, stack>> /\ respPc[o] \in InHand /\ RespDone(o)
      /\ resp[o].tx \notin DOMAIN reqMap'
  BY DEF Remove, RespOnly, lisVars, qVars, InHand, RespPcs
<1>2. /\ HandWorks(t, r)' => HandWorks(t, r)
      /\ HandWorks(t, r) => HandWorks(t, r)' \/ (resp[o].tx = t /\ resp[o].for = r)
  BY <1>1, RespWorks
<1>3. /\ LisWorks(t, r)' <=> LisWorks(t, r)
      /\ StackWorks(t, r)' <=> StackWorks(t, r)
      /\ QueueWorks(t, r)' <=> QueueWorks(t, r)
  BY <1>1 DEF LisWorks, StackWorks, QueueWorks
<1> QED
  BY <1>1, <1>2, <1>3 DEF Works

\* A step that changes nothing.
LEMMA StutterWorks == UNCHANGED vars => NoneAdded /\ NoneLost
<1> SUFFICES ASSUME UNCHANGED vars, NEW t \in TxIds, NEW r \in Requests PROVE Works(t, r)' <=> Works(t, r)
  BY DEF NoneAdded, NoneLost
<1>1. UNCHANGED <<lisPc, cur, respQ, stack, respPc, resp>>
  BY DEF vars, lisVars, qVars, respVars
<1> QED
  BY <1>1 DEF Works, LisWorks, StackWorks, QueueWorks, HandWorks

-----------------------------------------------------------------------------
(* Numbers.  Until the TxIDs wrap, those in use are not above the counter; *)
(* afterwards Number marks who shares one.                                 *)

Share(r, q) == r = q \/ {r, q} \subseteq reused
NumbersUsed ==
  ~wrapped => /\ \A t \in DOMAIN reqMap : t <= txId
              /\ \A t \in TxIds, r \in Requests : Works(t, r) => t <= txId
WorkAlone  == \A t \in TxIds, r \in Requests, q \in Requests : Works(t, r) /\ Works(t, q) => Share(r, q)
EntryAlone == \A t \in DOMAIN reqMap, r \in Requests : Works(t, r) => Share(r, reqMap[t].req)
InsertNew  == \A o \in Ops : lisPc[o] = "insert" => cur[o].req \in reused \/ cur[o].tx \notin DOMAIN reqMap
CopyShares == \A o \in Ops : respPc[o] \in Copied => Share(resp[o].for, copy[o].req)

NInv == NumbersUsed /\ WorkAlone /\ EntryAlone /\ InsertNew /\ CopyShares

\* Nothing is in use.
LEMMA InitNInv == Init => NInv
<1> SUFFICES ASSUME Init PROVE NInv
  OBVIOUS
<1>1. /\ \A o \in Ops : lisPc[o] = "recv" /\ respPc[o] = "wait" /\ Len(respQ[o]) = 0
      /\ stack = {} /\ DOMAIN reqMap = {}
  BY DEF Init, NoFun
<1>2. \A t \in TxIds, r \in Requests : ~Works(t, r)
  BY <1>1 DEF Works, LisWorks, StackWorks, QueueWorks, HandWorks, InHand
<1> QED
  BY <1>1, <1>2 DEF NInv, NumbersUsed, WorkAlone, EntryAlone, InsertNew, CopyShares, Copied

\* Steps that number nothing and store nothing.
LEMMA QuietNumbers ==
  ASSUME TInv, NInv, NoneAdded, UNCHANGED <<txId, wrapped, reused>>,
         DOMAIN reqMap' \subseteq DOMAIN reqMap, \A t \in DOMAIN reqMap' : reqMap'[t] = reqMap[t],
         \A o \in Ops : lisPc'[o] = "insert" => lisPc[o] = "insert" /\ cur'[o] = cur[o]
  PROVE  NumbersUsed' /\ WorkAlone' /\ EntryAlone' /\ InsertNew'
<1>1. DOMAIN reqMap \subseteq TxIds
  BY DEF TInv, TypeOK, MapTypes
<1>2. NumbersUsed'
  BY <1>1 DEF NInv, NumbersUsed, NoneAdded
<1>3. WorkAlone'
  BY <1>1 DEF NInv, WorkAlone, NoneAdded, Share
<1>4. EntryAlone'
  BY <1>1 DEF NInv, EntryAlone, NoneAdded, Share
<1>5. InsertNew'
  BY DEF NInv, InsertNew
<1> QED
  BY <1>2, <1>3, <1>4, <1>5

\* What a response thread copies shares the number.
LEMMA CopyStep ==
  ASSUME TInv, NInv, UNCHANGED <<reused, reqMap>>,
         \A o \in Ops : respPc'[o] \in Copied =>
           \/ respPc[o] \in Copied /\ resp'[o] = resp[o] /\ copy'[o].req = copy[o].req
           \/ /\ respPc[o] \in InHand /\ resp[o].tx \in DOMAIN reqMap
              /\ resp'[o] = resp[o] /\ copy'[o] = reqMap[resp[o].tx]
  PROVE  CopyShares'
<1> SUFFICES ASSUME NEW o \in Ops, respPc'[o] \in Copied PROVE Share(resp[o].for, copy[o].req)'
  BY DEF CopyShares
<1>1. CASE respPc[o] \in Copied /\ resp'[o] = resp[o] /\ copy'[o].req = copy[o].req
  BY <1>1 DEF NInv, CopyShares, Share
<1>2. CASE /\ respPc[o] \in InHand /\ resp[o].tx \in DOMAIN reqMap
           /\ resp'[o] = resp[o] /\ copy'[o] = reqMap[resp[o].tx]
  <2>1. Works(resp[o].tx, resp[o].for) /\ resp[o].for \in Requests
    BY <1>2 DEF Works, HandWorks, TInv, TypeOK, RespTypes, Response
  <2>2. Share(resp[o].for, reqMap[resp[o].tx].req)
    BY <1>2, <2>1 DEF NInv, EntryAlone
  <2> QED
    BY <1>2, <2>2 DEF Share
<1> QED
  BY <1>1, <1>2

\* Steps of the listeners but Number and Insert, of the stack, and RespWait.
LEMMA OtherNInv ==
  TInv /\ NInv /\ (StackAnswer \/ \E o \in Ops : Recv(o) \/ Call(o) \/ ErrorResponse(o) \/ RespWait(o)) => NInv'
<1> SUFFICES ASSUME TInv, NInv,
                    StackAnswer \/ \E o \in Ops : Recv(o) \/ Call(o) \/ ErrorResponse(o) \/ RespWait(o)
             PROVE  NInv'
  OBVIOUS
<1>1. NoneAdded
  BY StackAnswerWorks, RecvWaitWorks, CallWorks, ErrorResponseWorks
<1>2. UNCHANGED <<reqMap, txId, wrapped, reused>>
  BY DEF StackAnswer, Recv, Call, ErrorResponse, RespWait, RespOnly
<1>3. \A p \in Ops : lisPc'[p] = "insert" => lisPc[p] = "insert" /\ cur'[p] = cur[p]
  <2>1. CASE StackAnswer \/ \E o \in Ops : RespWait(o)
    BY <2>1 DEF StackAnswer, RespWait, RespOnly, lisVars
  <2>2. ASSUME NEW o \in Ops, Recv(o) \/ Call(o) \/ ErrorResponse(o)
        PROVE  \A p \in Ops : lisPc'[p] = "insert" => lisPc[p] = "insert" /\ cur'[p] = cur[p]
    <3>1. CASE Recv(o)
      BY <3>1 DEF Recv, LisGoto, lisVars, TInv, TypeOK, LisTypes
    <3>2. CASE LisDone(o)
      BY <3>2 DEF LisDone, LisGoto, TInv, TypeOK, LisTypes
    <3> QED
      BY <2>2, <3>1, <3>2 DEF Call, ErrorResponse
  <2> QED
    BY <2>1, <2>2
<1>4. NumbersUsed' /\ WorkAlone' /\ EntryAlone' /\ InsertNew'
  BY <1>1, <1>2, <1>3, QuietNumbers
<1>5. UNCHANGED <<resp, copy>>
  BY DEF StackAnswer, Recv, Call, ErrorResponse, RespWait, RespOnly, respVars
<1>6. \A p \in Ops : respPc'[p] \in Copied => respPc[p] \in Copied
  <2>1. CASE UNCHANGED respPc
    BY <2>1
  <2>2. ASSUME NEW o \in Ops, RespWait(o) PROVE \A p \in Ops : respPc'[p] \in Copied => respPc[p] \in Copied
    BY <2>2 DEF RespWait, RespGoto, Copied, TInv, TypeOK, RespTypes
  <2> QED
    BY <2>1, <2>2 DEF StackAnswer, Recv, Call, ErrorResponse, respVars
<1>7. CopyShares'
  BY <1>2, <1>5, <1>6, CopyStep
<1> QED
  BY <1>4, <1>7 DEF NInv

\* Steps of a response thread but RespWait and RetryUpdate.
LEMMA ResponderNInv ==
  \A o \in Ops : TInv /\ NInv /\ (RespPop(o) \/ RetryGet(o) \/ Resend(o) \/ Lookup(o) \/ Remove(o)) => NInv'
<1> SUFFICES ASSUME TInv, NInv, NEW o \in Ops,
                    RespPop(o) \/ RetryGet(o) \/ Resend(o) \/ Lookup(o) \/ Remove(o)
             PROVE  NInv'
  OBVIOUS
<1>1. NoneAdded
  BY RespPopWorks, LookWorks, ResendWorks, RemoveWorks
<1>2. UNCHANGED <<txId, wrapped, reused, lisPc, cur>>
  BY DEF RespPop, RetryGet, Resend, Lookup, Remove, RespOnly, lisVars
<1>3. DOMAIN reqMap' \subseteq DOMAIN reqMap /\ \A t \in DOMAIN reqMap' : reqMap'[t] = reqMap[t]
  BY DEF RespPop, RetryGet, Resend, Lookup, Remove
<1>4. NumbersUsed' /\ WorkAlone' /\ EntryAlone' /\ InsertNew'
  BY <1>1, <1>2, <1>3, QuietNumbers
<1>5. CASE Remove(o) \/ Resend(o)
  <2>1. respPc'[o] = "wait"
        /\ \A p \in Ops : p # o => respPc'[p] = respPc[p] /\ resp'[p] = resp[p] /\ copy'[p] = copy[p]
    BY <1>5 DEF Remove, Resend, RespDone, RespGoto, TInv, TypeOK, RespTypes
  <2>2. CopyShares'
    BY <1>2, <2>1 DEF NInv, CopyShares, Share, Copied
  <2> QED
    BY <1>4, <2>2 DEF NInv
<1>6. CASE RespPop(o) \/ RetryGet(o) \/ Lookup(o)
  <2>1. UNCHANGED reqMap
    BY <1>6 DEF RespPop, RetryGet, Lookup
  <2>2. \A p \in Ops : p # o => respPc'[p] = respPc[p] /\ resp'[p] = resp[p] /\ copy'[p] = copy[p]
    BY <1>6 DEF RespPop, RetryGet, Lookup, RespDone, RespGoto, TInv, TypeOK, RespTypes
  <2>3. respPc'[o] \in Copied => /\ respPc[o] \in InHand /\ resp[o].tx \in DOMAIN reqMap
                                 /\ resp'[o] = resp[o] /\ copy'[o] = reqMap[resp[o].tx]
    <3>1. CASE RespPop(o)
      BY <3>1 DEF RespPop, RespGoto, Copied, TInv, TypeOK, RespTypes
    <3>2. CASE RetryGet(o)
      BY <3>2 DEF RetryGet, RespDone, RespGoto, Copied, InHand, RespPcs, TInv, TypeOK, RespTypes
    <3>3. CASE Lookup(o)
      BY <3>3 DEF Lookup, RespDone, RespGoto, Copied, InHand, RespPcs, TInv, TypeOK, RespTypes
    <3> QED
      BY <1>6, <3>1, <3>2, <3>3
  <2>4. CopyShares'
    BY <1>2, <2>1, <2>2, <2>3, CopyStep
  <2> QED
    BY <1>4, <2>4 DEF NInv
<1> QED
  BY <1>5, <1>6

\* Two commands that share the number that one of them gets are marked.
LEMMA NumberNInv == \A o \in Ops : TInv /\ NInv /\ Number(o) => NInv'
<1> SUFFICES ASSUME TInv, NInv, NEW o \in Ops, Number(o) PROVE NInv'
  OBVIOUS
<1>1. UNCHANGED <<reqMap, respPc, resp, copy>> /\ cur[o] \in Command /\ lisPc[o] = "number"
  BY DEF Number, respVars, TInv, TypeOK, LisTypes
<1>2. PICK c \in Requests : c = cur[o].req
  BY <1>1 DEF Command
<1>3. PICK n \in TxIds : n = txId'
  BY OnDemandAssumption DEF Number, TInv, TypeOK, MapTypes, TxIds
<1>4. \A t \in TxIds, r \in Requests : Works(t, r)' <=> Works(t, r) \/ (t = n /\ r = c)
  BY <1>2, <1>3, NumberWorks
<1>5. /\ n = IF txId = NTx - 1 THEN 0 ELSE txId + 1
      /\ wrapped' = (wrapped \/ n = 0)
      /\ reused' = IF wrapped' /\ InUse(n) THEN reused \cup {c} \cup Working(n) \cup Owner(n) ELSE reused
  BY <1>2, <1>3 DEF Number
<1>6. reused \subseteq reused' /\ txId \in Nat /\ NTx \in Nat
  BY <1>5, OnDemandAssumption DEF TInv, TypeOK, MapTypes, TxIds
<1>7. /\ \A r \in Requests : Works(n, r) => {c, r} \subseteq reused'
      /\ n \in DOMAIN reqMap => /\ {c, reqMap[n].req} \subseteq reused'
                                /\ \A r \in Requests : Works(n, r) => r \in reused'
  <2>1. CASE wrapped' /\ InUse(n)
    BY <1>5, <2>1, WorkingFacts DEF Owner
  <2>2. CASE ~InUse(n)
    BY <2>2, WorkingFacts DEF InUse
  <2>3. CASE ~wrapped'
    <3>1. ~wrapped /\ n = txId + 1
      BY <1>5, <2>3
    <3>2. n \notin DOMAIN reqMap /\ \A r \in Requests : ~Works(n, r)
      BY <1>6, <3>1 DEF NInv, NumbersUsed
    <3> QED
      BY <3>2
  <2> QED
    BY <2>1, <2>2, <2>3
<1>8. NumbersUsed'
  <2> SUFFICES ASSUME ~wrapped'
               PROVE  /\ \A t \in DOMAIN reqMap : t <= n
                      /\ \A t \in TxIds, r \in Requests : Works(t, r)' => t <= n
    BY <1>1, <1>3 DEF NumbersUsed
  <2>1. ~wrapped /\ n = txId + 1
    BY <1>5
  <2>2. DOMAIN reqMap \subseteq Nat /\ TxIds \subseteq Nat
    BY DEF TInv, TypeOK, MapTypes, TxIds
  <2>3. \A t \in DOMAIN reqMap : t <= txId
    BY <2>1 DEF NInv, NumbersUsed
  <2>4. \A t \in TxIds, r \in Requests : Works(t, r) => t <= txId
    BY <2>1 DEF NInv, NumbersUsed
  <2>5. \A t \in DOMAIN reqMap : t <= n
    BY <1>6, <2>1, <2>2, <2>3
  <2>6. \A t \in TxIds, r \in Requests : Works(t, r)' => t <= n
    BY <1>4, <1>6, <2>1, <2>2, <2>4
  <2> QED
    BY <2>5, <2>6
<1>9. WorkAlone'
  <2> SUFFICES ASSUME NEW t \in TxIds, NEW r \in Requests, NEW q \in Requests, Works(t, r)', Works(t, q)'
               PROVE  r = q \/ {r, q} \subseteq reused'
    BY DEF WorkAlone, Share
  <2>1. CASE Works(t, r) /\ Works(t, q)
    BY <1>6, <2>1 DEF NInv, WorkAlone, Share
  <2>2. CASE t = n
    BY <1>4, <1>7, <2>1, <2>2
  <2> QED
    BY <1>4, <2>1, <2>2
<1>10. EntryAlone'
  <2> SUFFICES ASSUME NEW t \in DOMAIN reqMap, NEW r \in Requests, Works(t, r)'
               PROVE  r = reqMap[t].req \/ {r, reqMap[t].req} \subseteq reused'
    BY <1>1 DEF EntryAlone, Share
  <2>1. t \in TxIds
    BY DEF TInv, TypeOK, MapTypes
  <2>2. CASE Works(t, r)
    BY <1>6, <2>2 DEF NInv, EntryAlone, Share
  <2>3. CASE t = n
    BY <1>4, <1>7, <2>1, <2>2, <2>3
  <2> QED
    BY <1>4, <2>1, <2>2, <2>3
<1>11. InsertNew'
  <2>1. /\ cur'[o].req = c /\ cur'[o].tx = n
        /\ \A p \in Ops : p # o => lisPc'[p] = lisPc[p] /\ cur'[p] = cur[p]
    BY <1>1, <1>2, <1>3 DEF Number, LisGoto, Command, TInv, TypeOK, LisTypes
  <2>2. c \in reused' \/ n \notin DOMAIN reqMap
    BY <1>7
  <2> QED
    BY <1>1, <1>6, <2>1, <2>2 DEF NInv, InsertNew
<1>12. CopyShares'
  BY <1>1, <1>6 DEF NInv, CopyShares, Share
<1> QED
  BY <1>8, <1>9, <1>10, <1>11, <1>12 DEF NInv

\* Storing an entry for a command that is worked on, or for one that shares.
LEMMA StoreNumbers ==
  ASSUME TInv, NInv, NoneAdded, UNCHANGED <<txId, wrapped, reused>>, NEW u \in TxIds, NEW e, NEW c \in Requests,
         Works(u, c), Share(c, e.req), reqMap' = Store(reqMap, u, e)
  PROVE  NumbersUsed' /\ WorkAlone' /\ EntryAlone'
<1>1. DOMAIN reqMap \subseteq TxIds
  BY DEF TInv, TypeOK, MapTypes
<1>2. /\ DOMAIN reqMap' = DOMAIN reqMap \cup {u} /\ reqMap'[u] = e
      /\ \A t \in DOMAIN reqMap : t # u => reqMap'[t] = reqMap[t]
  BY DEF Store
<1>3. NumbersUsed'
  BY <1>1, <1>2 DEF NInv, NumbersUsed, NoneAdded
<1>4. WorkAlone'
  BY DEF NInv, WorkAlone, NoneAdded, Share
<1>5. EntryAlone'
  <2> SUFFICES ASSUME NEW t \in DOMAIN reqMap', NEW r \in Requests, Works(t, r)'
               PROVE  r = reqMap'[t].req \/ {r, reqMap'[t].req} \subseteq reused
    BY DEF EntryAlone, Share
  <2>1. t \in TxIds /\ Works(t, r)
    BY <1>1, <1>2 DEF NoneAdded
  <2>2. CASE t = u
    BY <1>2, <2>1, <2>2 DEF NInv, WorkAlone, Share
  <2>3. CASE t # u
    BY <1>2, <2>1, <2>3 DEF NInv, EntryAlone, Share
  <2> QED
    BY <2>2, <2>3
<1> QED
  BY <1>3, <1>4, <1>5

\* Insert stores an entry for the command at hand.
LEMMA InsertNInv == \A o \in Ops : TInv /\ UInv /\ NInv /\ Insert(o) => NInv'
<1> SUFFICES ASSUME TInv, UInv, NInv, NEW o \in Ops, Insert(o) PROVE NInv'
  OBVIOUS
<1>1. UNCHANGED <<txId, wrapped, reused, respPc, resp, copy>> /\ lisPc[o] = "insert" /\ cur[o] \in Command
  BY DEF Insert, respVars, TInv, TypeOK, LisTypes
<1>2. NoneAdded
  BY InsertWorks
<1>3. PICK u \in TxIds, c \in Requests : u = cur[o].tx /\ c = cur[o].req
  BY <1>1 DEF Command
<1>4. PICK e : e = [req |-> c, budget |-> MaxRetry]
  OBVIOUS
<1>5. Works(u, c) /\ Share(c, e.req)
  BY <1>1, <1>3, <1>4 DEF Works, LisWorks, Share
<1>6. reqMap' = IF u \in DOMAIN reqMap THEN reqMap ELSE Store(reqMap, u, e)
  BY <1>3, <1>4 DEF Insert
<1>7. /\ \A p \in Ops : p # o => lisPc'[p] = lisPc[p] /\ cur'[p] = cur[p]
      /\ lisPc'[o] # "insert"
  BY DEF Insert, LisGoto, LisDone, TInv, TypeOK, LisTypes
<1>8. NumbersUsed' /\ WorkAlone' /\ EntryAlone'
  <2>1. CASE u \notin DOMAIN reqMap
    BY <1>1, <1>2, <1>5, <1>6, <2>1, StoreNumbers
  <2>2. CASE u \in DOMAIN reqMap
    BY <1>1, <1>2, <1>6, <1>7, <2>2, QuietNumbers
  <2> QED
    BY <2>1, <2>2
<1>9. InsertNew'
  <2> SUFFICES ASSUME NEW p \in Ops, p # o, lisPc[p] = "insert", cur[p].tx = u, cur[p].req \notin reused
               PROVE  FALSE
    <3>1. DOMAIN reqMap' \subseteq DOMAIN reqMap \cup {u}
      BY <1>6 DEF Store
    <3> QED
      BY <1>1, <1>7, <3>1 DEF NInv, InsertNew
  <2>1. cur[p].req \in Requests /\ OpOf[cur[p].req] = p /\ OpOf[c] = o
    BY <1>1, <1>3 DEF TInv, TypeOK, LisTypes, Command, UInv, LisRight
  <2>2. Works(u, cur[p].req)
    BY <2>1 DEF Works, LisWorks
  <2> QED
    BY <1>5, <2>1, <2>2 DEF NInv, WorkAlone, Share
<1>10. CopyShares'
  BY <1>1 DEF NInv, CopyShares, Share
<1> QED
  BY <1>8, <1>9, <1>10 DEF NInv

\* RetryUpdate stores an entry for what was copied.
LEMMA RetryUpdateNInv == \A o \in Ops : TInv /\ UInv /\ NInv /\ RetryUpdate(o) => NInv'
<1> SUFFICES ASSUME TInv, UInv, NInv, NEW o \in Ops, RetryUpdate(o) PROVE NInv'
  OBVIOUS
<1>1. /\ UNCHANGED <<txId, wrapped, reused, lisPc, cur, resp>>
      /\ respPc[o] = "retryUpdate" /\ resp[o] \in Response /\ copy[o] \in Entry
  BY DEF RetryUpdate, RespOnly, lisVars, InHand, RespPcs, Copied, TInv, TypeOK, RespTypes
<1>2. NoneAdded
  BY LookWorks
<1>3. PICK u \in TxIds, c \in Requests : u = resp[o].tx /\ c = resp[o].for
  BY <1>1 DEF Response
<1>4. PICK e : e = copy'[o]
  OBVIOUS
<1>5. /\ reqMap' = Store(reqMap, u, e) /\ e.req = copy[o].req
      /\ \A p \in Ops : p # o => respPc'[p] = respPc[p] /\ copy'[p] = copy[p]
  <2>1. copy' = [copy EXCEPT ![o].budget = @ - 1]
    BY DEF RetryUpdate
  <2>2. copy'[o].req = copy[o].req /\ \A p \in Ops : p # o => copy'[p] = copy[p]
    BY <1>1, <2>1 DEF Entry, TInv, TypeOK, RespTypes
  <2> QED
    BY <1>3, <1>4, <2>2 DEF RetryUpdate, RespGoto, TInv, TypeOK, RespTypes
<1>6. Works(u, c) /\ Share(c, e.req)
  BY <1>1, <1>3, <1>5 DEF Works, HandWorks, NInv, CopyShares, Copied, InHand, RespPcs
<1>7. NumbersUsed' /\ WorkAlone' /\ EntryAlone'
  BY <1>1, <1>2, <1>5, <1>6, StoreNumbers
<1>8. InsertNew'
  <2> SUFFICES ASSUME NEW p \in Ops, lisPc[p] = "insert", cur[p].tx = u, cur[p].req \notin reused
               PROVE  FALSE
    <3>1. DOMAIN reqMap' \subseteq DOMAIN reqMap \cup {u}
      BY <1>5 DEF Store
    <3> QED
      BY <1>1, <3>1 DEF NInv, InsertNew
  <2>1. cur[p].req \in Requests /\ OpOf[cur[p].req] = p
    BY DEF TInv, TypeOK, LisTypes, Command, UInv, LisRight
  <2>2. Works(u, cur[p].req)
    BY DEF Works, LisWorks
  <2>3. cur[p].req = c
    BY <1>6, <2>1, <2>2 DEF NInv, WorkAlone, Share
  <2>4. Held(c) /\ AtHand(c)
    BY <1>1, <1>3, <2>1, <2>3 DEF Held, AtHand, UInv, HandRight, InHand, RespPcs
  <2> QED
    BY <2>4 DEF UInv, AllOnce, Once
<1>9. CopyShares'
  <2> SUFFICES ASSUME NEW p \in Ops, respPc'[p] \in Copied
               PROVE  Share(resp[p].for, copy[p].req)'
    BY DEF CopyShares
  <2>1. CASE p = o
    BY <1>1, <1>3, <1>4, <1>5, <1>6, <2>1 DEF Share
  <2>2. CASE p # o
    BY <1>1, <1>5, <2>2 DEF NInv, CopyShares, Share
  <2> QED
    BY <2>1, <2>2
<1> QED
  BY <1>7, <1>8, <1>9 DEF NInv

\* A step that changes nothing.
LEMMA StutterNInv == TInv /\ NInv /\ UNCHANGED vars => NInv'
<1> SUFFICES ASSUME TInv, NInv, UNCHANGED vars PROVE NInv'
  OBVIOUS
<1>1. NoneAdded /\ UNCHANGED <<txId, wrapped, reused, reqMap, lisPc, cur, respPc, resp, copy>>
  BY StutterWorks DEF vars, lisVars, respVars
<1>2. NumbersUsed' /\ WorkAlone' /\ EntryAlone' /\ InsertNew'
  BY <1>1, QuietNumbers
<1>3. CopyShares'
  BY <1>1 DEF NInv, CopyShares, Share
<1> QED
  BY <1>2, <1>3 DEF NInv

\* NInv holds in every state.
LEMMA NInvHolds == Spec => []NInv
<1>1. TInv /\ UInv /\ NInv /\ [Next]_vars => NInv'
  BY OtherNInv, ResponderNInv, NumberNInv, InsertNInv, RetryUpdateNInv, StutterNInv DEF Next, Listener, Responder
<1> QED
  BY InitNInv, TInvHolds, UInvHolds, <1>1, PTL DEF Spec

-----------------------------------------------------------------------------
(* Entries and submissions.  What is worked on, once it is inserted, has   *)
(* its entry, and the retries left in it pay for what may still be sent.   *)

Inserting(r) == Held(r) /\ lisPc[OpOf[r]] = "insert"

\* 1 if a submission is due, 0 if not.
Due(r) == IF Held(r) \/ (AtHand(r) /\ respPc[OpOf[r]] = "resend") THEN 1 ELSE 0

Kept(t, r, n) == r \in reused \/ /\ t \in DOMAIN reqMap /\ reqMap[t].req = r
                                 /\ sent[r] + reqMap[t].budget + n <= MaxRetry + 1
KeptIf(t, r)  == Works(t, r) /\ ~Inserting(r) => Kept(t, r, Due(r))
PathIf(t, r)  == Works(t, r) /\ ~Inserting(r) => content[r].path = "own"

AllKept  == \A t \in TxIds, r \in Requests : KeptIf(t, r)
PathOwn  == \A t \in TxIds, r \in Requests : PathIf(t, r)
NotSent  == \A r \in Requests : r \notin DOMAIN content \/ Held(r) => r \in reused \/ sent[r] = 0
SentFew  == \A r \in Requests : r \in reused \/ sent[r] <= MaxRetry + 1
CopyKept == \A o \in Ops : respPc[o] = "retryUpdate" =>
              resp[o].for \in reused \/ copy[o] = reqMap[resp[o].tx]

KInv == AllKept /\ PathOwn /\ NotSent /\ SentFew /\ CopyKept

\* Nothing is worked on or sent.
LEMMA InitKInv == Init => KInv
<1> SUFFICES ASSUME Init PROVE KInv
  OBVIOUS
<1>1. /\ \A o \in Ops : lisPc[o] = "recv" /\ respPc[o] = "wait" /\ Len(respQ[o]) = 0
      /\ stack = {} /\ \A r \in Requests : sent[r] = 0
  BY DEF Init
<1>2. \A t \in TxIds, r \in Requests : ~Works(t, r)
  BY <1>1 DEF Works, LisWorks, StackWorks, QueueWorks, HandWorks, InHand
<1>3. AllKept /\ PathOwn
  BY <1>2 DEF AllKept, PathOwn, KeptIf, PathIf
<1>4. NotSent /\ SentFew /\ CopyKept
  BY <1>1, OnDemandAssumption DEF NotSent, SentFew, CopyKept
<1> QED
  BY <1>3, <1>4 DEF KInv

WorkPlaced ==
  \A t \in TxIds, r \in Requests : Works(t, r) => Held(r) \/ OnStack(r) \/ Queued(r) \/ AtHand(r)

\* What is worked on is at a place.
LEMMA WorkPlaces == TInv /\ UInv => WorkPlaced
<1> SUFFICES ASSUME TInv, UInv, NEW t \in TxIds, NEW r \in Requests, Works(t, r)
             PROVE  Held(r) \/ OnStack(r) \/ Queued(r) \/ AtHand(r)
  BY DEF WorkPlaced
<1>1. LisWorks(t, r) => Held(r)
  BY DEF LisWorks, Held, UInv, LisRight
<1>2. StackWorks(t, r) => OnStack(r)
  BY DEF StackWorks, OnStack
<1>3. QueueWorks(t, r) => Queued(r)
  BY DEF QueueWorks, Queued, UInv, QueueRight
<1>4. HandWorks(t, r) => AtHand(r)
  BY DEF HandWorks, AtHand, UInv, HandRight
<1> QED
  BY <1>1, <1>2, <1>3, <1>4 DEF Works

\* The number of what a listener or a response thread has at hand.
LEMMA WorkNumber ==
  ASSUME TInv, UInv, NEW t \in TxIds, NEW r \in Requests, Works(t, r)
  PROVE  /\ Held(r) => t = cur[OpOf[r]].tx
         /\ AtHand(r) => t = resp[OpOf[r]].tx
<1>1. Once(r) /\ OpOf[r] \in Ops
  BY OnDemandAssumption DEF UInv, AllOnce
<1>2. LisWorks(t, r) => t = cur[OpOf[r]].tx /\ Held(r)
  BY DEF LisWorks, Held, UInv, LisRight
<1>3. StackWorks(t, r) => OnStack(r)
  BY DEF StackWorks, OnStack
<1>4. QueueWorks(t, r) => Queued(r)
  BY DEF QueueWorks, Queued, UInv, QueueRight
<1>5. HandWorks(t, r) => t = resp[OpOf[r]].tx /\ AtHand(r)
  BY DEF HandWorks, AtHand, UInv, HandRight
<1> QED
  BY <1>1, <1>2, <1>3, <1>4, <1>5 DEF Works, Once

\* A step of one operation leaves what others have at hand.
LEMMA OthersDue ==
  ASSUME NEW o \in Ops, NEW r \in Requests,
         \A p \in Ops : p # o => /\ lisPc'[p] = lisPc[p] /\ cur'[p] = cur[p]
                                 /\ respPc'[p] = respPc[p] /\ resp'[p] = resp[p],
         \/ lisPc'[o] = lisPc[o] /\ cur'[o] = cur[o]
         \/ (lisPc[o] # "recv" => cur[o].req # r) /\ (lisPc'[o] # "recv" => cur'[o].req # r),
         \/ respPc'[o] = respPc[o] /\ resp'[o] = resp[o]
         \/ (respPc[o] \in InHand => resp[o].for # r) /\ (respPc'[o] \in InHand => resp'[o].for # r)
  PROVE  Due(r)' = Due(r) /\ (Inserting(r)' <=> Inserting(r)) /\ (Held(r)' <=> Held(r))
<1>1. OpOf[r] \in Ops
  BY OnDemandAssumption
<1>2. (Held(r)' <=> Held(r)) /\ (Inserting(r)' <=> Inserting(r))
  BY <1>1 DEF Held, Inserting
<1>3. (AtHand(r) /\ respPc[OpOf[r]] = "resend")' <=> (AtHand(r) /\ respPc[OpOf[r]] = "resend")
  BY <1>1 DEF AtHand
<1> QED
  BY <1>2, <1>3 DEF Due

\* A step for command c under u leaves the entries of the others.
LEMMA OthersKept ==
  ASSUME TInv, UInv, NInv, KInv, NEW c \in Requests, NEW u, reused \subseteq reused',
         \A r \in DOMAIN content : r \in DOMAIN content' /\ content'[r] = content[r],
         \A t \in TxIds, r \in Requests : r # c => (Works(t, r)' => Works(t, r)),
         \A r \in Requests : r # c => /\ Due(r)' = Due(r) /\ (Inserting(r)' <=> Inserting(r))
                                      /\ r \in reused \/ sent'[r] = sent[r],
         \A t \in DOMAIN reqMap : \/ t \in DOMAIN reqMap' /\ reqMap'[t] = reqMap[t]
                                  \/ t = u /\ Works(u, c),
         \A t \in TxIds : KeptIf(t, c)' /\ PathIf(t, c)'
  PROVE  AllKept' /\ PathOwn'
<1>1. ASSUME NEW t \in TxIds, NEW r \in Requests, r # c PROVE KeptIf(t, r)' /\ PathIf(t, r)'
  <2> SUFFICES ASSUME Works(t, r)', ~Inserting(r)' PROVE Kept(t, r, Due(r))' /\ (content[r].path = "own")'
    BY DEF KeptIf, PathIf
  <2>1. Works(t, r) /\ ~Inserting(r)
    BY <1>1
  <2>2. Kept(t, r, Due(r)) /\ content[r].path = "own"
    BY <2>1 DEF KInv, AllKept, PathOwn, KeptIf, PathIf
  <2>3. r \in DOMAIN content
    BY <2>1, WorkPlaces DEF WorkPlaced, UInv, AllOnce, Once
  <2>4. CASE r \in reused
    BY <2>2, <2>3, <2>4 DEF Kept
  <2>5. CASE r \notin reused
    <3>1. t \in DOMAIN reqMap /\ reqMap[t].req = r /\ sent[r] + reqMap[t].budget + Due(r) <= MaxRetry + 1
      BY <2>2, <2>5 DEF Kept
    <3>2. ~(t = u /\ Works(u, c))
      BY <1>1, <2>1, <2>5 DEF NInv, WorkAlone, Share
    <3>3. t \in DOMAIN reqMap' /\ reqMap'[t] = reqMap[t] /\ sent'[r] = sent[r] /\ Due(r)' = Due(r)
      BY <1>1, <2>5, <3>1, <3>2
    <3>4. Kept(t, r, Due(r))'
      BY <3>1, <3>3 DEF Kept
    <3> QED
      BY <2>2, <2>3, <3>4
  <2> QED
    BY <2>4, <2>5
<1> QED
  BY <1>1 DEF AllKept, PathOwn

\* Steps that store nothing and submit nothing.
LEMMA QuietKept ==
  ASSUME TInv, KInv, NoneAdded, UNCHANGED <<reqMap, sent, reused, content>>,
         \A r \in Requests : Due(r)' <= Due(r) /\ (Inserting(r) => Inserting(r)') /\ (Held(r)' => Held(r))
  PROVE  AllKept' /\ PathOwn' /\ NotSent' /\ SentFew'
<1>1. ASSUME NEW t \in TxIds, NEW r \in Requests PROVE KeptIf(t, r)' /\ PathIf(t, r)'
  <2> SUFFICES ASSUME Works(t, r)', ~Inserting(r)' PROVE Kept(t, r, Due(r))' /\ (content[r].path = "own")'
    BY DEF KeptIf, PathIf
  <2>1. Kept(t, r, Due(r)) /\ content[r].path = "own"
    BY DEF NoneAdded, KInv, AllKept, PathOwn, KeptIf, PathIf
  <2>2. CASE r \in reused
    BY <2>1, <2>2 DEF Kept
  <2>3. CASE r \notin reused
    <3>1. t \in DOMAIN reqMap /\ reqMap[t].req = r /\ sent[r] + reqMap[t].budget + Due(r) <= MaxRetry + 1
      BY <2>1, <2>3 DEF Kept
    <3>2. sent[r] \in Nat /\ reqMap[t].budget \in Nat /\ MaxRetry \in Nat
      BY <3>1, OnDemandAssumption DEF TInv, TypeOK, MapTypes, HistTypes, Entry
    <3>3. Due(r) \in Nat /\ Due(r)' \in Nat
      BY DEF Due
    <3>4. sent[r] + reqMap[t].budget + Due(r)' <= MaxRetry + 1
      BY <3>1, <3>2, <3>3
    <3>5. Kept(t, r, Due(r))'
      BY <3>1, <3>4 DEF Kept
    <3> QED
      BY <2>1, <3>5
  <2> QED
    BY <2>2, <2>3
<1>2. NotSent' /\ SentFew'
  BY DEF KInv, NotSent, SentFew
<1> QED
  BY <1>1, <1>2 DEF AllKept, PathOwn

\* Nothing becomes due if no thread gets to sending again.
LEMMA DueLess ==
  ASSUME UNCHANGED <<lisPc, cur>>, NEW o \in Ops, respPc'[o] # "resend",
         \A p \in Ops : p # o => respPc'[p] = respPc[p] /\ resp'[p] = resp[p],
         NEW r \in Requests
  PROVE  Due(r)' <= Due(r) /\ (Inserting(r)' <=> Inserting(r)) /\ (Held(r)' <=> Held(r))
<1>1. OpOf[r] \in Ops
  BY OnDemandAssumption
<1>2. (Held(r)' <=> Held(r)) /\ (Inserting(r)' <=> Inserting(r))
  BY DEF Held, Inserting
<1>3. (AtHand(r) /\ respPc[OpOf[r]] = "resend")' => (AtHand(r) /\ respPc[OpOf[r]] = "resend")
  BY <1>1 DEF AtHand
<1> QED
  BY <1>2, <1>3 DEF Due

\* A response thread that takes and looks up what it has at hand.
LEMMA QuietKInv ==
  \A o \in Ops : TInv /\ UInv /\ NInv /\ KInv /\ (RespWait(o) \/ RespPop(o) \/ RetryGet(o) \/ Lookup(o)) => KInv'
<1> SUFFICES ASSUME TInv, UInv, NInv, KInv, NEW o \in Ops,
                    RespWait(o) \/ RespPop(o) \/ RetryGet(o) \/ Lookup(o)
             PROVE  KInv'
  OBVIOUS
<1>1. NoneAdded
  BY RecvWaitWorks, RespPopWorks, LookWorks
<1>2. UNCHANGED <<reqMap, sent, reused, content, lisPc, cur>>
  BY DEF RespWait, RespPop, RetryGet, Lookup, RespOnly, lisVars
<1>3. /\ respPc'[o] # "resend"
      /\ \A p \in Ops : p # o => respPc'[p] = respPc[p] /\ resp'[p] = resp[p] /\ copy'[p] = copy[p]
  BY DEF RespWait, RespPop, RetryGet, Lookup, RespDone, RespGoto, TInv, TypeOK, RespTypes
<1>4. AllKept' /\ PathOwn' /\ NotSent' /\ SentFew'
  <2>1. \A r \in Requests : Due(r)' <= Due(r) /\ (Inserting(r)' <=> Inserting(r)) /\ (Held(r)' <=> Held(r))
    BY <1>2, <1>3, DueLess
  <2> QED
    BY <1>1, <1>2, <2>1, QuietKept
<1>5. respPc'[o] = "retryUpdate" => copy'[o] = reqMap[resp[o].tx] /\ resp'[o] = resp[o]
  BY DEF RespWait, RespPop, RetryGet, Lookup, RespDone, RespGoto, TInv, TypeOK, RespTypes
<1>6. CopyKept'
  BY <1>2, <1>3, <1>5 DEF KInv, CopyKept
<1> QED
  BY <1>4, <1>6 DEF KInv

\* Answers and error responses.
LEMMA AnswerKInv ==
  TInv /\ UInv /\ NInv /\ KInv /\ (StackAnswer \/ \E o \in Ops : ErrorResponse(o)) => KInv'
<1> SUFFICES ASSUME TInv, UInv, NInv, KInv, StackAnswer \/ \E o \in Ops : ErrorResponse(o) PROVE KInv'
  OBVIOUS
<1>1. NoneAdded
  BY StackAnswerWorks, ErrorResponseWorks
<1>2. UNCHANGED <<reqMap, sent, reused, content, respPc, resp, copy>>
  BY DEF StackAnswer, ErrorResponse, respVars
<1>3. ASSUME NEW r \in Requests
      PROVE  Due(r)' <= Due(r) /\ (Inserting(r) => Inserting(r)') /\ (Held(r)' => Held(r))
  <2>1. CASE StackAnswer
    <3>1. UNCHANGED <<lisPc, cur>>
      BY <2>1 DEF StackAnswer, lisVars
    <3> QED
      BY <1>2, <3>1 DEF Due, Inserting, Held, AtHand
  <2>2. ASSUME NEW o \in Ops, ErrorResponse(o)
        PROVE  Due(r)' <= Due(r) /\ (Inserting(r) => Inserting(r)') /\ (Held(r)' => Held(r))
    <3>1. /\ lisPc[o] = "error" /\ lisPc'[o] = "recv"
          /\ \A p \in Ops : p # o => lisPc'[p] = lisPc[p] /\ cur'[p] = cur[p]
      BY <2>2 DEF ErrorResponse, LisDone, LisGoto, TInv, TypeOK, LisTypes
    <3>2. OpOf[r] \in Ops
      BY OnDemandAssumption
    <3>3. (Held(r)' => Held(r)) /\ (Inserting(r) => Inserting(r)')
      BY <3>1, <3>2 DEF Held, Inserting
    <3>4. (AtHand(r) /\ respPc[OpOf[r]] = "resend")' <=> (AtHand(r) /\ respPc[OpOf[r]] = "resend")
      BY <1>2 DEF AtHand
    <3> QED
      BY <3>3, <3>4 DEF Due
  <2> QED
    BY <2>1, <2>2
<1>4. AllKept' /\ PathOwn' /\ NotSent' /\ SentFew'
  BY <1>1, <1>2, <1>3, QuietKept
<1>5. CopyKept'
  BY <1>2 DEF KInv, CopyKept
<1> QED
  BY <1>4, <1>5 DEF KInv

\* A command that arrives is not worked on yet.
LEMMA RecvKInv == \A o \in Ops : TInv /\ UInv /\ NInv /\ KInv /\ Recv(o) => KInv'
<1> SUFFICES ASSUME TInv, UInv, NInv, KInv, NEW o \in Ops, Recv(o) PROVE KInv'
  OBVIOUS
<1>1. UNCHANGED <<reqMap, sent, reused, respPc, resp, copy>> /\ lisPc[o] = "recv"
  BY DEF Recv, respVars
<1>2. PICK c \in Requests \ DOMAIN content, m \in Messages :
        /\ content' = Store(content, c, m)
        /\ \/ /\ cur' = [cur EXCEPT ![o] = [req |-> c, tx |-> 0]]
              /\ lisPc' = [lisPc EXCEPT ![o] = "number"]
           \/ UNCHANGED <<lisPc, cur>>
  BY DEF Recv, LisGoto, lisVars
<1>3. /\ \A r \in DOMAIN content : r \in DOMAIN content' /\ content'[r] = content[r]
      /\ DOMAIN content' = DOMAIN content \cup {c}
  BY <1>2 DEF Store
<1>4. /\ \A p \in Ops : p # o => lisPc'[p] = lisPc[p] /\ cur'[p] = cur[p]
      /\ lisPc'[o] # "recv" => cur'[o].req = c
  BY <1>1, <1>2 DEF TInv, TypeOK, LisTypes
<1>5. \A r \in Requests : r # c => Due(r)' = Due(r) /\ (Inserting(r)' <=> Inserting(r)) /\ (Held(r)' <=> Held(r))
  BY <1>1, <1>4, OthersDue
<1>6. NoneAdded
  BY RecvWaitWorks
<1>7. \A t \in TxIds : ~Works(t, c)
  BY WorkPlaces DEF WorkPlaced, UInv, AllOnce, Once
<1>8. \A t \in TxIds : KeptIf(t, c)' /\ PathIf(t, c)'
  BY <1>6, <1>7 DEF NoneAdded, KeptIf, PathIf
<1>9. AllKept' /\ PathOwn'
  BY <1>1, <1>3, <1>5, <1>6, <1>8, OthersKept DEF NoneAdded
<1>10. NotSent' /\ SentFew'
  BY <1>1, <1>3, <1>5 DEF KInv, NotSent, SentFew
<1>11. CopyKept'
  BY <1>1 DEF KInv, CopyKept
<1> QED
  BY <1>9, <1>10, <1>11 DEF KInv

\* A command that is numbered is to be inserted.
LEMMA NumberKInv == \A o \in Ops : TInv /\ UInv /\ NInv /\ KInv /\ Number(o) => KInv'
<1> SUFFICES ASSUME TInv, UInv, NInv, KInv, NEW o \in Ops, Number(o) PROVE KInv'
  OBVIOUS
<1>1. /\ UNCHANGED <<reqMap, sent, content, respPc, resp, copy>> /\ reused \subseteq reused'
      /\ cur[o] \in Command /\ lisPc[o] = "number"
  BY DEF Number, respVars, TInv, TypeOK, LisTypes
<1>2. PICK c \in Requests : c = cur[o].req
  BY <1>1 DEF Command
<1>3. /\ lisPc'[o] = "insert" /\ cur'[o].req = c /\ OpOf[c] = o
      /\ \A p \in Ops : p # o => lisPc'[p] = lisPc[p] /\ cur'[p] = cur[p]
  <2>1. cur' = [cur EXCEPT ![o].tx = txId']
    BY DEF Number
  <2>2. cur'[o].req = c /\ \A p \in Ops : p # o => cur'[p] = cur[p]
    BY <1>1, <1>2, <2>1 DEF Command, TInv, TypeOK, LisTypes
  <2> QED
    BY <1>1, <1>2, <2>2 DEF Number, LisGoto, TInv, TypeOK, LisTypes, UInv, LisRight
<1>4. \A r \in Requests : r # c => Due(r)' = Due(r) /\ (Inserting(r)' <=> Inserting(r)) /\ (Held(r)' <=> Held(r))
  BY <1>1, <1>2, <1>3, OthersDue
<1>5. \A t \in TxIds, r \in Requests : r # c => (Works(t, r)' => Works(t, r))
  BY <1>2, NumberWorks
<1>6. Inserting(c)' /\ Held(c)
  BY <1>1, <1>2, <1>3 DEF Inserting, Held
<1>7. AllKept' /\ PathOwn'
  BY <1>1, <1>4, <1>5, <1>6, OthersKept DEF KeptIf, PathIf
<1>8. NotSent' /\ SentFew'
  BY <1>1, <1>4, <1>6 DEF KInv, NotSent, SentFew
<1>9. CopyKept'
  BY <1>1 DEF KInv, CopyKept
<1> QED
  BY <1>7, <1>8, <1>9 DEF KInv

\* The parser goes on with what is about the point of its topic.
LEMMA ParsePath == \A m, o : ParseResult(m, o) # "unknown" => m.path = "own"
  BY DEF ParseResult

\* Insert stores an entry with all retries, or drops the command.
LEMMA InsertKInv == \A o \in Ops : TInv /\ UInv /\ NInv /\ KInv /\ Insert(o) => KInv'
<1> SUFFICES ASSUME TInv, UInv, NInv, KInv, NEW o \in Ops, Insert(o) PROVE KInv'
  OBVIOUS
<1>1. /\ UNCHANGED <<sent, content, reused, respPc, resp, copy>>
      /\ cur[o] \in Command /\ lisPc[o] = "insert"
  BY DEF Insert, respVars, TInv, TypeOK, LisTypes
<1>2. PICK c \in Requests, u \in TxIds : c = cur[o].req /\ u = cur[o].tx
  BY <1>1 DEF Command
<1>3. PICK e : e = [req |-> c, budget |-> MaxRetry]
  OBVIOUS
<1>4. reqMap' = IF u \in DOMAIN reqMap THEN reqMap ELSE Store(reqMap, u, e)
  BY <1>2, <1>3 DEF Insert
<1>5. /\ \A p \in Ops : p # o => lisPc'[p] = lisPc[p] /\ cur'[p] = cur[p]
      /\ \/ lisPc'[o] = "recv"
         \/ lisPc'[o] \in {"call", "error"} /\ cur'[o] = cur[o] /\ content[c].path = "own"
      /\ OpOf[c] = o
  <2>1. \/ LisDone(o)
        \/ (LisGoto(o, "call") \/ LisGoto(o, "error")) /\ cur' = cur /\ ParseResult(content[c], o) # "unknown"
    BY <1>2 DEF Insert
  <2>2. OpOf[c] = o
    BY <1>1, <1>2 DEF UInv, LisRight
  <2> QED
    BY <2>1, <2>2, ParsePath DEF LisDone, LisGoto, TInv, TypeOK, LisTypes
<1>6. \A r \in Requests : r # c => Due(r)' = Due(r) /\ (Inserting(r)' <=> Inserting(r)) /\ (Held(r)' <=> Held(r))
  BY <1>1, <1>2, <1>5, OthersDue
<1>7. NoneAdded
  BY InsertWorks
<1>8. Works(u, c) /\ Held(c) /\ ~AtHand(c) /\ (c \in reused \/ sent[c] = 0)
  BY <1>1, <1>2, <1>5 DEF Works, LisWorks, Held, UInv, AllOnce, Once, KInv, NotSent
<1>9. \A t \in DOMAIN reqMap : t \in DOMAIN reqMap' /\ reqMap'[t] = reqMap[t]
  BY <1>4 DEF Store
<1>10. (TInv /\ UInv)'
  BY InsertTInv, NumberInsertUInv
<1>11. ASSUME NEW t \in TxIds, Works(t, c)', ~Inserting(c)'
       PROVE  Kept(t, c, Due(c))' /\ (content[c].path = "own")'
  <2>1. Works(t, c)
    BY <1>7, <1>11 DEF NoneAdded
  <2>2. t = u
    BY <1>2, <1>5, <1>8, <2>1, WorkNumber
  <2>3. ~AtHand(c)'
    BY <1>1, <1>8 DEF AtHand
  <2>4. Held(c)'
    <3>1. Works(t, c)' => Held(c)' \/ OnStack(c)' \/ Queued(c)' \/ AtHand(c)'
      <4>1. WorkPlaced'
        BY <1>10, WorkPlaces, PTL
      <4> QED
        BY <4>1 DEF WorkPlaced
    <3>2. ~OnStack(c)' /\ ~Queued(c)'
      <4>1. ~OnStack(c) /\ ~Queued(c)
        BY <1>8 DEF UInv, AllOnce, Once
      <4>2. UNCHANGED <<stack, respQ>>
        BY DEF Insert, qVars
      <4> QED
        BY <4>1, <4>2 DEF OnStack, Queued
    <3> QED
      BY <1>11, <2>3, <3>1, <3>2
  <2>5. lisPc'[o] \in {"call", "error"} /\ content'[c].path = "own"
    BY <1>1, <1>5, <2>4 DEF Held
  <2>6. CASE c \in reused
    BY <1>1, <2>5, <2>6 DEF Kept
  <2>7. CASE c \notin reused
    <3>1. u \notin DOMAIN reqMap
      BY <1>1, <1>2, <2>7 DEF NInv, InsertNew
    <3>2. t \in DOMAIN reqMap' /\ reqMap'[t] = e
      BY <1>4, <2>2, <3>1 DEF Store
    <3>3. sent'[c] = 0 /\ e.req = c /\ e.budget = MaxRetry /\ Due(c)' = 1
      BY <1>1, <1>3, <1>8, <2>4, <2>7 DEF Due
    <3>4. sent'[c] + reqMap'[t].budget + Due(c)' <= MaxRetry + 1
      BY <3>2, <3>3, OnDemandAssumption
    <3> QED
      BY <2>5, <3>2, <3>3, <3>4 DEF Kept
  <2> QED
    BY <2>6, <2>7
<1>12. AllKept' /\ PathOwn'
  <2>1. \A t \in TxIds : KeptIf(t, c)' /\ PathIf(t, c)'
    BY <1>11 DEF KeptIf, PathIf
  <2> QED
    BY <1>1, <1>6, <1>7, <1>9, <2>1, OthersKept DEF NoneAdded
<1>13. NotSent' /\ SentFew'
  BY <1>1, <1>6, <1>8 DEF KInv, NotSent, SentFew
<1>14. CopyKept'
  <2> SUFFICES ASSUME NEW p \in Ops, respPc[p] = "retryUpdate", resp[p].for \notin reused
               PROVE  copy[p] = reqMap'[resp[p].tx]
    BY <1>1 DEF CopyKept
  <2>1. copy[p] = reqMap[resp[p].tx]
    BY DEF KInv, CopyKept
  <2>2. PICK t \in TxIds, r \in Requests : t = resp[p].tx /\ r = resp[p].for
    BY DEF TInv, TypeOK, RespTypes, Response, InHand, RespPcs
  <2>3. Works(t, r) /\ AtHand(r)
    BY <2>2 DEF Works, HandWorks, AtHand, InHand, RespPcs, UInv, HandRight
  <2>4. ~Inserting(r)
    BY <2>3 DEF Inserting, UInv, AllOnce, Once
  <2>5. t \in DOMAIN reqMap
    BY <2>2, <2>3, <2>4 DEF KInv, AllKept, KeptIf, Kept
  <2> QED
    BY <1>9, <2>1, <2>2, <2>5
<1> QED
  BY <1>12, <1>13, <1>14 DEF KInv

\* What a response thread has at hand is backed by its entry.
LEMMA HandKept ==
  ASSUME TInv, UInv, KInv, NEW o \in Ops, respPc[o] \in InHand
  PROVE  \E t \in TxIds, r \in Requests :
           /\ t = resp[o].tx /\ r = resp[o].for /\ OpOf[r] = o /\ AtHand(r) /\ ~Held(r)
           /\ Works(t, r) /\ Kept(t, r, Due(r)) /\ content[r].path = "own"
<1>1. PICK t \in TxIds, r \in Requests : t = resp[o].tx /\ r = resp[o].for
  BY DEF TInv, TypeOK, RespTypes, Response
<1>2. Works(t, r) /\ AtHand(r) /\ OpOf[r] = o
  BY <1>1 DEF Works, HandWorks, AtHand, UInv, HandRight
<1>3. ~Held(r) /\ ~Inserting(r)
  BY <1>2 DEF Inserting, UInv, AllOnce, Once
<1>4. Kept(t, r, Due(r)) /\ content[r].path = "own"
  BY <1>2, <1>3 DEF KInv, AllKept, PathOwn, KeptIf, PathIf
<1> QED
  BY <1>1, <1>2, <1>3, <1>4

\* What is to be counted down stays what was copied, unless another command
\* works under its number.
LEMMA CopyStays ==
  ASSUME TInv, UInv, NInv, KInv, NEW u, NEW c \in Requests, Works(u, c), u \in TxIds,
         reused' = reused, resp' = resp \/ \A p \in Ops : p # OpOf[c] => resp'[p] = resp[p],
         \A p \in Ops : p # OpOf[c] => respPc'[p] = respPc[p] /\ copy'[p] = copy[p],
         \A p \in Ops : p = OpOf[c] => respPc'[p] # "retryUpdate",
         \A t \in DOMAIN reqMap : t # u => t \in DOMAIN reqMap' /\ reqMap'[t] = reqMap[t]
  PROVE  CopyKept'
<1> SUFFICES ASSUME NEW p \in Ops, respPc'[p] = "retryUpdate", resp'[p].for \notin reused
             PROVE  copy'[p] = reqMap'[resp'[p].tx]
  BY DEF CopyKept
<1>1. p # OpOf[c] /\ respPc[p] = "retryUpdate" /\ resp'[p] = resp[p] /\ copy'[p] = copy[p]
  OBVIOUS
<1>2. PICK t \in TxIds, r \in Requests : t = resp[p].tx /\ r = resp[p].for /\ OpOf[r] = p /\ Works(t, r) /\ Kept(t, r, Due(r))
  BY <1>1, HandKept DEF InHand, RespPcs
<1>3. t # u
  BY <1>1, <1>2 DEF NInv, WorkAlone, Share
<1>4. t \in DOMAIN reqMap
  BY <1>1, <1>2 DEF Kept
<1>5. copy[p] = reqMap[t]
  BY <1>1, <1>2 DEF KInv, CopyKept
<1> QED
  BY <1>1, <1>2, <1>3, <1>4, <1>5

\* A call uses the submission that is due.
LEMMA CallKInv == \A o \in Ops : TInv /\ UInv /\ NInv /\ KInv /\ Call(o) => KInv'
<1> SUFFICES ASSUME TInv, UInv, NInv, KInv, NEW o \in Ops, Call(o) PROVE KInv'
  OBVIOUS
<1>1. /\ UNCHANGED <<reqMap, content, reused, respPc, resp, copy>>
      /\ cur[o] \in Command /\ lisPc[o] = "call" /\ LisDone(o)
  BY DEF Call, respVars, TInv, TypeOK, LisTypes
<1>2. PICK c \in Requests, u \in TxIds : c = cur[o].req /\ u = cur[o].tx
  BY <1>1 DEF Command
<1>3. sent' = [sent EXCEPT ![c] = @ + 1] \/ sent' = sent
  BY <1>2 DEF Call, Submit
<1>4. sent \in [Requests -> Nat] /\ sent[c] \in Nat /\ sent'[c] \in Nat /\ sent'[c] <= sent[c] + 1
      /\ \A r \in Requests : r # c => sent'[r] = sent[r]
  BY <1>3 DEF TInv, TypeOK, HistTypes
<1>5. lisPc'[o] = "recv" /\ \A p \in Ops : p # o => lisPc'[p] = lisPc[p] /\ cur'[p] = cur[p]
  BY <1>1 DEF LisDone, LisGoto, TInv, TypeOK, LisTypes
<1>6. Works(u, c) /\ Held(c) /\ ~AtHand(c) /\ OpOf[c] = o /\ ~Inserting(c)
  BY <1>1, <1>2 DEF Works, LisWorks, Held, Inserting, UInv, AllOnce, Once, LisRight
<1>7. \A r \in Requests : r # c => Due(r)' = Due(r) /\ (Inserting(r)' <=> Inserting(r)) /\ (Held(r)' <=> Held(r))
  BY <1>1, <1>2, <1>5, OthersDue
<1>8. Kept(u, c, 1) /\ content[c].path = "own" /\ c \in DOMAIN content
  BY <1>6 DEF KInv, AllKept, PathOwn, KeptIf, PathIf, Due, UInv, AllOnce, Once
<1>9. ~Held(c)' /\ Due(c)' = 0
  BY <1>1, <1>5, <1>6 DEF Held, AtHand, Due
<1>10. NoneAdded
  BY CallWorks
<1>11. ASSUME NEW t \in TxIds, Works(t, c)' PROVE Kept(t, c, Due(c))' /\ (content[c].path = "own")'
  <2>1. Works(t, c)
    BY <1>10, <1>11 DEF NoneAdded
  <2>2. t = u
    BY <1>2, <1>6, <2>1, WorkNumber
  <2>3. CASE c \in reused
    BY <1>1, <1>8, <2>3 DEF Kept
  <2>4. CASE c \notin reused
    <3>1. u \in DOMAIN reqMap /\ reqMap[u].req = c /\ sent[c] + reqMap[u].budget + 1 <= MaxRetry + 1
      BY <1>8, <2>4 DEF Kept
    <3>2. reqMap[u].budget \in Nat
      BY <3>1, OnDemandAssumption DEF TInv, TypeOK, MapTypes, Entry
    <3>3. sent'[c] + reqMap'[u].budget + Due(c)' <= MaxRetry + 1
      BY <1>1, <1>4, <1>9, <3>1, <3>2, OnDemandAssumption
    <3> QED
      BY <1>1, <1>8, <2>2, <3>1, <3>3 DEF Kept
  <2> QED
    BY <2>3, <2>4
<1>12. AllKept' /\ PathOwn'
  <2>1. \A t \in TxIds : KeptIf(t, c)' /\ PathIf(t, c)'
    BY <1>11 DEF KeptIf, PathIf
  <2> QED
    BY <1>1, <1>4, <1>7, <1>10, <2>1, OthersKept DEF NoneAdded
<1>13. NotSent'
  BY <1>1, <1>4, <1>7, <1>8, <1>9 DEF KInv, NotSent
<1>14. SentFew'
  <2>1. c \in reused \/ sent[c] = 0
    BY <1>6 DEF KInv, NotSent
  <2>2. c \in reused \/ sent'[c] <= MaxRetry + 1
    BY <1>4, <2>1, OnDemandAssumption
  <2> QED
    BY <1>1, <1>4, <2>2 DEF KInv, SentFew
<1>15. CopyKept'
  BY <1>1 DEF KInv, CopyKept
<1> QED
  BY <1>12, <1>13, <1>14, <1>15 DEF KInv

\* Counting down makes a submission due.
LEMMA RetryUpdateKInv == \A o \in Ops : TInv /\ UInv /\ NInv /\ KInv /\ RetryUpdate(o) => KInv'
<1> SUFFICES ASSUME TInv, UInv, NInv, KInv, NEW o \in Ops, RetryUpdate(o) PROVE KInv'
  OBVIOUS
<1>1. /\ UNCHANGED <<content, reused, sent, lisPc, cur, resp>>
      /\ respPc[o] = "retryUpdate" /\ respPc[o] \in InHand /\ copy[o] \in Entry
  BY DEF RetryUpdate, RespOnly, lisVars, InHand, RespPcs, Copied, TInv, TypeOK, RespTypes
<1>2. PICK u \in TxIds, c \in Requests :
        /\ u = resp[o].tx /\ c = resp[o].for /\ OpOf[c] = o /\ AtHand(c) /\ ~Held(c)
        /\ Works(u, c) /\ Kept(u, c, Due(c)) /\ content[c].path = "own"
  BY <1>1, HandKept
<1>3. PICK e : e = copy'[o]
  OBVIOUS
<1>4. /\ reqMap' = Store(reqMap, u, e) /\ e.req = copy[o].req /\ e.budget = copy[o].budget - 1
      /\ respPc'[o] = "resend"
      /\ \A p \in Ops : p # o => respPc'[p] = respPc[p] /\ copy'[p] = copy[p]
  <2>1. copy' = [copy EXCEPT ![o].budget = @ - 1]
    BY DEF RetryUpdate
  <2>2. /\ copy'[o].req = copy[o].req /\ copy'[o].budget = copy[o].budget - 1
        /\ \A p \in Ops : p # o => copy'[p] = copy[p]
    BY <1>1, <2>1 DEF Entry, TInv, TypeOK, RespTypes
  <2> QED
    BY <1>2, <1>3, <2>2 DEF RetryUpdate, RespGoto, TInv, TypeOK, RespTypes
<1>5. /\ u \in DOMAIN reqMap' /\ reqMap'[u] = e
      /\ \A t \in DOMAIN reqMap : t # u => t \in DOMAIN reqMap' /\ reqMap'[t] = reqMap[t]
  BY <1>4 DEF Store
<1>6. \A r \in Requests : r # c => Due(r)' = Due(r) /\ (Inserting(r)' <=> Inserting(r)) /\ (Held(r)' <=> Held(r))
  BY <1>1, <1>2, <1>4, OthersDue
<1>7. NoneAdded
  BY LookWorks
<1>8. Due(c)' = 1 /\ Due(c) = 0 /\ c \in DOMAIN content /\ ~Held(c)'
  BY <1>1, <1>2, <1>4 DEF Due, AtHand, Held, InHand, RespPcs, UInv, AllOnce, Once
<1>9. ASSUME NEW t \in TxIds, Works(t, c)' PROVE Kept(t, c, Due(c))' /\ (content[c].path = "own")'
  <2>1. Works(t, c)
    BY <1>7, <1>9 DEF NoneAdded
  <2>2. t = u
    BY <1>2, <2>1, WorkNumber
  <2>3. CASE c \in reused
    BY <1>1, <1>2, <2>3 DEF Kept
  <2>4. CASE c \notin reused
    <3>1. u \in DOMAIN reqMap /\ reqMap[u].req = c /\ sent[c] + reqMap[u].budget + 0 <= MaxRetry + 1
      BY <1>2, <1>8, <2>4 DEF Kept
    <3>2. copy[o] = reqMap[u]
      BY <1>1, <1>2, <2>4 DEF KInv, CopyKept
    <3>3. e.req = c /\ e.budget = reqMap[u].budget - 1
      BY <1>4, <3>1, <3>2
    <3>4. sent[c] \in Nat /\ reqMap[u].budget \in Nat
      BY <3>1, OnDemandAssumption DEF TInv, TypeOK, MapTypes, HistTypes, Entry
    <3>5. sent'[c] + reqMap'[u].budget + Due(c)' <= MaxRetry + 1
      BY <1>1, <1>5, <1>8, <3>1, <3>3, <3>4, OnDemandAssumption
    <3> QED
      BY <1>1, <1>2, <1>5, <2>2, <3>3, <3>5 DEF Kept
  <2> QED
    BY <2>3, <2>4
<1>10. AllKept' /\ PathOwn'
  <2>1. \A t \in TxIds : KeptIf(t, c)' /\ PathIf(t, c)'
    BY <1>9 DEF KeptIf, PathIf
  <2>2. \A t \in DOMAIN reqMap : \/ t \in DOMAIN reqMap' /\ reqMap'[t] = reqMap[t]
                                 \/ t = u /\ Works(u, c)
    BY <1>2, <1>5
  <2> QED
    BY <1>1, <1>6, <1>7, <2>1, <2>2, OthersKept DEF NoneAdded
<1>11. NotSent' /\ SentFew'
  BY <1>1, <1>6, <1>8 DEF KInv, NotSent, SentFew
<1>12. CopyKept'
  BY <1>1, <1>2, <1>4, <1>5, CopyStays
<1> QED
  BY <1>10, <1>11, <1>12 DEF KInv

\* What is sent again is the command's own data, and was due.
LEMMA ResendKInv == \A o \in Ops : TInv /\ UInv /\ NInv /\ KInv /\ Resend(o) => KInv'
<1> SUFFICES ASSUME TInv, UInv, NInv, KInv, NEW o \in Ops, Resend(o) PROVE KInv'
  OBVIOUS
<1>1. /\ UNCHANGED <<content, reused, reqMap, lisPc, cur>>
      /\ respPc[o] = "resend" /\ respPc[o] \in InHand /\ respPc[o] \in Copied /\ copy[o] \in Entry /\ RespDone(o)
  BY DEF Resend, RespOnly, lisVars, InHand, RespPcs, Copied, TInv, TypeOK, RespTypes
<1>2. PICK u \in TxIds, c \in Requests :
        /\ u = resp[o].tx /\ c = resp[o].for /\ OpOf[c] = o /\ AtHand(c) /\ ~Held(c)
        /\ Works(u, c) /\ Kept(u, c, Due(c)) /\ content[c].path = "own"
  BY <1>1, HandKept
<1>3. PICK d \in Requests : d = copy[o].req
  BY <1>1 DEF Entry
<1>4. c = d \/ {c, d} \subseteq reused
  BY <1>1, <1>2, <1>3 DEF NInv, CopyShares, Share
<1>5. sent' = [sent EXCEPT ![d] = @ + 1] \/ sent' = sent
  BY <1>3 DEF Resend, Submit
<1>6. /\ sent[c] \in Nat /\ sent'[c] \in Nat /\ sent'[c] <= sent[c] + 1
      /\ \A r \in Requests : r # c => r \in reused \/ sent'[r] = sent[r]
  BY <1>4, <1>5 DEF TInv, TypeOK, HistTypes
<1>7. /\ respPc'[o] = "wait"
      /\ \A p \in Ops : p # o => respPc'[p] = respPc[p] /\ resp'[p] = resp[p] /\ copy'[p] = copy[p]
  BY <1>1 DEF RespDone, RespGoto, TInv, TypeOK, RespTypes
<1>8. \A r \in Requests : r # c => Due(r)' = Due(r) /\ (Inserting(r)' <=> Inserting(r)) /\ (Held(r)' <=> Held(r))
  BY <1>1, <1>2, <1>7, OthersDue DEF InHand
<1>9. NoneAdded
  BY ResendWorks
<1>10. Due(c) = 1 /\ Due(c)' = 0 /\ c \in DOMAIN content /\ ~Held(c)'
  BY <1>1, <1>2, <1>7 DEF Due, AtHand, Held, InHand, UInv, AllOnce, Once
<1>11. c \in reused \/ /\ u \in DOMAIN reqMap /\ reqMap[u].req = c
                       /\ sent[c] + reqMap[u].budget + 1 <= MaxRetry + 1 /\ reqMap[u].budget \in Nat
  <2>1. u \in DOMAIN reqMap => reqMap[u].budget \in Nat
    BY OnDemandAssumption DEF TInv, TypeOK, MapTypes, Entry
  <2> QED
    BY <1>2, <1>10, <2>1 DEF Kept
<1>12. ASSUME NEW t \in TxIds, Works(t, c)' PROVE Kept(t, c, Due(c))' /\ (content[c].path = "own")'
  <2>1. Works(t, c)
    BY <1>9, <1>12 DEF NoneAdded
  <2>2. t = u
    BY <1>2, <2>1, WorkNumber
  <2>3. CASE c \in reused
    BY <1>1, <1>2, <2>3 DEF Kept
  <2>4. CASE c \notin reused
    <3>1. sent'[c] + reqMap'[u].budget + Due(c)' <= MaxRetry + 1
      BY <1>1, <1>6, <1>10, <1>11, <2>4, OnDemandAssumption
    <3> QED
      BY <1>1, <1>2, <1>11, <2>2, <2>4, <3>1 DEF Kept
  <2> QED
    BY <2>3, <2>4
<1>13. AllKept' /\ PathOwn'
  <2>1. \A t \in TxIds : KeptIf(t, c)' /\ PathIf(t, c)'
    BY <1>12 DEF KeptIf, PathIf
  <2> QED
    BY <1>1, <1>6, <1>8, <1>9, <2>1, OthersKept DEF NoneAdded
<1>14. NotSent'
  BY <1>1, <1>6, <1>8, <1>10 DEF KInv, NotSent
<1>15. SentFew'
  <2>1. c \in reused \/ sent'[c] <= MaxRetry + 1
    BY <1>6, <1>11, OnDemandAssumption
  <2> QED
    BY <1>1, <1>6, <2>1 DEF KInv, SentFew
<1>16. CopyKept'
  BY <1>1, <1>2, <1>7, CopyStays
<1> QED
  BY <1>13, <1>14, <1>15, <1>16 DEF KInv

\* An answered command is worked on no more; no other has its entry.
LEMMA RemoveKInv == \A o \in Ops : TInv /\ UInv /\ NInv /\ KInv /\ Remove(o) => KInv'
<1> SUFFICES ASSUME TInv, UInv, NInv, KInv, NEW o \in Ops, Remove(o) PROVE KInv'
  OBVIOUS
<1>1. /\ UNCHANGED <<content, reused, sent, lisPc, cur, stack, respQ>>
      /\ respPc[o] \in InHand /\ RespDone(o)
  BY DEF Remove, RespOnly, lisVars, qVars, InHand, RespPcs
<1>2. PICK u \in TxIds, c \in Requests :
        /\ u = resp[o].tx /\ c = resp[o].for /\ OpOf[c] = o /\ AtHand(c) /\ ~Held(c)
        /\ Works(u, c) /\ Kept(u, c, Due(c)) /\ content[c].path = "own"
  BY <1>1, HandKept
<1>3. /\ respPc'[o] = "wait"
      /\ \A p \in Ops : p # o => respPc'[p] = respPc[p] /\ resp'[p] = resp[p] /\ copy'[p] = copy[p]
  BY <1>1 DEF RespDone, RespGoto, TInv, TypeOK, RespTypes
<1>4. \A t \in DOMAIN reqMap : t # u => t \in DOMAIN reqMap' /\ reqMap'[t] = reqMap[t]
  BY <1>2 DEF Remove
<1>5. \A r \in Requests : r # c => Due(r)' = Due(r) /\ (Inserting(r)' <=> Inserting(r)) /\ (Held(r)' <=> Held(r))
  BY <1>1, <1>2, <1>3, OthersDue DEF InHand
<1>6. NoneAdded
  BY RemoveWorks
<1>7. \A t \in TxIds : ~Works(t, c)'
  <2>1. (TInv /\ UInv)'
    BY RemoveTInv, RemoveUInv
  <2>2. WorkPlaced'
    BY <2>1, WorkPlaces, PTL
  <2>3. ~OnStack(c) /\ ~Queued(c)
    BY <1>2 DEF UInv, AllOnce, Once
  <2>4. ~Held(c)' /\ ~OnStack(c)' /\ ~Queued(c)' /\ ~AtHand(c)'
    BY <1>1, <1>2, <1>3, <2>3 DEF Held, OnStack, Queued, AtHand, InHand
  <2> QED
    BY <2>2, <2>4 DEF WorkPlaced
<1>8. AllKept' /\ PathOwn'
  <2>1. \A t \in TxIds : KeptIf(t, c)' /\ PathIf(t, c)'
    BY <1>7 DEF KeptIf, PathIf
  <2>2. \A t \in DOMAIN reqMap : \/ t \in DOMAIN reqMap' /\ reqMap'[t] = reqMap[t]
                                 \/ t = u /\ Works(u, c)
    BY <1>2, <1>4
  <2> QED
    BY <1>1, <1>5, <1>6, <2>1, <2>2, OthersKept DEF NoneAdded
<1>9. NotSent' /\ SentFew'
  BY <1>1 DEF KInv, NotSent, SentFew, Held
<1>10. CopyKept'
  BY <1>1, <1>2, <1>3, <1>4, CopyStays
<1> QED
  BY <1>8, <1>9, <1>10 DEF KInv

\* A step that changes nothing.
LEMMA StutterKInv == TInv /\ KInv /\ UNCHANGED vars => KInv'
<1> SUFFICES ASSUME TInv, KInv, UNCHANGED vars PROVE KInv'
  OBVIOUS
<1>1. NoneAdded /\ UNCHANGED <<content, reused, sent, reqMap, lisPc, cur, respPc, resp, copy>>
  BY StutterWorks DEF vars, lisVars, respVars
<1>2. \A r \in Requests : Due(r)' <= Due(r) /\ (Inserting(r) => Inserting(r)') /\ (Held(r)' => Held(r))
  BY <1>1 DEF Due, Inserting, Held, AtHand
<1>3. AllKept' /\ PathOwn' /\ NotSent' /\ SentFew'
  BY <1>1, <1>2, QuietKept
<1>4. CopyKept'
  BY <1>1 DEF KInv, CopyKept
<1> QED
  BY <1>3, <1>4 DEF KInv

\* KInv holds in every state.
LEMMA KInvHolds == Spec => []KInv
<1>1. TInv /\ UInv /\ NInv /\ KInv /\ [Next]_vars => KInv'
  BY QuietKInv, AnswerKInv, RecvKInv, NumberKInv, InsertKInv, CallKInv, RetryUpdateKInv, ResendKInv,
     RemoveKInv, StutterKInv DEF Next, Listener, Responder
<1> QED
  BY InitKInv, TInvHolds, UInvHolds, NInvHolds, <1>1, PTL DEF Spec

-----------------------------------------------------------------------------
(* Own data.  What is submitted and what an answer is built from is a copy *)
(* of the entry, which is the command's own unless its number is shared.   *)

StackOwn   == \A s \in stack : Share(s.for, s.data)
AnswersOwn == \A k \in 1..Len(answers) : Share(answers[k].for, answers[k].from)
SInv == StackOwn /\ AnswersOwn

\* Nothing is submitted or answered.
LEMMA InitSInv == Init => SInv
  BY DEF Init, SInv, StackOwn, AnswersOwn

\* A submission of the command's own data, or of one that shares its number.
LEMMA SubmitSInv ==
  ASSUME SInv, NEW o, NEW t, NEW r, NEW d, Submit(o, t, r, d), Share(r, d), UNCHANGED <<reused, answers>>
  PROVE  SInv'
<1> DEFINE n == [tx |-> t, for |-> r, data |-> d, op |-> o]
<1>1. n.for = r /\ n.data = d
  OBVIOUS
<1>2. stack' = stack \cup {n} \/ stack' = stack
  BY DEF Submit
<1> HIDE DEF n
<1>3. StackOwn'
  BY <1>1, <1>2 DEF SInv, StackOwn, Share
<1>4. AnswersOwn'
  BY DEF SInv, AnswersOwn, Share
<1> QED
  BY <1>3, <1>4 DEF SInv

\* The steps keep to the command's own data.
LEMMA NextSInv == TInv /\ NInv /\ SInv /\ [Next]_vars => SInv'
<1> SUFFICES ASSUME TInv, NInv, SInv, [Next]_vars PROVE SInv'
  OBVIOUS
<1>1. ASSUME UNCHANGED answers, stack' \subseteq stack, reused \subseteq reused' PROVE SInv'
  BY <1>1 DEF SInv, StackOwn, AnswersOwn, Share
<1>2. CASE UNCHANGED vars
  BY <1>1, <1>2 DEF vars
<1>3. CASE StackAnswer
  BY <1>1, <1>3 DEF StackAnswer
<1>4. ASSUME NEW o \in Ops, Recv(o) \/ Insert(o) \/ ErrorResponse(o) \/ Number(o) PROVE SInv'
  BY <1>1, <1>4 DEF Recv, Insert, ErrorResponse, Number
<1>5. ASSUME NEW o \in Ops, RespWait(o) \/ RespPop(o) \/ RetryGet(o) \/ RetryUpdate(o) \/ Lookup(o) PROVE SInv'
  BY <1>1, <1>5 DEF RespWait, RespPop, RetryGet, RetryUpdate, Lookup, RespOnly
<1>6. ASSUME NEW o \in Ops, Call(o) PROVE SInv'
  BY <1>6, SubmitSInv DEF Call, Share
<1>7. ASSUME NEW o \in Ops, Resend(o) PROVE SInv'
  <2>1. Share(resp[o].for, copy[o].req)
    BY <1>7 DEF Resend, NInv, CopyShares, Copied
  <2> QED
    BY <1>7, <2>1, SubmitSInv DEF Resend, RespOnly
<1>8. ASSUME NEW o \in Ops, Remove(o) PROVE SInv'
  <2>1. Share(resp[o].for, copy[o].req) /\ UNCHANGED <<reused, stack>>
    BY <1>8 DEF Remove, RespOnly, NInv, CopyShares, Copied
  <2>2. resp[o] \in Response /\ copy[o] \in Entry
    BY <1>8 DEF Remove, TInv, TypeOK, RespTypes, InHand, RespPcs, Copied
  <2>3. PICK a \in AnswerSet :
          a.for = resp[o].for /\ a.from = copy[o].req /\ answers' = Append(answers, a)
    BY <1>8, <2>2, PublishFacts DEF Remove
  <2>4. /\ Len(answers) \in Nat /\ Len(answers') = Len(answers) + 1 /\ answers'[Len(answers) + 1] = a
        /\ \A i \in 1..Len(answers) : answers'[i] = answers[i]
    <3>1. answers \in Seq(AnswerSet)
      BY DEF AnswerSet, TInv, TypeOK, HistTypes
    <3> QED
      BY <2>3, <3>1, AppendFacts
  <2>5. AnswersOwn'
    <3> SUFFICES ASSUME NEW k \in 1..Len(answers') PROVE Share(answers[k].for, answers[k].from)'
      BY DEF AnswersOwn
    <3>1. CASE k \in 1..Len(answers)
      BY <2>1, <2>4, <3>1 DEF SInv, AnswersOwn, Share
    <3>2. CASE k = Len(answers) + 1
      BY <2>1, <2>3, <2>4, <3>2 DEF Share
    <3> QED
      BY <2>4, <3>1, <3>2
  <2> QED
    BY <2>1, <2>5 DEF SInv, StackOwn, Share
<1> QED
  BY <1>2, <1>3, <1>4, <1>5, <1>6, <1>7, <1>8 DEF Next, Listener, Responder

\* SInv holds in every state.
LEMMA SInvHolds == Spec => []SInv
  BY InitSInv, NextSInv, TInvHolds, NInvHolds, PTL DEF Spec

\* A command is sent, sent again and answered with its own data, once and no
\* more often than its retries allow, whatever the operations do with the map
\* at the same time (checkForRetry, prepareResponseJson).
THEOREM OwnDataCorrect == Spec => []OwnData
<1>1. TInv /\ UInv /\ KInv /\ SInv => OwnData
  <2> SUFFICES ASSUME TInv, UInv, KInv, SInv PROVE OwnAnswers /\ OwnSubmissions
    BY DEF OwnData
  <2>1. OwnAnswers
    BY DEF UInv, AnswersOnce, SInv, AnswersOwn, Share, OwnAnswers
  <2>2. OwnSubmissions
    BY DEF KInv, SentFew, SInv, StackOwn, Share, OwnSubmissions
  <2> QED
    BY <2>1, <2>2
<1> QED
  BY <1>1, TInvHolds, UInvHolds, KInvHolds, SInvHolds, PTL

-----------------------------------------------------------------------------
(* Entries and work.  An entry that is stored is worked on; the work that  *)
(* ends takes it along, or is counted as leaked.                           *)

EntryWorks == \A t \in DOMAIN reqMap : reqMap[t].req \in leaked \cup reused \/ Works(t, reqMap[t].req)

\* The map is empty.
LEMMA InitEntryWorks == Init => EntryWorks
  BY DEF Init, EntryWorks, NoFun

\* No step leaves an entry behind.
LEMMA NextEntryWorks == TInv /\ NInv /\ EntryWorks /\ [Next]_vars => EntryWorks'
<1> SUFFICES ASSUME TInv, NInv, EntryWorks, [Next]_vars PROVE EntryWorks'
  OBVIOUS
<1>1. DOMAIN reqMap \subseteq TxIds /\ \A t \in DOMAIN reqMap : reqMap[t].req \in Requests
  BY DEF TInv, TypeOK, MapTypes, Entry
<1>2. ASSUME NoneLost, leaked \subseteq leaked', reused \subseteq reused',
             NEW t \in DOMAIN reqMap, t \in DOMAIN reqMap', reqMap'[t] = reqMap[t]
      PROVE  reqMap'[t].req \in leaked' \cup reused' \/ Works(t, reqMap[t].req)'
  <2>1. PICK r \in Requests : r = reqMap[t].req
    BY <1>1
  <2>2. r \in leaked \cup reused \/ Works(t, r)
    BY <2>1 DEF EntryWorks
  <2>3. t \in TxIds
    BY <1>1
  <2>4. r \in leaked' \cup reused' \/ Works(t, r)'
    BY <1>2, <2>2, <2>3 DEF NoneLost
  <2>5. reqMap'[t].req = r
    BY <1>2, <2>1
  <2> QED
    BY <2>4, <2>5
<1>3. ASSUME NoneLost, leaked \subseteq leaked', reused \subseteq reused', DOMAIN reqMap' \subseteq DOMAIN reqMap,
             \A t \in DOMAIN reqMap' : reqMap'[t] = reqMap[t]
      PROVE  EntryWorks'
  BY <1>2, <1>3 DEF EntryWorks
<1>4. CASE UNCHANGED vars
  BY <1>3, <1>4, StutterWorks DEF vars
<1>5. CASE StackAnswer
  BY <1>3, <1>5, StackAnswerWorks DEF StackAnswer
<1>6. ASSUME NEW o \in Ops, Recv(o) \/ Call(o) \/ ErrorResponse(o) PROVE EntryWorks'
  BY <1>3, <1>6, RecvWaitWorks, CallWorks, ErrorResponseWorks DEF Recv, Call, ErrorResponse, Submit
<1>7. ASSUME NEW o \in Ops, RespWait(o) \/ RespPop(o) \/ RetryGet(o) \/ Resend(o) \/ Lookup(o) \/ Remove(o)
      PROVE  EntryWorks'
  <2>1. NoneLost
    BY <1>7, RecvWaitWorks, RespPopWorks, LookWorks, ResendWorks, RemoveWorks
  <2>2. leaked \subseteq leaked' /\ reused' = reused
    BY <1>7 DEF RespWait, RespPop, RetryGet, Resend, Lookup, Remove, RespOnly, Submit
  <2>3. DOMAIN reqMap' \subseteq DOMAIN reqMap /\ \A t \in DOMAIN reqMap' : reqMap'[t] = reqMap[t]
    BY <1>7 DEF RespWait, RespPop, RetryGet, Resend, Lookup, Remove
  <2> QED
    BY <1>3, <2>1, <2>2, <2>3
<1>8. ASSUME NEW o \in Ops, Number(o) PROVE EntryWorks'
  <2>1. NoneLost
    BY <1>8, NumberWorks DEF NoneLost
  <2>2. leaked' = leaked /\ reused \subseteq reused' /\ reqMap' = reqMap
    BY <1>8 DEF Number
  <2> QED
    BY <1>3, <2>1, <2>2
<1>9. ASSUME NEW o \in Ops, NEW u \in TxIds, NEW c \in Requests, NEW e, Works(u, c), Share(c, e.req),
             NoneLost, leaked \subseteq leaked', reused' = reused, reqMap' = Store(reqMap, u, e)
      PROVE  EntryWorks'
  <2>1. /\ DOMAIN reqMap' = DOMAIN reqMap \cup {u} /\ reqMap'[u] = e
        /\ \A t \in DOMAIN reqMap : t # u => reqMap'[t] = reqMap[t]
    BY <1>9 DEF Store
  <2>2. e.req \in leaked' \cup reused' \/ Works(u, e.req)'
    <3>1. CASE c \in reused
      BY <1>9, <3>1 DEF Share
    <3>2. CASE c = e.req
      <4>1. c \in leaked' \/ Works(u, c)'
        BY <1>9, <2>1 DEF NoneLost
      <4> QED
        BY <3>2, <4>1
    <3> QED
      BY <1>9, <3>1, <3>2 DEF Share
  <2>3. ASSUME NEW t \in DOMAIN reqMap'
        PROVE  (reqMap[t].req \in leaked \cup reused \/ Works(t, reqMap[t].req))'
    <3>1. CASE t = u
      <4>1. reqMap'[t].req = e.req
        BY <2>1, <3>1
      <4> QED
        BY <2>2, <3>1, <4>1
    <3>2. CASE t # u
      <4>1. t \in DOMAIN reqMap /\ reqMap'[t] = reqMap[t]
        BY <2>1, <3>2
      <4> QED
        BY <1>2, <1>9, <4>1
    <3> QED
      BY <3>1, <3>2
  <2> QED
    BY <2>3 DEF EntryWorks
<1>10. ASSUME NEW o \in Ops, Insert(o) PROVE EntryWorks'
  <2>1. cur[o] \in Command /\ NoneLost /\ leaked \subseteq leaked' /\ reused' = reused
    BY <1>10, InsertWorks DEF Insert, TInv, TypeOK, LisTypes
  <2>2. PICK u \in TxIds, c \in Requests : u = cur[o].tx /\ c = cur[o].req
    BY <2>1 DEF Command
  <2>3. PICK e : e = [req |-> c, budget |-> MaxRetry]
    OBVIOUS
  <2>4. Works(u, c) /\ Share(c, e.req)
    BY <1>10, <2>2, <2>3 DEF Insert, Works, LisWorks, Share
  <2>5. reqMap' = IF u \in DOMAIN reqMap THEN reqMap ELSE Store(reqMap, u, e)
    BY <1>10, <2>2, <2>3 DEF Insert
  <2>6. CASE u \in DOMAIN reqMap
    BY <1>3, <2>1, <2>5, <2>6
  <2>7. CASE u \notin DOMAIN reqMap
    BY <1>9, <2>1, <2>4, <2>5, <2>7
  <2> QED
    BY <2>6, <2>7
<1>11. ASSUME NEW o \in Ops, RetryUpdate(o) PROVE EntryWorks'
  <2>1. /\ resp[o] \in Response /\ copy[o] \in Entry /\ NoneLost /\ leaked' = leaked /\ reused' = reused
        /\ respPc[o] = "retryUpdate" /\ copy' = [copy EXCEPT ![o].budget = @ - 1]
    BY <1>11, LookWorks DEF RetryUpdate, RespOnly, InHand, RespPcs, Copied, TInv, TypeOK, RespTypes
  <2>2. PICK u \in TxIds, c \in Requests : u = resp[o].tx /\ c = resp[o].for
    BY <2>1 DEF Response
  <2>3. PICK e : e = copy'[o]
    OBVIOUS
  <2>4. e.req = copy[o].req
    BY <2>1, <2>3 DEF Entry, TInv, TypeOK, RespTypes
  <2>5. Works(u, c) /\ Share(c, e.req)
    BY <2>1, <2>2, <2>4 DEF Works, HandWorks, NInv, CopyShares, Copied, InHand, RespPcs
  <2>6. reqMap' = Store(reqMap, u, e)
    BY <1>11, <2>2, <2>3 DEF RetryUpdate
  <2> QED
    BY <1>9, <2>1, <2>5, <2>6
<1> QED
  BY <1>4, <1>5, <1>6, <1>7, <1>8, <1>10, <1>11 DEF Next, Listener, Responder

\* Entries and work go together: an entry is removed by the answer of its
\* command, and not before it (insertReqData, removeReqData).
THEOREM EntryBackedCorrect == Spec => []EntryBacked
<1>1. Spec => []EntryWorks
  BY InitEntryWorks, NextEntryWorks, TInvHolds, NInvHolds, PTL DEF Spec
<1>2. TInv /\ UInv /\ KInv /\ EntryWorks => EntryBacked
  <2> SUFFICES ASSUME TInv, UInv, KInv, EntryWorks PROVE EntryHasWork /\ AnswerHasEntry
    BY DEF EntryBacked
  <2>1. EntryHasWork
    <3> SUFFICES ASSUME NEW t \in DOMAIN reqMap
                 PROVE  reqMap[t].req \in leaked \cup reused \/ reqMap[t].req \in Working(t)
      BY DEF EntryHasWork
    <3>1. PICK r \in Requests : r = reqMap[t].req
      BY DEF TInv, TypeOK, MapTypes, Entry
    <3>2. r \in leaked \cup reused \/ Works(t, r)
      BY <3>1 DEF EntryWorks
    <3> QED
      BY <3>1, <3>2, WorkingFacts
  <2>2. AnswerHasEntry
    <3> SUFFICES ASSUME NEW o \in Ops, respPc[o] \in InHand
                 PROVE  resp[o].for \in reused \/ resp[o].tx \in DOMAIN reqMap
      BY DEF AnswerHasEntry
    <3> QED
      BY HandKept DEF Kept
  <2> QED
    BY <2>1, <2>2
<1> QED
  BY <1>1, <1>2, TInvHolds, UInvHolds, KInvHolds, PTL

-----------------------------------------------------------------------------
(* The process.  The topic of a command that is looked up is a path, as    *)
(* the parser drops a command whose topic is none.                         *)

\* A lookup ends the process only if two commands share a number.
LEMMA NextCrash == TInv /\ UInv /\ NInv /\ KInv /\ CrashNeedsReuse /\ [Next]_vars => CrashNeedsReuse'
<1> SUFFICES ASSUME TInv, UInv, NInv, KInv, CrashNeedsReuse, [Next]_vars PROVE CrashNeedsReuse'
  OBVIOUS
<1>1. ASSUME UNCHANGED <<alive, reused>> PROVE CrashNeedsReuse'
  BY <1>1 DEF CrashNeedsReuse
<1>2. CASE UNCHANGED vars
  BY <1>1, <1>2 DEF vars
<1>3. CASE StackAnswer
  BY <1>1, <1>3 DEF StackAnswer
<1>4. ASSUME NEW o \in Ops, Recv(o) \/ Insert(o) \/ Call(o) \/ ErrorResponse(o) PROVE CrashNeedsReuse'
  BY <1>1, <1>4 DEF Recv, Insert, Call, ErrorResponse
<1>5. ASSUME NEW o \in Ops, Number(o) PROVE CrashNeedsReuse'
  <2>1. alive' = alive /\ reused \subseteq reused'
    BY <1>5 DEF Number
  <2> QED
    BY <2>1 DEF CrashNeedsReuse
<1>6. ASSUME NEW o \in Ops, RespWait(o) \/ RespPop(o) \/ RetryGet(o) \/ RetryUpdate(o) \/ Resend(o) \/ Remove(o)
      PROVE  CrashNeedsReuse'
  BY <1>1, <1>6 DEF RespWait, RespPop, RetryGet, RetryUpdate, Resend, Remove, RespOnly
<1>7. ASSUME NEW o \in Ops, Lookup(o) PROVE CrashNeedsReuse'
  <2>1. respPc[o] \in InHand /\ reused' = reused
    BY <1>7 DEF Lookup, RespOnly, InHand, RespPcs
  <2>2. PICK u \in TxIds, c \in Requests :
          /\ u = resp[o].tx /\ c = resp[o].for /\ Kept(u, c, Due(c)) /\ content[c].path = "own"
    BY <2>1, HandKept
  <2>3. CASE c \in reused
    BY <2>1, <2>3 DEF CrashNeedsReuse
  <2>4. CASE c \notin reused
    <3>1. u \in DOMAIN reqMap /\ reqMap[u].req = c
      BY <2>2, <2>4 DEF Kept
    <3>2. alive' = (content[c].path # "noSlash") \/ alive' = alive
      BY <1>7, <2>2, <3>1 DEF Lookup
    <3> QED
      BY <2>1, <2>2, <3>2 DEF CrashNeedsReuse
  <2> QED
    BY <2>3, <2>4
<1> QED
  BY <1>2, <1>3, <1>4, <1>5, <1>6, <1>7 DEF Next, Listener, Responder

\* A command with a topic that is no path does not end the process, unless its
\* TxID has come round again (mapMqttToEMBRespTopic).
THEOREM CrashNeedsReuseCorrect == Spec => []CrashNeedsReuse
<1>1. Init => CrashNeedsReuse
  BY DEF Init, CrashNeedsReuse
<1> QED
  BY <1>1, NextCrash, TInvHolds, UInvHolds, NInvHolds, KInvHolds, PTL DEF Spec
=============================================================================
