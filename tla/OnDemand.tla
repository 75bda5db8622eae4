-------------------------------- MODULE OnDemand --------------------------------
(***************************************************************************)
(* On-demand reads and writes of the Modbus master (modbus-master):        *)
(* onDemandHandler takes commands from the message bus, one listener       *)
(* thread per operation, and hands them to the Modbus stack; one response  *)
(* thread per operation (CPeriodicReponseProcessor) answers them.          *)
(*                                                                         *)
(* The operations share the numbers of the commands (TxIDs) and the map of *)
(* their data, from which a response is built and a command repeated.  A   *)
(* step of the module is one operation on what they share: the counter,    *)
(* the map, a response queue or the stack (external).                      *)
(***************************************************************************)
EXTENDS Naturals, Sequences

CONSTANTS
  Ops,       \* the operations: read or write, real-time or not
  WriteOps,  \* those that write
  Requests,  \* bound: the commands that applications send
  OpOf,      \* the operation of a command
  Messages,  \* what a command may contain
  NTx,       \* TxIDs: 2^16 in the code
  MaxRetry   \* configured retries of a command that times out

\* What the parser tells apart: "complete", all keys are there; "matches",
\* wellhead and command are those of the topic; "path", whose data point the
\* topic names ("noSlash": it is no path); "writable", the point is a coil or a
\* holding register; "value", "absent" if the message has no value.
Message == [complete : BOOLEAN, matches : BOOLEAN, path : {"own", "other", "noSlash"},
            writable : BOOLEAN, value : {"good", "bad", "absent"}]

ASSUME OnDemandAssumption ==
  /\ WriteOps \subseteq Ops
  /\ OpOf \in [Requests -> Ops]
  /\ Messages \subseteq Message
  /\ NTx \in Nat \ {0}
  /\ MaxRetry \in Nat

VARIABLES
  content,    \* the commands taken from the bus, with their message
  txId,       \* m_u16TxId
  reqMap,     \* g_mapRequest: TxID -> command and its retries left
  lisPc, cur, \* subscribeDeviceListener: the command at hand and its TxID
  respQ, respSem,       \* stackOnDemand...ResQ, sem...RespProcess
  respPc, resp, copy,   \* respProcessThreads; copy: what was read from the map
  stack,      \* submissions that the stack has accepted and not answered
  alive,      \* FALSE: an uncaught exception has ended the process
  \* history
  wrapped,    \* the TxIDs have started again at 0
  reused,     \* commands whose TxID was, or became, that of another one still in use
  leaked,     \* commands whose entry no response will remove
  answers,    \* responses made, in order: the command that they are for, the one whose
              \* data they were built from, and whether the message bus took them
  sent        \* submissions of the command's data

lisVars  == <<lisPc, cur>>
respVars == <<respPc, resp, copy>>
qVars    == <<respQ, respSem>>
vars == <<content, txId, reqMap, lisVars, qVars, respVars, stack, alive,
          wrapped, reused, leaked, answers, sent>>

TxIds == 0..(NTx - 1)
Entry == [req : Requests, budget : 0..MaxRetry]
\* "for" is the command that the submission or response stems from.
Submission == [tx : TxIds, for : Requests, data : Requests, op : Ops]
Response   == [tx : TxIds, for : Requests, kind : {"good", "error", "timeout"}]

NoFun == <<>>
LisPcs  == {"recv", "number", "insert", "call", "error"}
RespPcs == {"wait", "pop", "retryGet", "retryUpdate", "resend", "lookup", "remove"}
InHand  == RespPcs \ {"wait", "pop"}   \* a response is at hand
Copied  == {"retryUpdate", "resend", "remove"}   \* and a copy of an entry
Command == [req : Requests, tx : TxIds]

LisTypes ==
  /\ DOMAIN content \subseteq Requests /\ \A r \in DOMAIN content : content[r] \in Messages
  /\ lisPc \in [Ops -> LisPcs] /\ cur \in [Ops -> Command \cup {NoFun}]
  /\ \A o \in Ops : lisPc[o] # "recv" => cur[o] \in Command

MapTypes ==
  /\ txId \in TxIds
  /\ DOMAIN reqMap \subseteq TxIds /\ \A t \in DOMAIN reqMap : reqMap[t] \in Entry

QueueTypes ==
  /\ respQ \in [Ops -> Seq(Response)] /\ respSem \in [Ops -> Nat]
  /\ \A o \in Ops : Len(respQ[o]) = respSem[o] + (IF respPc[o] = "pop" THEN 1 ELSE 0)

RespTypes ==
  /\ respPc \in [Ops -> RespPcs]
  /\ resp \in [Ops -> Response \cup {NoFun}] /\ copy \in [Ops -> Entry \cup {NoFun}]
  /\ \A o \in Ops : respPc[o] \in InHand => resp[o] \in Response
  /\ \A o \in Ops : respPc[o] \in Copied => copy[o] \in Entry

HistTypes ==
  /\ stack \subseteq Submission
  /\ alive \in BOOLEAN /\ wrapped \in BOOLEAN
  /\ reused \subseteq Requests /\ leaked \subseteq Requests
  /\ answers \in Seq([for : Requests, from : Requests, out : BOOLEAN])
  /\ sent \in [Requests -> Nat]

TypeOK == LisTypes /\ MapTypes /\ QueueTypes /\ RespTypes /\ HistTypes

Init ==
  /\ content = NoFun /\ txId = 0 /\ reqMap = NoFun
  /\ lisPc = [o \in Ops |-> "recv"] /\ cur = [o \in Ops |-> NoFun]
  /\ respQ = [o \in Ops |-> <<>>] /\ respSem = [o \in Ops |-> 0]
  /\ respPc = [o \in Ops |-> "wait"]
  /\ resp = [o \in Ops |-> NoFun] /\ copy = [o \in Ops |-> NoFun]
  /\ stack = {} /\ alive = TRUE
  /\ wrapped = FALSE /\ reused = {} /\ leaked = {}
  /\ answers = <<>> /\ sent = [r \in Requests |-> 0]

-----------------------------------------------------------------------------
(* The request parser *)

\* A write without a value or scaled value is dropped before it is numbered.
HasValue(m, o) == o \in WriteOps => m.value # "absent"

\* Wellhead and command are compared with the topic only if all keys are there.
ValidJson(m) == m.complete /\ m.matches

\* Fault: a topic that is no path is taken for an invalid message.
ParseResultNoPath(m, o) ==
  CASE m.path = "other" -> "unknown"
    [] m.path = "own" /\ ValidJson(m) /\ (o \in WriteOps => m.writable /\ m.value = "good") -> "success"
    [] OTHER -> "invalid"

\* A topic that is not in the list of points outweighs every other error.
ParseResult(m, o) ==
  CASE m.path # "own" -> "unknown"
    [] m.path = "own" /\ ValidJson(m) /\ (o \in WriteOps => m.writable /\ m.value = "good") -> "success"
    [] OTHER -> "invalid"

-----------------------------------------------------------------------------
(* What several operations share *)

\* The commands that a listener, the stack or a response thread works on
\* under TxID t.
Working(t) ==
  {cur[o].req : o \in {p \in Ops : lisPc[p] \in {"insert", "call", "error"} /\ cur[p].tx = t}}
    \cup {s.for : s \in {x \in stack : x.tx = t}}
    \cup {r \in Requests : \E o \in Ops : \E k \in 1..Len(respQ[o]) :
                                 respQ[o][k].tx = t /\ respQ[o][k].for = r}
    \cup {resp[o].for : o \in {p \in Ops : respPc[p] \in InHand /\ resp[p].tx = t}}

Owner(t) == IF t \in DOMAIN reqMap THEN {reqMap[t].req} ELSE {}
InUse(t) == t \in DOMAIN reqMap \/ Working(t) # {}

\* What a std::map holds once v is stored under x.
Store(f, x, v) == [y \in DOMAIN f \cup {x} |-> IF y = x THEN v ELSE f[y]]

\* Fault: the thread is not woken.
PushQuiet(o, x) ==
  /\ respQ' = [respQ EXCEPT ![o] = Append(@, x)]
  /\ UNCHANGED respSem

\* pushToQueue
Push(o, x) ==
  /\ respQ' = [respQ EXCEPT ![o] = Append(@, x)]
  /\ respSem' = [respSem EXCEPT ![o] = @ + 1]

\* Modbus_Stack_API_Call: the stack takes the data of a command, or refuses.
Submit(o, t, for, data) ==
  \/ /\ stack' = stack \cup {[tx |-> t, for |-> for, data |-> data, op |-> o]}
     /\ sent' = [sent EXCEPT ![data] = @ + 1]
     /\ UNCHANGED leaked
  \/ /\ leaked' = leaked \cup {for}
     /\ UNCHANGED <<stack, sent>>

-----------------------------------------------------------------------------
(* The listener of an operation: processMsg and onDemandInfoHandler *)

LisGoto(o, pc) == lisPc' = [lisPc EXCEPT ![o] = pc]
LisDone(o) == LisGoto(o, "recv") /\ cur' = [cur EXCEPT ![o] = NoFun]

Recv(o) ==
  /\ lisPc[o] = "recv"
  /\ \E r \in Requests \ DOMAIN content, m \in Messages :
       /\ OpOf[r] = o
       /\ content' = Store(content, r, m)
       /\ \/ /\ HasValue(m, o)
             /\ cur' = [cur EXCEPT ![o] = [req |-> r, tx |-> 0]]
             /\ LisGoto(o, "number")
          \/ /\ ~HasValue(m, o)
             /\ UNCHANGED lisVars
  /\ UNCHANGED <<txId, reqMap, qVars, respVars, stack, alive, wrapped, reused, leaked, answers, sent>>

\* Fault: two listeners get the same number.
NumberAgain(o) ==
  /\ lisPc[o] = "number"
  /\ cur' = [cur EXCEPT ![o].tx = txId]
  /\ LisGoto(o, "insert")
  /\ UNCHANGED <<content, txId, reqMap, qVars, respVars, stack, alive, wrapped, reused, leaked, answers, sent>>

Number(o) ==   \* getTxId: an atomic 16-bit counter
  /\ lisPc[o] = "number"
  /\ txId' = IF txId = NTx - 1 THEN 0 ELSE txId + 1
  /\ cur' = [cur EXCEPT ![o].tx = txId']
  /\ wrapped' = (wrapped \/ txId' = 0)
  /\ reused' = IF wrapped' /\ InUse(txId')
                 THEN reused \cup {cur[o].req} \cup Working(txId') \cup Owner(txId')
                 ELSE reused
  /\ LisGoto(o, "insert")
  /\ UNCHANGED <<content, reqMap, qVars, respVars, stack, alive, leaked, answers, sent>>

\* insertReqData, for every command, whatever the parser said; an entry that is
\* there stays.  A command for an unknown point gets no response.
Insert(o) ==
  /\ lisPc[o] = "insert"
  /\ reqMap' = IF cur[o].tx \in DOMAIN reqMap THEN reqMap
               ELSE Store(reqMap, cur[o].tx, [req |-> cur[o].req, budget |-> MaxRetry])
  /\ LET result == ParseResult(content[cur[o].req], o)
     IN \/ result = "success" /\ LisGoto(o, "call") /\ UNCHANGED <<cur, leaked>>
        \/ result = "invalid" /\ LisGoto(o, "error") /\ UNCHANGED <<cur, leaked>>
        \/ result = "unknown" /\ LisDone(o) /\ leaked' = leaked \cup {cur[o].req}
  /\ UNCHANGED <<content, txId, qVars, respVars, stack, alive, wrapped, reused, answers, sent>>

\* The refusal of the stack is written to the log and nothing else.
Call(o) ==
  /\ lisPc[o] = "call"
  /\ Submit(o, cur[o].tx, cur[o].req, cur[o].req)
  /\ LisDone(o)
  /\ UNCHANGED <<content, txId, reqMap, qVars, respVars, alive, wrapped, reused, answers>>

ErrorResponse(o) ==   \* createErrorResponse
  /\ lisPc[o] = "error"
  /\ Push(o, [tx |-> cur[o].tx, for |-> cur[o].req, kind |-> "error"])
  /\ LisDone(o)
  /\ UNCHANGED <<content, txId, reqMap, respVars, stack, alive, wrapped, reused, leaked, answers, sent>>

Listener(o) == Number(o) \/ Insert(o) \/ Call(o) \/ ErrorResponse(o)

-----------------------------------------------------------------------------
\* The stack answers; handleResponse queues the answer for its operation.
StackAnswer ==
  \E s \in stack, k \in {"good", "error", "timeout"} :
    /\ stack' = stack \ {s}
    /\ Push(s.op, [tx |-> s.tx, for |-> s.for, kind |-> k])
    /\ UNCHANGED <<content, txId, reqMap, lisVars, respVars, alive, wrapped, reused, leaked, answers, sent>>

-----------------------------------------------------------------------------
(* The response thread of an operation *)

RespGoto(o, pc) == respPc' = [respPc EXCEPT ![o] = pc]
RespDone(o) == /\ RespGoto(o, "wait")
               /\ resp' = [resp EXCEPT ![o] = NoFun]
               /\ copy' = [copy EXCEPT ![o] = NoFun]
RespOnly == UNCHANGED <<content, txId, lisVars, wrapped, reused>>

RespWait(o) ==
  /\ respPc[o] = "wait" /\ respSem[o] > 0
  /\ respSem' = [respSem EXCEPT ![o] = @ - 1]
  /\ RespGoto(o, "pop")
  /\ RespOnly /\ UNCHANGED <<reqMap, respQ, resp, copy, stack, alive, leaked, answers, sent>>

\* getDataToProcess: its test for an empty queue never holds, as every post of the
\* semaphore goes with a push (TypeOK).  "timeout" is the one error that is retried.
RespPop(o) ==
  /\ respPc[o] = "pop"
  /\ resp' = [resp EXCEPT ![o] = Head(respQ[o])]
  /\ respQ' = [respQ EXCEPT ![o] = Tail(@)]
  /\ RespGoto(o, IF Head(respQ[o]).kind = "timeout" THEN "retryGet" ELSE "lookup")
  /\ RespOnly /\ UNCHANGED <<reqMap, respSem, copy, stack, alive, leaked, answers, sent>>

\* Fault: the last time-out is dropped, not reported.
RetryGetSilent(o) ==
  /\ respPc[o] = "retryGet"
  /\ \/ /\ resp[o].tx \in DOMAIN reqMap /\ reqMap[resp[o].tx].budget > 0
        /\ copy' = [copy EXCEPT ![o] = reqMap[resp[o].tx]]
        /\ RespGoto(o, "retryUpdate") /\ UNCHANGED resp
     \/ /\ ~(resp[o].tx \in DOMAIN reqMap /\ reqMap[resp[o].tx].budget > 0)
        /\ RespDone(o)
  /\ RespOnly /\ UNCHANGED <<reqMap, qVars, stack, alive, leaked, answers, sent>>

\* checkForRetry: a time-out without an entry is dropped.
RetryGet(o) ==
  /\ respPc[o] = "retryGet"
  /\ \/ /\ resp[o].tx \in DOMAIN reqMap /\ reqMap[resp[o].tx].budget > 0
        /\ copy' = [copy EXCEPT ![o] = reqMap[resp[o].tx]]
        /\ RespGoto(o, "retryUpdate") /\ UNCHANGED resp
     \/ /\ resp[o].tx \in DOMAIN reqMap /\ reqMap[resp[o].tx].budget = 0
        /\ RespGoto(o, "lookup")
        /\ UNCHANGED <<resp, copy>>
     \/ /\ resp[o].tx \notin DOMAIN reqMap
        /\ RespDone(o)
  /\ RespOnly /\ UNCHANGED <<reqMap, qVars, stack, alive, leaked, answers, sent>>

RetryUpdate(o) ==   \* updateReqData stores the copy, counted down
  /\ respPc[o] = "retryUpdate"
  /\ copy' = [copy EXCEPT ![o].budget = @ - 1]
  /\ reqMap' = Store(reqMap, resp[o].tx, copy'[o])
  /\ RespGoto(o, "resend")
  /\ RespOnly /\ UNCHANGED <<qVars, resp, stack, alive, leaked, answers, sent>>

Resend(o) ==
  /\ respPc[o] = "resend"
  /\ Submit(o, resp[o].tx, resp[o].for, copy[o].req)
  /\ RespDone(o)
  /\ RespOnly /\ UNCHANGED <<reqMap, qVars, alive, answers>>

\* prepareResponseJson copies the entry; without one there is no response, and
\* when it cannot build one, or an exception is caught before the removal, the
\* entry stays.  A topic without a "/" makes mapMqttToEMBRespTopic throw a
\* std::string, which no handler of the thread catches.
Lookup(o) ==
  /\ respPc[o] = "lookup"
  /\ \/ /\ resp[o].tx \notin DOMAIN reqMap
        /\ RespDone(o)
        /\ UNCHANGED <<alive, leaked>>
     \/ /\ resp[o].tx \in DOMAIN reqMap
        /\ leaked' = leaked \cup {resp[o].for}
        /\ RespDone(o)
        /\ UNCHANGED alive
     \/ /\ resp[o].tx \in DOMAIN reqMap
        /\ copy' = [copy EXCEPT ![o] = reqMap[resp[o].tx]]
        /\ alive' = (content[reqMap[resp[o].tx].req].path # "noSlash")
        /\ RespGoto(o, "remove")
        /\ UNCHANGED <<resp, leaked>>
  /\ RespOnly /\ UNCHANGED <<reqMap, qVars, stack, answers, sent>>

\* publishJson: that the bus did not take the response is only logged.
Publish(o) ==
  \E out \in BOOLEAN :
    answers' = Append(answers, [for |-> resp[o].for, from |-> copy[o].req, out |-> out])

\* Fault: the entry stays.
RemoveNot(o) ==
  /\ respPc[o] = "remove"
  /\ Publish(o)
  /\ RespDone(o)
  /\ RespOnly /\ UNCHANGED <<reqMap, qVars, stack, alive, leaked, sent>>

\* removeReqData; then the response, built from the copy, goes to the bus.
Remove(o) ==
  /\ respPc[o] = "remove"
  /\ reqMap' = [t \in DOMAIN reqMap \ {resp[o].tx} |-> reqMap[t]]
  /\ Publish(o)
  /\ RespDone(o)
  /\ RespOnly /\ UNCHANGED <<qVars, stack, alive, leaked, sent>>

Responder(o) ==
  \/ RespWait(o) \/ RespPop(o) \/ RetryGet(o) \/ RetryUpdate(o) \/ Resend(o)
  \/ Lookup(o) \/ Remove(o)

-----------------------------------------------------------------------------
Next == alive /\ (StackAnswer \/ \E o \in Ops : Recv(o) \/ Listener(o) \/ Responder(o))

Spec == Init /\ [][Next]_vars

\* The threads block on nothing but the message bus and their semaphores, and
\* the stack answers what it accepted.  Nothing makes applications send.
FairSpec == /\ Spec
            /\ WF_vars(alive /\ StackAnswer)
            /\ \A o \in Ops : WF_vars(alive /\ Listener(o)) /\ WF_vars(alive /\ Responder(o))

-----------------------------------------------------------------------------
(* Properties.  A leaked entry stays until its TxID comes round again; the *)
(* commands that meet there are "reused", and nothing is promised of them. *)

\* A response is built from the data of the command that it answers, and a
\* command has at most one response, published or not.
OwnAnswers ==
  /\ \A k \in 1..Len(answers) : answers[k].for \in reused \/ answers[k].from = answers[k].for
  /\ \A j, k \in 1..Len(answers) : j < k => answers[j].for \in reused \/ answers[j].for # answers[k].for

\* What is with the stack for a command, first sent or repeated, is that
\* command's own data, and it is sent once and MaxRetry times again at most.
OwnSubmissions ==
  /\ \A s \in stack : s.for \in reused \/ s.data = s.for
  /\ \A r \in Requests \ reused : sent[r] <= MaxRetry + 1

\* Whatever the operations do with the shared map at the same time, a command
\* is sent, sent again and answered with its own data, once and no more often
\* than its retries allow (prepareResponseJson, checkForRetry).
OwnData == OwnAnswers /\ OwnSubmissions

\* An entry of the map belongs to a command that is worked on or that is known
\* to have leaked: no other path leaves one behind.
EntryHasWork ==
  \A t \in DOMAIN reqMap :
    reqMap[t].req \in leaked \cup reused \/ reqMap[t].req \in Working(t)

\* An answer always finds the entry of its command: none is dropped.
AnswerHasEntry ==
  \A o \in Ops : respPc[o] \in InHand =>
    resp[o].for \in reused \/ resp[o].tx \in DOMAIN reqMap

\* Entries and work go together: an entry is removed by the answer of its
\* command, and not before it (insertReqData, removeReqData).
EntryBacked == EntryHasWork /\ AnswerHasEntry

\* A command with a topic that is no path does not end the process, unless
\* its TxID has come round again.
CrashNeedsReuse == alive \/ reused # {}

Published(r)   == \E k \in 1..Len(answers) : answers[k].for = r /\ answers[k].out
Unpublished(r) == \E k \in 1..Len(answers) : answers[k].for = r /\ ~answers[k].out

\* Every command that the parser takes or rejects has its answer published in
\* the end.  What can take it away is named: a failure that the code only logs
\* (the bus did not take the response, the stack refused the command, the
\* response could not be prepared) and a TxID that came round again.
EveryCommandAnswered ==
  \A r \in Requests :
    (\E o \in Ops : lisPc[o] = "insert" /\ cur[o].req = r
                      /\ ParseResult(content[r], o) # "unknown")
      ~> (Published(r) \/ Unpublished(r) \/ r \in leaked \cup reused \/ ~alive)

(* What a comment of ModbusOnDemandHandler.cpp says *)

\* "inserting structure to map for retry and to create response JSON": when a
\* command is handed to the stack, the entry of its TxID is its own.
EntryIsOwn ==
  \A o \in Ops : lisPc[o] = "call" =>
    cur[o].tx \in DOMAIN reqMap /\ reqMap[cur[o].tx].req = cur[o].req
=============================================================================
