--------------------------------- MODULE Bridge ---------------------------------
(***************************************************************************)
(* The MQTT bridge (mqtt-bridge) with the parts of uwc_common that it is   *)
(* made of: the queues (CQueueHandler), the message-bus contexts           *)
(* (zmq_handler) and the MQTT client (CMQTTPubSubClient).                  *)
(*                                                                         *)
(* Commands come from the internal broker into one of four queues, by      *)
(* operation and class; a thread per queue publishes them on the message   *)
(* bus.  Replies come back over one listener thread per topic.  The bus    *)
(* itself is external: a publisher is made or not, a message goes out or   *)
(* not, and what is done with a destroyed context is undefined.            *)
(***************************************************************************)
EXTENDS Naturals, Sequences, FiniteSets

CONSTANTS
  Points,      \* data points
  Commands,    \* bound: the commands that applications send
  DefaultRT,   \* operation -> class of a command that does not name one
  SubTopics,   \* the topics of the bus that the bridge subscribes to, in order
  MaxCommands, MaxReplies, MaxLosses, MaxFailures   \* bounds

Ops     == {"read", "write"}
Queues  == [op : Ops, rt : BOOLEAN]
\* "0" and "1" are the two values of the key "realtime" that count; "nested" is a
\* command with an array, an object or null in it.
Command == [op : Ops \cup {"other"}, point : Points, realtime : {"0", "1", "none"},
            body : {"good", "nested", "invalid"}]
Topics  == [op : Ops, rt : BOOLEAN, point : Points]
SubTopicSet == {SubTopics[i] : i \in DOMAIN SubTopics}

ASSUME BridgeAssumption ==
  /\ Commands \subseteq Command
  /\ DefaultRT \in [Ops -> BOOLEAN]
  /\ {MaxCommands, MaxReplies, MaxLosses, MaxFailures} \subseteq Nat
  /\ SubTopics \in Seq(SubTopicSet)
  /\ Cardinality(SubTopicSet) = Len(SubTopics)

VARIABLES
  \* the internal broker
  up, subs,           \* connected; the operations subscribed to, of this session
  connSem, subPc,     \* m_semConnSuccess, handleConnSuccessThread
  commands,           \* those received so far
  \* commands to the bus
  queue, sem,         \* CQueueHandler
  pc, hand, new,      \* postMsgsToEII: the command at hand and its new publisher
  ctxMap, pubMap,     \* g_mapContextMap (its topics), g_mapPubContextMap
  pubBus,             \* the context all publishers share: "none", "live" or "gone"
  made,               \* publishers created: their topics
  published,          \* per topic: commands in order, and with which publisher
  \* replies from the bus
  mainPc,             \* main: how many topics are subscribed to or listened on
  subMap, subBus,     \* g_mapSubContextMap; the context all subscribers share
  replies,            \* per topic: how many are on the bus
  arrived,            \* how many there have been
  \* environment and history
  losses, failures, failed, alive

mqttVars == <<up, subs, connSem, subPc>>
pubVars  == <<pc, hand, new, ctxMap, pubMap, pubBus, made, published, failed>>
subVars  == <<mainPc, subMap, subBus, replies, arrived>>
vars == <<mqttVars, commands, queue, sem, pubVars, subVars, losses, failures, alive>>

Nobody == 0
Pubs == DOMAIN made

MqttTypes ==
  /\ up \in BOOLEAN /\ subs \subseteq Ops /\ connSem \in Nat
  /\ subPc \in {"wait", "read", "write"}
QueueTypes ==
  /\ commands \in Seq(Commands)
  /\ queue \in [Queues -> Seq(DOMAIN commands)]
  /\ sem \in [Queues -> Nat] /\ \A q \in Queues : sem[q] = Len(queue[q])
PosterTypes ==
  /\ pc \in [Queues -> {"wait", "prepare", "create", "insertCtx", "insertPub",
                        "remove", "destroy", "publish"}]
  /\ hand \in [Queues -> DOMAIN commands \cup {Nobody}]
  /\ new \in [Queues -> Pubs \cup {Nobody}]
BusTypes ==
  /\ ctxMap \subseteq Topics
  /\ DOMAIN pubMap \subseteq Topics /\ \A t \in DOMAIN pubMap : pubMap[t] \in Pubs
  /\ pubBus \in {"none", "live", "gone"} /\ made \in Seq(Topics)
PublishedTypes ==
  /\ published \in [Topics -> Seq([command : DOMAIN commands, pub : Pubs])]
  /\ failed \subseteq DOMAIN commands
ReplyTypes ==
  /\ mainPc \in [step : {"subscribe", "listen", "join"}, next : 1..(Len(SubTopics) + 1)]
  /\ subMap \subseteq SubTopicSet /\ subBus \in {"none", "live", "gone"}
  /\ replies \in [SubTopicSet -> 0..MaxReplies] /\ arrived \in 0..MaxReplies
EnvTypes == losses \in 0..MaxLosses /\ failures \in 0..MaxFailures /\ alive \in BOOLEAN

TypeOK == /\ MqttTypes /\ QueueTypes /\ PosterTypes /\ BusTypes /\ PublishedTypes
          /\ ReplyTypes /\ EnvTypes

\* prepareCommonContext has created the two contexts, or none if the
\* configuration is not there.
Init ==
  /\ up = FALSE /\ subs = {} /\ connSem = 0 /\ subPc = "wait"
  /\ commands = <<>>
  /\ queue = [q \in Queues |-> <<>>] /\ sem = [q \in Queues |-> 0]
  /\ pc = [q \in Queues |-> "wait"]
  /\ hand = [q \in Queues |-> Nobody] /\ new = [q \in Queues |-> Nobody]
  /\ ctxMap = {} /\ pubMap = <<>> /\ pubBus \in {"none", "live"}
  /\ made = <<>> /\ published = [t \in Topics |-> <<>>]
  /\ mainPc = [step |-> "subscribe", next |-> 1]
  /\ subMap = {} /\ subBus = "live"
  /\ replies = [t \in SubTopicSet |-> 0] /\ arrived = 0
  /\ losses = 0 /\ failures = 0 /\ failed = {} /\ alive = TRUE

-----------------------------------------------------------------------------
(* The connection to the internal broker. *)

\* Fault: only the first connection is signalled.
ConnectedFirst == connSem' = IF losses = 0 THEN connSem + 1 ELSE connSem

\* The callback connected posts the semaphore.
Connected == connSem' = connSem + 1

Connect ==   \* the client connects by itself
  /\ ~up /\ up' = TRUE
  /\ Connected
  /\ UNCHANGED <<subs, subPc, commands, queue, sem, pubVars, subVars, losses, failures, alive>>

\* Sessions are clean: the broker forgets what was subscribed to.
Lose ==
  /\ up /\ losses < MaxLosses
  /\ up' = FALSE /\ subs' = {} /\ losses' = losses + 1
  /\ UNCHANGED <<connSem, subPc, commands, queue, sem, pubVars, subVars, failures, alive>>

\* handleConnSuccessThread
SubWait ==
  /\ alive /\ subPc = "wait" /\ connSem > 0
  /\ connSem' = connSem - 1
  /\ subPc' = IF up THEN "read" ELSE "wait"
  /\ UNCHANGED <<up, subs, commands, queue, sem, pubVars, subVars, losses, failures, alive>>

\* subscribeTopics: an error is logged.
Subscribe(op, then) ==
  /\ alive /\ subPc = op
  /\ subs' = IF up THEN subs \cup {op} ELSE subs
  /\ subPc' = then
  /\ UNCHANGED <<up, connSem, commands, queue, sem, pubVars, subVars, losses, failures, alive>>

Subscriber == SubWait \/ Subscribe("read", "write") \/ Subscribe("write", "wait")

-----------------------------------------------------------------------------
(* Commands from the broker: pushMsgInQ *)

\* parseMQTTMsg
IsRealTime(c) == IF c.realtime = "none" THEN DefaultRT[c.op] ELSE c.realtime = "1"

Accepted(c) == c.op \in Ops /\ c.body # "invalid"

QueueOf(c) == [op |-> c.op, rt |-> IsRealTime(c)]

\* Fault: the consumer is not woken.
PushQuiet(q, i) ==
  /\ queue' = [queue EXCEPT ![q] = Append(@, i)]
  /\ UNCHANGED sem

\* pushMsg: queue and semaphore change under the lock.
Push(q, i) ==
  /\ queue' = [queue EXCEPT ![q] = Append(@, i)]
  /\ sem' = [sem EXCEPT ![q] = @ + 1]

Receive ==
  /\ alive /\ up /\ Len(commands) < MaxCommands
  /\ \E c \in Commands :
       /\ c.op \in subs \cup {"other"}
       /\ commands' = Append(commands, c)
       /\ \/ Accepted(c) /\ Push(QueueOf(c), Len(commands) + 1)
          \/ ~Accepted(c) /\ UNCHANGED <<queue, sem>>
  /\ UNCHANGED <<mqttVars, pubVars, subVars, losses, failures, alive>>

-----------------------------------------------------------------------------
(* Commands to the bus: postMsgsToEII, one thread per queue *)

Goto(q, s) == pc' = [pc EXCEPT ![q] = s]

\* Fault: the topic does not say the class.
TopicNoClass(q, c) == [op |-> c.op, rt |-> FALSE, point |-> c.point]

\* mapMqttToEMBTopic: class, operation, point.
TopicOf(q, c) == [op |-> c.op, rt |-> q.rt, point |-> c.point]

Topic(q) == TopicOf(q, commands[hand[q]])

\* The rest of the process after a step on the bus: a context that has been
\* destroyed may still do, or end the process.
Touch(bus) == alive' = TRUE \/ (bus = "gone" /\ alive' = FALSE)

\* Fault: the newest command first.
TakeNewest(q) ==
  /\ hand' = [hand EXCEPT ![q] = queue[q][Len(queue[q])]]
  /\ queue' = [queue EXCEPT ![q] = SubSeq(@, 1, Len(@) - 1)]

\* getSubMsgFromQ
TakeOldest(q) ==
  /\ hand' = [hand EXCEPT ![q] = Head(queue[q])]
  /\ queue' = [queue EXCEPT ![q] = Tail(@)]

\* isMsgArrived: with one consumer for each queue, and no clear or breakWaitOnQ
\* here, the queue is never empty.
Take(q) ==
  /\ alive /\ mainPc.step = "join" /\ pc[q] = "wait" /\ sem[q] > 0
  /\ sem' = [sem EXCEPT ![q] = @ - 1]
  /\ TakeOldest(q)
  /\ Goto(q, "prepare")
  /\ UNCHANGED <<mqttVars, commands, new, ctxMap, pubMap, pubBus, made, published, failed,
                 subVars, losses, failures, alive>>

\* prepareContext: isPubTopicPresentInMap reads the map without its lock;
\* isTopicUnique says yes to every topic.
Prepare(q) ==
  /\ alive /\ pc[q] = "prepare"
  /\ Goto(q, CASE Topic(q) \in DOMAIN pubMap -> "publish"
               [] Topic(q) \notin DOMAIN pubMap /\ pubBus = "none" -> "remove"
               [] OTHER -> "create")
  /\ UNCHANGED <<mqttVars, commands, queue, sem, hand, new, ctxMap, pubMap, pubBus, made,
                 published, failed, subVars, losses, failures, alive>>

Create(q) ==   \* msgbus_publisher_new
  /\ alive /\ pc[q] = "create"
  /\ Touch(pubBus)
  /\ \/ /\ made' = Append(made, Topic(q))
        /\ new' = [new EXCEPT ![q] = Len(made) + 1]
        /\ Goto(q, "insertCtx") /\ UNCHANGED failures
     \/ /\ failures < MaxFailures /\ failures' = failures + 1
        /\ Goto(q, "remove") /\ UNCHANGED <<made, new>>
  /\ UNCHANGED <<mqttVars, commands, queue, sem, hand, ctxMap, pubMap, pubBus, published,
                 failed, subVars, losses>>

InsertCtx(q) ==
  /\ alive /\ pc[q] = "insertCtx"
  /\ ctxMap' = ctxMap \cup {Topic(q)}
  /\ Goto(q, "insertPub")
  /\ UNCHANGED <<mqttVars, commands, queue, sem, hand, new, pubMap, pubBus, made, published,
                 failed, subVars, losses, failures, alive>>

InsertPub(q) ==   \* the map keeps the publisher that it has
  /\ alive /\ pc[q] = "insertPub"
  /\ pubMap' = [t \in DOMAIN pubMap \cup {Topic(q)} |->
                  IF t \in DOMAIN pubMap THEN pubMap[t] ELSE new[q]]
  /\ new' = [new EXCEPT ![q] = Nobody]
  /\ Goto(q, "publish")
  /\ UNCHANGED <<mqttVars, commands, queue, sem, hand, ctxMap, pubBus, made, published,
                 failed, subVars, losses, failures, alive>>

Remove(q) ==   \* the error path of prepareContext ...
  /\ alive /\ pc[q] = "remove"
  /\ ctxMap' = ctxMap \ {Topic(q)}
  /\ Goto(q, IF pubBus = "none" THEN "publish" ELSE "destroy")
  /\ UNCHANGED <<mqttVars, commands, queue, sem, hand, new, pubMap, pubBus, made, published,
                 failed, subVars, losses, failures, alive>>

\* ... destroys the context of all topics; g_pubCtxCfg keeps its address.
Destroy(q) ==
  /\ alive /\ pc[q] = "destroy"
  /\ Touch(pubBus) /\ pubBus' = "gone"
  /\ Goto(q, "publish")
  /\ UNCHANGED <<mqttVars, commands, queue, sem, hand, new, ctxMap, pubMap, made, published,
                 failed, subVars, losses, failures>>

\* Fault: what publishEIIMsg throws ends the thread.
CatchNot(q) == Goto(q, "ended")

Catch(q) == Goto(q, "wait")

\* publishEIIMsg: a nested value throws before the topic's context is looked up.
Publish(q) ==
  /\ alive /\ pc[q] = "publish"
  /\ LET c == hand[q]
         t == Topic(q) IN
     \/ /\ commands[c].body = "nested"
        /\ UNCHANGED <<published, failed, failures, alive>>
        /\ Catch(q)
     \/ /\ commands[c].body # "nested" /\ t \notin ctxMap \cap DOMAIN pubMap   \* at() throws
        /\ failed' = failed \cup {c}
        /\ UNCHANGED <<published, failures, alive>>
        /\ Catch(q)
     \/ /\ commands[c].body # "nested" /\ t \in ctxMap \cap DOMAIN pubMap
        /\ Touch(pubBus)
        /\ \/ /\ published' = [published EXCEPT ![t] = Append(@, [command |-> c, pub |-> pubMap[t]])]
              /\ UNCHANGED <<failed, failures>>
           \/ /\ failures < MaxFailures /\ failures' = failures + 1
              /\ failed' = failed \cup {c}
              /\ UNCHANGED published
        /\ Goto(q, "wait")
  /\ hand' = [hand EXCEPT ![q] = Nobody]
  /\ UNCHANGED <<mqttVars, commands, queue, sem, new, ctxMap, pubMap, pubBus, made, subVars,
                 losses>>

Poster(q) == \/ Take(q) \/ Prepare(q) \/ Create(q) \/ InsertCtx(q) \/ InsertPub(q)
             \/ Remove(q) \/ Destroy(q) \/ Publish(q)

-----------------------------------------------------------------------------
(* Replies: prepareCommonContext("sub"), postMsgstoMQTT and listenOnEII *)

Step(s, n) == mainPc' = [step |-> s, next |-> n]
SubRest == UNCHANGED <<mqttVars, commands, queue, sem, pubVars, losses>>
This == SubTopics[mainPc.next]

\* msgbus_subscriber_new; a failure destroys the context of all topics, which
\* the next ones use nevertheless.  At the end main listens on all of them,
\* whatever became of each.
SubscribeBus ==
  /\ alive /\ mainPc.step = "subscribe"
  /\ IF mainPc.next > Len(SubTopics)
     THEN Step("listen", 1) /\ UNCHANGED <<subMap, subBus, failures, alive>>
     ELSE /\ Step("subscribe", mainPc.next + 1)
          /\ Touch(subBus)
          /\ \/ subMap' = subMap \cup {This} /\ UNCHANGED <<subBus, failures>>
             \/ /\ failures < MaxFailures /\ failures' = failures + 1
                /\ subBus' = "gone" /\ UNCHANGED subMap
  /\ SubRest /\ UNCHANGED <<replies, arrived>>

\* Fault: a topic without context is passed over.
Missing == Step("listen", mainPc.next + 1) /\ UNCHANGED alive

\* at() throws; main returns and the process ends.
NotThere == UNCHANGED mainPc /\ alive' = FALSE

Listen ==
  /\ alive /\ mainPc.step = "listen"
  /\ \/ /\ mainPc.next > Len(SubTopics)
        /\ Step("join", mainPc.next) /\ UNCHANGED alive
     \/ /\ mainPc.next <= Len(SubTopics) /\ This \in subMap
        /\ Step("listen", mainPc.next + 1) /\ UNCHANGED alive
     \/ /\ mainPc.next <= Len(SubTopics) /\ This \notin subMap
        /\ NotThere
  /\ SubRest /\ UNCHANGED <<subMap, subBus, replies, arrived, failures>>

Listening(t) == t \in subMap /\
  \E i \in DOMAIN SubTopics :
    SubTopics[i] = t /\ (mainPc.step = "join" \/ (mainPc.step = "listen" /\ i < mainPc.next))

Reply(t) ==
  /\ arrived < MaxReplies /\ arrived' = arrived + 1
  /\ replies' = [replies EXCEPT ![t] = @ + 1]
  /\ SubRest /\ UNCHANGED <<mainPc, subMap, subBus, failures, alive>>

\* processMsg and createNPubMsg: forwarded, or dropped if there is no data_topic or
\* no connection.  A msgbus_recv_wait that fails is repeated.
Forward(t) ==
  /\ alive /\ Listening(t) /\ replies[t] > 0
  /\ Touch(subBus)
  /\ \/ replies' = [replies EXCEPT ![t] = @ - 1] /\ UNCHANGED failures
     \/ failures < MaxFailures /\ failures' = failures + 1 /\ UNCHANGED replies
  /\ SubRest /\ UNCHANGED <<mainPc, subMap, subBus, arrived>>

-----------------------------------------------------------------------------
Main == SubscribeBus \/ Listen

Next ==
  \/ Connect \/ Lose \/ Subscriber \/ Receive
  \/ \E q \in Queues : Poster(q)
  \/ Main
  \/ \E t \in SubTopicSet : Reply(t) \/ Forward(t)

Spec == Init /\ [][Next]_vars

\* Every thread runs; nothing makes the broker come back or commands arrive.
FairSpec ==
  /\ Spec
  /\ WF_vars(Subscriber) /\ WF_vars(Main)
  /\ \A q \in Queues : WF_vars(Poster(q))
  /\ \A t \in SubTopicSet : WF_vars(Forward(t))

-----------------------------------------------------------------------------
(* Correctness. *)

\* A topic has one publisher, though nothing between the test of prepareContext
\* and the insertion keeps two threads from creating one each, and whoever finds
\* it finds its context: no two threads publish on one topic.
OnePublisher ==
  /\ \A i, j \in Pubs : made[i] = made[j] => i = j
  /\ DOMAIN pubMap \subseteq ctxMap

\* The commands of a topic are published once each and in the order in which
\* they came, and each on the topic of its point, operation and class.
InOrder ==
  \A t \in Topics : \A i \in DOMAIN published[t] :
    LET c == published[t][i].command IN
    /\ QueueOf(commands[c]) = [op |-> t.op, rt |-> t.rt] /\ commands[c].point = t.point
    /\ \A j \in DOMAIN published[t] : i < j => c < published[t][j].command

\* A good command is published or its failure written to the log, whatever
\* becomes of those before it (postMsgsToEII).
Delivered ==
  \A c \in 1..MaxCommands :
    (c \in DOMAIN commands /\ Accepted(commands[c]) /\ commands[c].body = "good")
      ~> (\/ \E t \in Topics : \E i \in DOMAIN published[t] : published[t][i].command = c
          \/ c \in failed \/ ~alive)

\* After every connection that lasts the topics are subscribed to, as the broker
\* has forgotten them (handleConnSuccessThread).
SubscribedAgain == up ~> (subs = Ops \/ ~up \/ ~alive)

\* Replies are received on every topic that is configured, unless the process
\* ends (postMsgstoMQTT, listenOnEII).
EveryReplyTaken ==
  \A t \in SubTopicSet : replies[t] > 0 ~> (replies[t] = 0 \/ ~alive)

\* "Common message bus context used for zmq communication": what a topic's
\* publisher publishes with is not destroyed because another topic has none.
CommonContextStays == pubMap # <<>> => pubBus = "live"
=============================================================================
