------------------------------ MODULE Bridge_proofs ------------------------------
(***************************************************************************)
(* Theorems about Bridge, for any points, commands, topics and bounds.     *)
(***************************************************************************)
EXTENDS Bridge, TLAPS

-----------------------------------------------------------------------------
(* Queues *)

\* A command is put in at the end, and the others stay where they are.
LEMMA AppendFacts ==
  ASSUME NEW S, NEW s \in Seq(S), NEW e \in S
  PROVE  /\ Append(s, e) \in Seq(S)
         /\ Len(Append(s, e)) = Len(s) + 1
         /\ DOMAIN Append(s, e) = 1..(Len(s) + 1) /\ DOMAIN s = 1..Len(s) /\ Len(s) \in Nat
         /\ \A i \in 1..Len(s) : Append(s, e)[i] = s[i]
         /\ Append(s, e)[Len(s) + 1] = e
  OBVIOUS

\* The first one is taken out, and the others move up.
LEMMA TailFacts ==
  ASSUME NEW S, NEW s \in Seq(S), s # <<>>
  PROVE  /\ Head(s) \in S /\ Head(s) = s[1]
         /\ Tail(s) \in Seq(S)
         /\ Len(s) \in Nat \ {0} /\ DOMAIN s = 1..Len(s)
         /\ Len(Tail(s)) = Len(s) - 1 /\ DOMAIN Tail(s) = 1..(Len(s) - 1)
         /\ \A i \in 1..(Len(s) - 1) : Tail(s)[i] = s[i + 1]
  OBVIOUS

\* A sequence of some things is one of more things.
LEMMA SeqGrows ==
  ASSUME NEW S, NEW T, S \subseteq T, NEW s \in Seq(S)
  PROVE  s \in Seq(T)
  OBVIOUS

-----------------------------------------------------------------------------
(* Type correctness.  A poster reads the command at hand, which is there   *)
(* and of its queue, and InsertPub the publisher that Create has made.     *)

Fits(q, c) == c \in DOMAIN commands /\ QueueOf(commands[c]) = q
QueueFits == \A q \in Queues : \A i \in DOMAIN queue[q] : Fits(q, queue[q][i])
HandFits  == \A q \in Queues : pc[q] # "wait" => Fits(q, hand[q])
NewMade   == \A q \in Queues : pc[q] \in {"insertCtx", "insertPub"} =>
               new[q] \in Pubs /\ made[new[q]] = Topic(q)
RepliesFew == \A t \in SubTopicSet : replies[t] <= arrived

TInv == TypeOK /\ QueueFits /\ HandFits /\ NewMade /\ RepliesFew

\* Nothing has arrived, nobody is at work.
LEMMA InitTInv == Init => TInv
<1> SUFFICES ASSUME Init PROVE TInv
  OBVIOUS
<1>1. MqttTypes /\ QueueTypes /\ PosterTypes
  <2>1. MqttTypes
    BY DEF Init, MqttTypes
  <2>2. QueueTypes
    BY DEF Init, QueueTypes
  <2>3. PosterTypes
    BY DEF Init, PosterTypes
  <2> QED
    BY <2>1, <2>2, <2>3
<1>2. BusTypes /\ PublishedTypes
  BY DEF Init, BusTypes, PublishedTypes
<1>3. ReplyTypes
  <2>1. Len(SubTopics) \in Nat /\ 0 \in 0..MaxReplies
    BY BridgeAssumption
  <2> QED
    BY <2>1 DEF Init, ReplyTypes
<1>4. EnvTypes
  BY BridgeAssumption DEF Init, EnvTypes
<1>5. QueueFits /\ HandFits /\ NewMade /\ RepliesFew
  BY DEF Init, QueueFits, HandFits, NewMade, RepliesFew
<1> QED
  BY <1>1, <1>2, <1>3, <1>4, <1>5 DEF TInv, TypeOK

\* The steps of the connection change its variables only.
LEMMA MqttTInv == TInv /\ (Connect \/ Lose \/ Subscriber) => TInv'
<1> SUFFICES ASSUME TInv, Connect \/ Lose \/ Subscriber PROVE TInv'
  OBVIOUS
<1>1. UNCHANGED <<commands, queue, sem, pubVars, subVars, failures, alive>>
  BY DEF Connect, Lose, Subscriber, SubWait, Subscribe
<1>2. MqttTypes' /\ EnvTypes'
  <2> USE BridgeAssumption DEF TInv, TypeOK, MqttTypes, EnvTypes
  <2>1. CASE Connect
    BY <2>1 DEF Connect, Connected
  <2>2. CASE Lose
    <3>1. losses \in 0..MaxLosses /\ losses < MaxLosses /\ MaxLosses \in Nat /\ losses' = losses + 1
      BY <2>2 DEF Lose
    <3>2. up' = FALSE /\ subs' = {} /\ UNCHANGED <<connSem, subPc, failures, alive>>
      BY <2>2 DEF Lose
    <3>3. MqttTypes'
      BY <3>2
    <3>4. EnvTypes'
      BY <3>1, <3>2
    <3> QED
      BY <3>3, <3>4
  <2>3. CASE SubWait
    BY <2>3 DEF SubWait
  <2>4. ASSUME NEW op \in Ops, NEW then \in {"wait", "write"}, Subscribe(op, then) PROVE MqttTypes' /\ EnvTypes'
    BY <2>4 DEF Subscribe
  <2> QED
    BY <2>1, <2>2, <2>3, <2>4 DEF Subscriber, Ops
<1>3. (QueueTypes /\ PosterTypes /\ BusTypes /\ PublishedTypes /\ ReplyTypes)'
  BY <1>1 DEF TInv, TypeOK, QueueTypes, PosterTypes, BusTypes, PublishedTypes, ReplyTypes, pubVars, subVars, Pubs
<1>4. (QueueFits /\ HandFits /\ NewMade /\ RepliesFew)'
  BY <1>1 DEF TInv, QueueFits, HandFits, NewMade, RepliesFew, Fits, Topic, pubVars, subVars, Pubs
<1> QED
  BY <1>2, <1>3, <1>4 DEF TInv, TypeOK

\* A command arrives: those that are there stay what they are.
LEMMA ReceiveTInv == TInv /\ Receive => TInv'
<1> SUFFICES ASSUME TInv, Receive PROVE TInv'
  OBVIOUS
<1>1. UNCHANGED <<mqttVars, pubVars, subVars, losses, failures, alive>>
  BY DEF Receive
<1>2. PICK c \in Commands :
        /\ commands' = Append(commands, c)
        /\ \/ Accepted(c) /\ Push(QueueOf(c), Len(commands) + 1)
           \/ UNCHANGED <<queue, sem>>
  BY DEF Receive
<1>3. /\ commands' \in Seq(Commands) /\ DOMAIN commands = 1..Len(commands) /\ Len(commands) \in Nat
      /\ DOMAIN commands' = 1..(Len(commands) + 1)
      /\ (\A i \in DOMAIN commands : commands'[i] = commands[i]) /\ commands'[Len(commands) + 1] = c
  BY <1>2, AppendFacts DEF TInv, TypeOK, QueueTypes
<1>4. DOMAIN commands \subseteq DOMAIN commands' /\ Len(commands) + 1 \in DOMAIN commands'
  BY <1>3
<1>5. /\ MqttTypes' /\ BusTypes' /\ ReplyTypes' /\ EnvTypes' /\ RepliesFew'
  BY <1>1 DEF TInv, TypeOK, MqttTypes, BusTypes, ReplyTypes, EnvTypes, RepliesFew, mqttVars, pubVars, subVars, Pubs
<1>6. PosterTypes'
  BY <1>1, <1>4 DEF TInv, TypeOK, PosterTypes, pubVars, Pubs
<1>7. PublishedTypes'
  <2>1. Pubs' = Pubs
    BY <1>1 DEF pubVars, Pubs
  <2> DEFINE Old == [command : DOMAIN commands, pub : Pubs]
             Now == [command : DOMAIN commands', pub : Pubs]
  <2>2. Old \subseteq Now
    BY <1>4
  <2>3. \A t \in Topics : published[t] \in Seq([command : DOMAIN commands', pub : Pubs])
    <3>1. \A t \in Topics : published[t] \in Seq(Old)
      BY DEF TInv, TypeOK, PublishedTypes
    <3> HIDE DEF Old, Now
    <3>2. \A t \in Topics : published[t] \in Seq(Now)
      BY <2>2, <3>1, SeqGrows
    <3> QED
      BY <3>2 DEF Now
  <2> QED
    BY <1>1, <1>4, <2>1, <2>3 DEF TInv, TypeOK, PublishedTypes, pubVars
<1>8. HandFits' /\ NewMade'
  <2>1. \A q \in Queues : pc[q] # "wait" => commands'[hand[q]] = commands[hand[q]] /\ hand[q] \in DOMAIN commands'
    BY <1>3, <1>4 DEF TInv, HandFits, Fits
  <2> QED
    BY <1>1, <2>1 DEF TInv, HandFits, NewMade, Fits, Topic, pubVars, Pubs
<1>9. \A q \in Queues : queue[q] \in Seq(DOMAIN commands')
  BY <1>4, SeqGrows DEF TInv, TypeOK, QueueTypes
<1>10. \A q \in Queues : \A i \in DOMAIN queue[q] :
         queue[q][i] \in DOMAIN commands' /\ QueueOf(commands'[queue[q][i]]) = q
  BY <1>3, <1>4 DEF TInv, QueueFits, Fits
<1>11. CASE UNCHANGED <<queue, sem>>
  <2>1. QueueTypes' /\ QueueFits'
    BY <1>3, <1>9, <1>10, <1>11 DEF TInv, TypeOK, QueueTypes, QueueFits, Fits
  <2> QED
    BY <1>5, <1>6, <1>7, <1>8, <2>1 DEF TInv, TypeOK
<1>12. CASE Accepted(c) /\ Push(QueueOf(c), Len(commands) + 1)
  <2> DEFINE p == QueueOf(c)
  <2>1. p \in Queues
    BY <1>12, BridgeAssumption DEF Accepted, QueueOf, Queues, IsRealTime, Ops, Command
  <2>2. /\ queue' = [queue EXCEPT ![p] = Append(@, Len(commands) + 1)]
        /\ sem' = [sem EXCEPT ![p] = @ + 1]
    BY <1>12 DEF Push
  <2>3. /\ queue[p] \in Seq(DOMAIN commands') /\ sem[p] = Len(queue[p]) /\ queue' \in [Queues -> Seq(DOMAIN commands')]
        /\ \A q \in Queues : q # p => queue'[q] = queue[q] /\ sem'[q] = sem[q] /\ sem[q] = Len(queue[q]) /\ sem[q] \in Nat
    BY <1>4, <1>9, <2>1, <2>2, AppendFacts DEF TInv, TypeOK, QueueTypes
  <2>4. /\ Len(queue'[p]) = Len(queue[p]) + 1 /\ DOMAIN queue'[p] = 1..(Len(queue[p]) + 1)
        /\ DOMAIN queue[p] = 1..Len(queue[p]) /\ Len(queue[p]) \in Nat
        /\ (\A i \in 1..Len(queue[p]) : queue'[p][i] = queue[p][i])
        /\ queue'[p][Len(queue[p]) + 1] = Len(commands) + 1 /\ sem'[p] = sem[p] + 1
    BY <1>4, <2>1, <2>2, <2>3, AppendFacts DEF TInv, TypeOK, QueueTypes
  <2>5. QueueTypes'
    BY <1>3, <2>1, <2>2, <2>3, <2>4 DEF TInv, TypeOK, QueueTypes
  <2>6. QueueFits'
    <3>1. ASSUME NEW q \in Queues, NEW i \in DOMAIN queue'[q]
          PROVE  queue'[q][i] \in DOMAIN commands' /\ QueueOf(commands'[queue'[q][i]]) = q
      <4>1. CASE q # p
        BY <1>10, <2>3, <4>1
      <4>2. CASE q = p /\ i \in DOMAIN queue[p]
        BY <1>10, <2>4, <4>2
      <4>3. CASE q = p /\ i = Len(queue[p]) + 1
        BY <1>3, <1>4, <2>4, <4>3
      <4> QED
        BY <2>4, <4>1, <4>2, <4>3
    <3> QED
      BY <3>1 DEF QueueFits, Fits
  <2> QED
    BY <1>5, <1>6, <1>7, <1>8, <2>5, <2>6 DEF TInv, TypeOK
<1> QED
  BY <1>2, <1>11, <1>12

\* Replies come and go, and main subscribes.
LEMMA RepliesTInv == TInv /\ (Main \/ \E t \in SubTopicSet : Reply(t) \/ Forward(t)) => TInv'
<1> SUFFICES ASSUME TInv, Main \/ \E t \in SubTopicSet : Reply(t) \/ Forward(t) PROVE TInv'
  OBVIOUS
<1> USE BridgeAssumption
<1>1. UNCHANGED <<mqttVars, commands, queue, sem, pubVars, losses>>
  BY DEF Main, SubscribeBus, Listen, Reply, Forward, SubRest
<1>2. (MqttTypes /\ QueueTypes /\ PosterTypes /\ BusTypes /\ PublishedTypes /\ QueueFits /\ HandFits /\ NewMade)'
  BY <1>1 DEF TInv, TypeOK, MqttTypes, QueueTypes, PosterTypes, BusTypes, PublishedTypes, mqttVars, pubVars, Pubs,
     QueueFits, HandFits, NewMade, Fits, Topic
<1>3. Len(SubTopics) \in Nat /\ mainPc.next \in Nat
  BY DEF TInv, TypeOK, ReplyTypes
<1>4. CASE SubscribeBus
  <2>1. UNCHANGED <<replies, arrived>>
    BY <1>4 DEF SubscribeBus
  <2>2. CASE mainPc.next > Len(SubTopics)
    <3>1. UNCHANGED <<subMap, subBus, failures, alive>> /\ mainPc' = [step |-> "listen", next |-> 1]
      BY <1>4, <2>2 DEF SubscribeBus, Step
    <3> QED
      BY <1>1, <1>2, <1>3, <2>1, <3>1 DEF TInv, TypeOK, ReplyTypes, RepliesFew, EnvTypes
  <2>3. CASE mainPc.next <= Len(SubTopics)
    <3>1. /\ mainPc' = [step |-> "subscribe", next |-> mainPc.next + 1] /\ alive' \in BOOLEAN
          /\ subMap' = subMap \/ subMap' = subMap \cup {SubTopics[mainPc.next]}
          /\ subBus' = subBus \/ subBus' = "gone"
          /\ failures' = failures \/ (failures < MaxFailures /\ failures' = failures + 1)
      <4>1. /\ Step("subscribe", mainPc.next + 1) /\ Touch(subBus)
            /\ \/ subMap' = subMap \cup {This} /\ UNCHANGED <<subBus, failures>>
               \/ /\ failures < MaxFailures /\ failures' = failures + 1
                  /\ subBus' = "gone" /\ UNCHANGED subMap
        <5>1. ~(mainPc.next > Len(SubTopics))
          BY <1>3, <2>3
        <5> QED
          BY <1>4, <5>1, Zenon DEF SubscribeBus
      <4> QED
        BY <4>1 DEF Step, Touch, This
    <3>2. mainPc.next \in DOMAIN SubTopics
      BY <1>3, <2>3 DEF TInv, TypeOK, ReplyTypes
    <3>3. subMap' \subseteq SubTopicSet /\ subBus' \in {"none", "live", "gone"}
      BY <3>1, <3>2 DEF SubTopicSet, TInv, TypeOK, ReplyTypes
    <3>4. mainPc' \in [step : {"subscribe", "listen", "join"}, next : 1..(Len(SubTopics) + 1)]
      BY <1>3, <2>3, <3>1, <3>2
    <3>5. EnvTypes'
      BY <1>1, <3>1 DEF TInv, TypeOK, EnvTypes
    <3> QED
      BY <1>2, <2>1, <3>3, <3>4, <3>5 DEF TInv, TypeOK, ReplyTypes, RepliesFew
  <2> QED
    BY <1>3, <2>2, <2>3
<1>5. CASE Listen
  <2>1. UNCHANGED <<subMap, subBus, replies, arrived, failures, losses>> /\ alive' \in BOOLEAN
    BY <1>5 DEF Listen, SubRest, NotThere, TInv, TypeOK, EnvTypes
  <2>2. \/ UNCHANGED mainPc
        \/ mainPc.next > Len(SubTopics) /\ mainPc' = [step |-> "join", next |-> mainPc.next]
        \/ mainPc.next <= Len(SubTopics) /\ mainPc' = [step |-> "listen", next |-> mainPc.next + 1]
    BY <1>5 DEF Listen, Step, NotThere
  <2>3. mainPc' \in [step : {"subscribe", "listen", "join"}, next : 1..(Len(SubTopics) + 1)]
    BY <1>3, <2>2 DEF TInv, TypeOK, ReplyTypes
  <2> QED
    BY <1>2, <2>1, <2>3 DEF TInv, TypeOK, ReplyTypes, EnvTypes, RepliesFew
<1>6. ASSUME NEW t \in SubTopicSet, Reply(t) PROVE TInv'
  <2>1. UNCHANGED <<mainPc, subMap, subBus, failures, alive, losses>> /\ arrived < MaxReplies
        /\ arrived' = arrived + 1 /\ replies' = [replies EXCEPT ![t] = @ + 1]
    BY <1>6 DEF Reply, SubRest
  <2>2. replies \in [SubTopicSet -> 0..MaxReplies] /\ arrived \in 0..MaxReplies /\ MaxReplies \in Nat
        /\ \A u \in SubTopicSet : replies[u] <= arrived
    BY DEF TInv, TypeOK, ReplyTypes, RepliesFew
  <2>3. arrived' \in 0..MaxReplies /\ replies' \in [SubTopicSet -> 0..MaxReplies]
        /\ \A u \in SubTopicSet : replies'[u] <= arrived'
    BY <2>1, <2>2
  <2> QED
    BY <1>2, <2>1, <2>3 DEF TInv, TypeOK, ReplyTypes, EnvTypes, RepliesFew
<1>7. ASSUME NEW t \in SubTopicSet, Forward(t) PROVE TInv'
  <2>1. UNCHANGED <<mainPc, subMap, subBus, arrived, losses>> /\ replies[t] > 0 /\ alive' \in BOOLEAN
    BY <1>7 DEF Forward, SubRest, Touch
  <2>2. replies \in [SubTopicSet -> 0..MaxReplies] /\ arrived \in 0..MaxReplies /\ MaxReplies \in Nat
        /\ \A u \in SubTopicSet : replies[u] <= arrived
    BY DEF TInv, TypeOK, ReplyTypes, RepliesFew
  <2>3. failures' \in 0..MaxFailures
    BY <1>7 DEF Forward, TInv, TypeOK, EnvTypes
  <2>4. replies' \in [SubTopicSet -> 0..MaxReplies] /\ \A u \in SubTopicSet : replies'[u] <= arrived
    BY <1>7, <2>1, <2>2, SMTT(60) DEF Forward
  <2> QED
    BY <1>2, <2>1, <2>3, <2>4 DEF TInv, TypeOK, ReplyTypes, EnvTypes, RepliesFew
<1> QED
  BY <1>4, <1>5, <1>6, <1>7 DEF Main

\* What a poster leaves alone.
LEMMA PosterFrame ==
  ASSUME NEW q \in Queues, Poster(q), TInv
  PROVE  /\ UNCHANGED <<mqttVars, commands, subVars, losses>>
         /\ (MqttTypes /\ ReplyTypes /\ RepliesFew)'
<1>1. UNCHANGED <<mqttVars, commands, subVars, losses>>
  BY DEF Poster, Take, Prepare, Create, InsertCtx, InsertPub, Remove, Destroy, Publish
<1> QED
  BY <1>1 DEF mqttVars, subVars, TInv, TypeOK, MqttTypes, ReplyTypes, RepliesFew

\* The topic of the command at hand.
LEMMA TopicFacts ==
  ASSUME TInv, NEW q \in Queues, pc[q] # "wait"
  PROVE  /\ hand[q] \in DOMAIN commands /\ QueueOf(commands[hand[q]]) = q
         /\ Topic(q) \in Topics /\ Topic(q).op = q.op /\ Topic(q).rt = q.rt
         /\ Topic(q).point = commands[hand[q]].point
<1>1. hand[q] \in DOMAIN commands /\ QueueOf(commands[hand[q]]) = q
  BY DEF TInv, HandFits, Fits
<1>2. commands[hand[q]] \in Command
  BY <1>1, BridgeAssumption DEF TInv, TypeOK, QueueTypes
<1>3. commands[hand[q]].op = q.op /\ q.op \in Ops /\ q.rt \in BOOLEAN
  BY <1>1 DEF QueueOf, Queues
<1> QED
  BY <1>1, <1>2, <1>3 DEF Topic, TopicOf, Topics, Command

\* A poster takes the first command of its queue.
LEMMA TakeTInv == \A q \in Queues : TInv /\ Take(q) => TInv'
<1> SUFFICES ASSUME TInv, NEW q \in Queues, Take(q) PROVE TInv'
  OBVIOUS
<1>1. /\ UNCHANGED <<mqttVars, commands, new, ctxMap, pubMap, pubBus, made, published, failed,
                 subVars, losses, failures, alive>>
      /\ pc[q] = "wait" /\ sem[q] > 0 /\ sem' = [sem EXCEPT ![q] = @ - 1]
      /\ hand' = [hand EXCEPT ![q] = Head(queue[q])] /\ queue' = [queue EXCEPT ![q] = Tail(@)]
      /\ pc' = [pc EXCEPT ![q] = "prepare"]
  BY DEF Take, TakeOldest, Goto
<1>2. queue[q] \in Seq(DOMAIN commands) /\ queue[q] # <<>> /\ sem[q] = Len(queue[q])
  BY <1>1 DEF TInv, TypeOK, QueueTypes
<1>3. /\ Head(queue[q]) \in DOMAIN commands /\ Head(queue[q]) = queue[q][1]
      /\ Tail(queue[q]) \in Seq(DOMAIN commands) /\ Len(Tail(queue[q])) = Len(queue[q]) - 1
      /\ 1 \in DOMAIN queue[q] /\ Len(queue[q]) \in Nat \ {0}
      /\ \A i \in DOMAIN Tail(queue[q]) : i + 1 \in DOMAIN queue[q] /\ Tail(queue[q])[i] = queue[q][i + 1]
  <2> DEFINE S == DOMAIN commands
             w == queue[q]
  <2>1. w \in Seq(S) /\ w # <<>>
    BY <1>2
  <2> HIDE DEF S, w
  <2>2. /\ Head(w) \in S /\ Head(w) = w[1] /\ Tail(w) \in Seq(S) /\ Len(Tail(w)) = Len(w) - 1
        /\ 1 \in DOMAIN w /\ Len(w) \in Nat \ {0}
        /\ \A i \in DOMAIN Tail(w) : i + 1 \in DOMAIN w /\ Tail(w)[i] = w[i + 1]
    BY <2>1, TailFacts
  <2> QED
    BY <2>2 DEF S, w
<1>4. QueueTypes' /\ QueueFits'
  <2>1. queue \in [Queues -> Seq(DOMAIN commands)] /\ sem \in [Queues -> Nat]
    BY DEF TInv, TypeOK, QueueTypes
  <2>2. /\ queue'[q] = Tail(queue[q]) /\ sem'[q] = sem[q] - 1
        /\ \A p \in Queues : p # q => queue'[p] = queue[p] /\ sem'[p] = sem[p]
    BY <1>1, <2>1
  <2>3. QueueTypes'
    BY <1>1, <1>2, <1>3, <2>1, <2>2 DEF TInv, TypeOK, QueueTypes
  <2>4. ASSUME NEW p \in Queues, NEW i \in DOMAIN queue'[p] PROVE Fits(p, queue'[p][i])
    <3>1. CASE p = q
      <4>1. i \in DOMAIN Tail(queue[q]) /\ queue'[p][i] = Tail(queue[q])[i]
        BY <2>2, <3>1, Zenon
      <4>2. i + 1 \in DOMAIN queue[q] /\ queue'[p][i] = queue[q][i + 1]
        BY <1>3, <4>1, Zenon
      <4> QED
        BY <3>1, <4>2 DEF TInv, QueueFits
    <3>2. CASE p # q
      BY <2>2, <3>2 DEF TInv, QueueFits
    <3> QED
      BY <3>1, <3>2
  <2> QED
    BY <1>1, <2>3, <2>4 DEF QueueFits, Fits
<1>5. PosterTypes' /\ HandFits' /\ NewMade'
  <2>1. Fits(q, Head(queue[q]))
    BY <1>3 DEF TInv, QueueFits
  <2>2. PosterTypes'
    BY <1>1, <1>3 DEF TInv, TypeOK, PosterTypes, Pubs
  <2>3. HandFits'
    BY <1>1, <1>3, <2>1 DEF TInv, TypeOK, PosterTypes, HandFits, Fits
  <2>4. NewMade'
    BY <1>1, <1>3 DEF TInv, TypeOK, PosterTypes, NewMade, Topic, Pubs
  <2> QED
    BY <2>2, <2>3, <2>4
<1>6. (BusTypes /\ PublishedTypes /\ EnvTypes)'
  BY <1>1 DEF TInv, TypeOK, BusTypes, PublishedTypes, EnvTypes, Pubs
<1> QED
  BY <1>4, <1>5, <1>6, PosterFrame DEF TInv, TypeOK, Poster

\* A poster goes on, and the command at hand stays: what it does to the bus.
LEMMA PosterGoes ==
  ASSUME TInv, NEW q \in Queues, Poster(q), pc[q] # "wait", UNCHANGED <<queue, sem, hand, published, failed, new, made>>,
         NEW s \in {"create", "insertPub", "remove", "destroy", "publish"},
         pc' = [pc EXCEPT ![q] = s], s = "insertPub" => pc[q] = "insertCtx",
         BusTypes', EnvTypes'
  PROVE  TInv'
<1>1. UNCHANGED commands
  BY PosterFrame
<1>2. QueueTypes' /\ QueueFits'
  BY <1>1 DEF TInv, TypeOK, QueueTypes, QueueFits, Fits
<1>3. PosterTypes' /\ PublishedTypes'
  BY <1>1 DEF TInv, TypeOK, PosterTypes, PublishedTypes, Pubs
<1>4. HandFits' /\ NewMade'
  BY <1>1 DEF TInv, TypeOK, PosterTypes, HandFits, NewMade, Fits, Topic, Pubs
<1> QED
  BY <1>2, <1>3, <1>4, PosterFrame DEF TInv, TypeOK

\* The steps of prepareContext that make no publisher and put none in the map.
LEMMA PrepareTInv == \A q \in Queues : TInv /\ (Prepare(q) \/ InsertCtx(q) \/ Remove(q) \/ Destroy(q)) => TInv'
<1> SUFFICES ASSUME TInv, NEW q \in Queues, Prepare(q) \/ InsertCtx(q) \/ Remove(q) \/ Destroy(q) PROVE TInv'
  OBVIOUS
<1>1. UNCHANGED <<queue, sem, hand, published, failed, new, made, pubMap, failures, losses>> /\ Poster(q) /\ pc[q] # "wait"
  BY DEF Prepare, InsertCtx, Remove, Destroy, Poster
<1>2. Topic(q) \in Topics
  BY <1>1, TopicFacts
<1>3. BusTypes'
  BY <1>1, <1>2 DEF TInv, TypeOK, BusTypes, Prepare, InsertCtx, Remove, Destroy, Pubs
<1>4. EnvTypes'
  <2>1. alive' \in BOOLEAN
    BY DEF TInv, TypeOK, EnvTypes, Prepare, InsertCtx, Remove, Destroy, Touch
  <2> QED
    BY <1>1, <2>1 DEF TInv, TypeOK, EnvTypes
<1>5. \E s \in {"create", "insertPub", "remove", "destroy", "publish"} :
        pc' = [pc EXCEPT ![q] = s] /\ (s = "insertPub" => pc[q] = "insertCtx")
  BY DEF Prepare, InsertCtx, Remove, Destroy, Goto
<1> QED
  BY <1>1, <1>3, <1>4, <1>5, PosterGoes

\* A publisher is made or not.
LEMMA CreateTInv == \A q \in Queues : TInv /\ Create(q) => TInv'
<1> SUFFICES ASSUME TInv, NEW q \in Queues, Create(q) PROVE TInv'
  OBVIOUS
<1>1. /\ UNCHANGED <<mqttVars, commands, queue, sem, hand, ctxMap, pubMap, pubBus, published, failed, subVars, losses>>
      /\ pc[q] = "create" /\ Poster(q) /\ alive' \in BOOLEAN
  BY DEF Create, Touch, Poster
<1>2. CASE UNCHANGED <<made, new>> /\ pc' = [pc EXCEPT ![q] = "remove"]
           /\ failures < MaxFailures /\ failures' = failures + 1
  <2>1. BusTypes' /\ EnvTypes'
    BY <1>1, <1>2, BridgeAssumption DEF TInv, TypeOK, BusTypes, EnvTypes, Pubs
  <2> QED
    BY <1>1, <1>2, <2>1, PosterGoes
<1>3. CASE made' = Append(made, Topic(q)) /\ new' = [new EXCEPT ![q] = Len(made) + 1]
           /\ pc' = [pc EXCEPT ![q] = "insertCtx"] /\ UNCHANGED failures
  <2>1. Topic(q) \in Topics /\ made \in Seq(Topics)
    BY <1>1, TopicFacts DEF TInv, TypeOK, BusTypes
  <2>2. /\ made' \in Seq(Topics) /\ DOMAIN made = 1..Len(made) /\ DOMAIN made' = 1..(Len(made) + 1)
        /\ Len(made) \in Nat /\ (\A i \in 1..Len(made) : made'[i] = made[i]) /\ made'[Len(made) + 1] = Topic(q)
    BY <1>3, <2>1, AppendFacts
  <2>3. Pubs \subseteq Pubs' /\ Len(made) + 1 \in Pubs'
    BY <2>2 DEF Pubs
  <2>4. QueueTypes' /\ QueueFits'
    BY <1>1 DEF TInv, TypeOK, QueueTypes, QueueFits, Fits
  <2>5. PosterTypes'
    BY <1>1, <1>3, <2>3 DEF TInv, TypeOK, PosterTypes
  <2>6. BusTypes' /\ EnvTypes'
    BY <1>1, <1>3, <2>2, <2>3 DEF TInv, TypeOK, BusTypes, EnvTypes
  <2>7. PublishedTypes'
    <3> DEFINE Old == [command : DOMAIN commands, pub : Pubs]
               Now == [command : DOMAIN commands, pub : Pubs']
    <3>1. Old \subseteq Now
      BY <2>3
    <3>2. \A t \in Topics : published[t] \in Seq(Old)
      BY DEF TInv, TypeOK, PublishedTypes
    <3> HIDE DEF Old, Now
    <3>3. \A t \in Topics : published[t] \in Seq(Now)
      BY <3>1, <3>2, SeqGrows
    <3> QED
      BY <1>1, <3>3 DEF Now, TInv, TypeOK, PublishedTypes
  <2>8. HandFits'
    BY <1>1, <1>3 DEF TInv, TypeOK, PosterTypes, HandFits, Fits
  <2>9. NewMade'
    <3>1. \A p \in Queues : p # q => pc'[p] = pc[p] /\ new'[p] = new[p]
      BY <1>3 DEF TInv, TypeOK, PosterTypes
    <3>2. new'[q] = Len(made) + 1
      BY <1>3 DEF TInv, TypeOK, PosterTypes
    <3>3. \A p \in Queues : Topic(p)' = Topic(p)
      BY <1>1 DEF Topic
    <3>4. \A p \in Queues : p # q /\ pc[p] \in {"insertCtx", "insertPub"} =>
            new[p] \in DOMAIN made /\ made[new[p]] = Topic(p)
      BY DEF TInv, NewMade, Pubs
    <3> QED
      BY <2>2, <3>1, <3>2, <3>3, <3>4 DEF NewMade, Pubs
  <2> QED
    BY <1>1, <2>4, <2>5, <2>6, <2>7, <2>8, <2>9, PosterFrame DEF TInv, TypeOK
<1> QED
  BY <1>2, <1>3 DEF Create, Goto

\* The publisher is put in the map.
LEMMA InsertPubTInv == \A q \in Queues : TInv /\ InsertPub(q) => TInv'
<1> SUFFICES ASSUME TInv, NEW q \in Queues, InsertPub(q) PROVE TInv'
  OBVIOUS
<1>1. /\ UNCHANGED <<commands, queue, sem, hand, ctxMap, pubBus, made, published, failed, losses, failures, alive>>
      /\ pc[q] = "insertPub" /\ Poster(q)
      /\ pubMap' = [t \in DOMAIN pubMap \cup {Topic(q)} |-> IF t \in DOMAIN pubMap THEN pubMap[t] ELSE new[q]]
      /\ new' = [new EXCEPT ![q] = Nobody] /\ pc' = [pc EXCEPT ![q] = "publish"]
  BY DEF InsertPub, Poster, Goto
<1>2. Topic(q) \in Topics
  BY <1>1, TopicFacts
<1>3. new[q] \in Pubs
  BY <1>1 DEF TInv, NewMade
<1>4. BusTypes'
  BY <1>1, <1>2, <1>3 DEF TInv, TypeOK, BusTypes, Pubs
<1>5. (QueueTypes /\ QueueFits /\ PublishedTypes /\ EnvTypes)'
  BY <1>1 DEF TInv, TypeOK, QueueTypes, QueueFits, PublishedTypes, EnvTypes, Fits, Pubs
<1>6. PosterTypes'
  BY <1>1 DEF TInv, TypeOK, PosterTypes, Pubs
<1>7. HandFits' /\ NewMade'
  BY <1>1 DEF TInv, TypeOK, PosterTypes, HandFits, NewMade, Fits, Topic, Pubs
<1> QED
  BY <1>1, <1>4, <1>5, <1>6, <1>7, PosterFrame DEF TInv, TypeOK

\* The command is published, or its failure logged.
LEMMA PublishTInv == \A q \in Queues : TInv /\ Publish(q) => TInv'
<1> SUFFICES ASSUME TInv, NEW q \in Queues, Publish(q) PROVE TInv'
  OBVIOUS
<1>1. /\ UNCHANGED <<mqttVars, commands, queue, sem, new, ctxMap, pubMap, pubBus, made, subVars, losses>>
      /\ pc[q] = "publish" /\ pc' = [pc EXCEPT ![q] = "wait"] /\ hand' = [hand EXCEPT ![q] = Nobody]
      /\ failures' = failures \/ (failures < MaxFailures /\ failures' = failures + 1)
      /\ alive' = alive \/ Touch(pubBus)
      /\ failed' = failed \/ failed' = failed \cup {hand[q]}
      /\ \/ published' = published
         \/ /\ Topic(q) \in DOMAIN pubMap
            /\ published' = [published EXCEPT ![Topic(q)] =
                               Append(@, [command |-> hand[q], pub |-> pubMap[Topic(q)]])]
  BY DEF Publish, Catch, Goto
<1>2. hand[q] \in DOMAIN commands /\ Topic(q) \in Topics /\ Poster(q)
  BY <1>1, TopicFacts DEF Poster
<1>3. EnvTypes'
  <2>1. alive' \in BOOLEAN
    BY <1>1 DEF TInv, TypeOK, EnvTypes, Touch
  <2>2. failures \in 0..MaxFailures /\ MaxFailures \in Nat /\ losses' \in 0..MaxLosses
    BY <1>1, BridgeAssumption DEF TInv, TypeOK, EnvTypes
  <2>3. failures' \in 0..MaxFailures
    BY <1>1, <2>2
  <2> QED
    BY <2>1, <2>2, <2>3 DEF EnvTypes
<1>4. (QueueTypes /\ QueueFits /\ BusTypes)'
  BY <1>1 DEF TInv, TypeOK, QueueTypes, QueueFits, BusTypes, Fits, Pubs
<1>5. PosterTypes'
  BY <1>1 DEF TInv, TypeOK, PosterTypes, Pubs
<1>6. HandFits' /\ NewMade'
  BY <1>1 DEF TInv, TypeOK, PosterTypes, HandFits, NewMade, Fits, Topic, Pubs
<1>7. PublishedTypes'
  <2> DEFINE Rec == [command : DOMAIN commands, pub : Pubs]
  <2>1. published \in [Topics -> Seq(Rec)] /\ failed \subseteq DOMAIN commands
    BY DEF TInv, TypeOK, PublishedTypes
  <2>2. Topic(q) \in DOMAIN pubMap => [command |-> hand[q], pub |-> pubMap[Topic(q)]] \in Rec
    BY <1>2 DEF TInv, TypeOK, BusTypes
  <2>3. Rec' = Rec /\ failed' \subseteq DOMAIN commands
    BY <1>1, <1>2, <2>1 DEF Pubs
  <2> HIDE DEF Rec
  <2>4. published' \in [Topics -> Seq(Rec)]
    <3>1. CASE published' = published
      BY <2>1, <3>1
    <3>2. CASE /\ Topic(q) \in DOMAIN pubMap
               /\ published' = [published EXCEPT ![Topic(q)] =
                                  Append(@, [command |-> hand[q], pub |-> pubMap[Topic(q)]])]
      <4> DEFINE r == [command |-> hand[q], pub |-> pubMap[Topic(q)]]
                 t == Topic(q)
      <4>1. r \in Rec /\ t \in Topics /\ published' = [published EXCEPT ![t] = Append(published[t], r)]
        BY <1>2, <2>1, <2>2, <3>2
      <4> HIDE DEF r, t
      <4>2. Append(published[t], r) \in Seq(Rec)
        BY <2>1, <4>1, AppendFacts
      <4> QED
        BY <2>1, <4>1, <4>2
    <3> QED
      BY <1>1, <3>1, <3>2
  <2> QED
    BY <1>1, <2>3, <2>4 DEF PublishedTypes, Rec
<1> QED
  BY <1>2, <1>3, <1>4, <1>5, <1>6, <1>7, PosterFrame DEF TInv, TypeOK

\* A step that changes nothing.
LEMMA StutterTInv == TInv /\ UNCHANGED vars => TInv'
  BY DEF TInv, TypeOK, MqttTypes, QueueTypes, PosterTypes, BusTypes, PublishedTypes, ReplyTypes,
     EnvTypes, QueueFits, HandFits, NewMade, RepliesFew, Fits, Topic, Pubs, vars, mqttVars, pubVars, subVars

\* What the posters read is there.
LEMMA TInvHolds == Spec => []TInv
<1>1. TInv /\ [Next]_vars => TInv'
  BY MqttTInv, ReceiveTInv, RepliesTInv, TakeTInv, PrepareTInv, CreateTInv, InsertPubTInv,
     PublishTInv, StutterTInv DEF Next, Poster
<1> QED
  BY InitTInv, <1>1, PTL DEF Spec

\* Every variable keeps its type: a poster that is woken finds a command in its
\* queue, and the map holds publishers that were made.
THEOREM TypeCorrect == Spec => []TypeOK
<1>1. TInv => TypeOK
  BY DEF TInv
<1> QED
  BY TInvHolds, <1>1, PTL

-----------------------------------------------------------------------------
(* One publisher for a topic.  Prepare finds that a topic has none long     *)
(* before InsertPub puts it in the map.  In between no other poster asks,   *)
(* because the class and the operation in a topic say whose it is.          *)

Making(q) == pc[q] \in {"insertCtx", "insertPub"}
NotInMap == \A q \in Queues : pc[q] \in {"create", "insertCtx", "insertPub", "remove", "destroy"} =>
              Topic(q) \notin DOMAIN pubMap
MadeFor  == \A i \in Pubs : made[i] \in DOMAIN pubMap \/ \E q \in Queues : Making(q) /\ made[i] = Topic(q)
CtxFirst == \A q \in Queues : pc[q] = "insertPub" => Topic(q) \in ctxMap

PInv == OnePublisher /\ NotInMap /\ MadeFor /\ CtxFirst

\* Two posters never have the same topic at hand.
LEMMA TopicsApart ==
  ASSUME TInv, NEW p \in Queues, NEW q \in Queues, pc[p] # "wait", pc[q] # "wait", Topic(p) = Topic(q)
  PROVE  p = q
<1>1. p.op = q.op /\ p.rt = q.rt
  BY TopicFacts
<1> QED
  BY <1>1 DEF Queues

\* Steps of the posters keep to one publisher.
LEMMA PosterPInv == \A q \in Queues : TInv /\ PInv /\ Poster(q) => PInv'
<1> SUFFICES ASSUME TInv, PInv, NEW q \in Queues, Poster(q) PROVE PInv'
  OBVIOUS
<1>0. pc \in [Queues -> {"wait", "prepare", "create", "insertCtx", "insertPub", "remove", "destroy", "publish"}]
      /\ UNCHANGED commands
  BY PosterFrame DEF TInv, TypeOK, PosterTypes
<1>1. CASE Take(q)
  <2>1. /\ pc[q] = "wait" /\ pc' = [pc EXCEPT ![q] = "prepare"] /\ UNCHANGED <<made, ctxMap, pubMap>>
        /\ \A p \in Queues : p # q => Topic(p)' = Topic(p)
    BY <1>0, <1>1 DEF Take, TakeOldest, Goto, Topic, TInv, TypeOK, PosterTypes
  <2> QED
    BY <1>0, <2>1 DEF PInv, OnePublisher, NotInMap, MadeFor, CtxFirst, Making, Pubs
<1>2. CASE Publish(q)
  <2>1. /\ pc[q] = "publish" /\ pc' = [pc EXCEPT ![q] = "wait"] /\ UNCHANGED <<made, ctxMap, pubMap>>
        /\ \A p \in Queues : p # q => Topic(p)' = Topic(p)
    BY <1>0, <1>2 DEF Publish, Catch, Goto, Topic, TInv, TypeOK, PosterTypes
  <2> QED
    BY <1>0, <2>1 DEF PInv, OnePublisher, NotInMap, MadeFor, CtxFirst, Making, Pubs
<1>3. CASE ~(Take(q) \/ Publish(q))
  <2>1. \A p \in Queues : Topic(p)' = Topic(p)
    BY <1>0, <1>3 DEF Poster, Prepare, Create, InsertCtx, InsertPub, Remove, Destroy, Topic
  <2>2. \A p \in Queues : p # q => pc'[p] = pc[p]
    BY <1>0, <1>3 DEF Poster, Prepare, Create, InsertCtx, InsertPub, Remove, Destroy, Goto
  <2>3. CASE Prepare(q)
    <3>1. UNCHANGED <<made, ctxMap, pubMap>> /\ pc[q] = "prepare" /\ pc'[q] \in {"create", "remove", "publish"}
          /\ (pc'[q] # "publish" => Topic(q) \notin DOMAIN pubMap)
      BY <1>0, <2>3 DEF Prepare, Goto
    <3> QED
      BY <2>1, <2>2, <3>1 DEF PInv, OnePublisher, NotInMap, MadeFor, CtxFirst, Making, Pubs
  <2>4. CASE Destroy(q)
    <3>1. UNCHANGED <<made, ctxMap, pubMap>> /\ pc[q] = "destroy" /\ pc'[q] = "publish"
      BY <1>0, <2>4 DEF Destroy, Goto
    <3> QED
      BY <2>1, <2>2, <3>1 DEF PInv, OnePublisher, NotInMap, MadeFor, CtxFirst, Making, Pubs
  <2>5. CASE Create(q)
    <3>1. UNCHANGED <<ctxMap, pubMap>> /\ pc[q] = "create"
          /\ \/ UNCHANGED made /\ pc'[q] = "remove"
             \/ made' = Append(made, Topic(q)) /\ pc'[q] = "insertCtx"
      BY <1>0, <2>5 DEF Create, Goto
    <3>2. CASE UNCHANGED made /\ pc'[q] = "remove"
      BY <2>1, <2>2, <3>1, <3>2 DEF PInv, OnePublisher, NotInMap, MadeFor, CtxFirst, Making, Pubs
    <3>3. CASE made' = Append(made, Topic(q)) /\ pc'[q] = "insertCtx"
      <4>1. Topic(q) \in Topics /\ made \in Seq(Topics)
        BY <3>1, TopicFacts DEF TInv, TypeOK, BusTypes
      <4>2. /\ DOMAIN made = 1..Len(made) /\ DOMAIN made' = 1..(Len(made) + 1) /\ Len(made) \in Nat
            /\ (\A i \in 1..Len(made) : made'[i] = made[i]) /\ made'[Len(made) + 1] = Topic(q)
        BY <3>3, <4>1, AppendFacts
      <4>3. \A i \in DOMAIN made : made[i] # Topic(q)
        <5>1. Topic(q) \notin DOMAIN pubMap
          BY <3>1 DEF PInv, NotInMap
        <5>2. ASSUME NEW p \in Queues, Making(p) PROVE Topic(p) # Topic(q)
          BY <3>1, <5>2, TopicsApart DEF Making
        <5> QED
          BY <5>1, <5>2 DEF PInv, MadeFor, Pubs
      <4>4. OnePublisher'
        BY <3>1, <4>2, <4>3 DEF PInv, OnePublisher, Pubs
      <4>5. NotInMap' /\ CtxFirst'
        BY <2>1, <2>2, <3>1, <3>3 DEF PInv, NotInMap, CtxFirst
      <4>6. MadeFor'
        BY <2>1, <2>2, <3>1, <3>3, <4>2 DEF PInv, MadeFor, Making, Pubs
      <4> QED
        BY <4>4, <4>5, <4>6 DEF PInv
    <3> QED
      BY <3>1, <3>2, <3>3
  <2>6. CASE InsertCtx(q)
    <3>1. UNCHANGED <<made, pubMap>> /\ ctxMap' = ctxMap \cup {Topic(q)} /\ pc[q] = "insertCtx" /\ pc'[q] = "insertPub"
      BY <1>0, <2>6 DEF InsertCtx, Goto
    <3> QED
      BY <2>1, <2>2, <3>1 DEF PInv, OnePublisher, NotInMap, MadeFor, CtxFirst, Making, Pubs
  <2>7. CASE InsertPub(q)
    <3>1. UNCHANGED <<made, ctxMap>> /\ DOMAIN pubMap' = DOMAIN pubMap \cup {Topic(q)}
          /\ pc[q] = "insertPub" /\ pc'[q] = "publish"
      BY <1>0, <2>7 DEF InsertPub, Goto
    <3>2. NotInMap'
      <4>1. ASSUME NEW p \in Queues, pc'[p] \in {"create", "insertCtx", "insertPub", "remove", "destroy"}
            PROVE  Topic(p)' \notin DOMAIN pubMap'
        <5>1. p # q /\ pc[p] = pc'[p]
          BY <2>2, <3>1, <4>1
        <5>2. Topic(p) # Topic(q)
          BY <3>1, <4>1, <5>1, TopicsApart
        <5> QED
          BY <2>1, <3>1, <4>1, <5>1, <5>2 DEF PInv, NotInMap
      <4> QED
        BY <4>1 DEF NotInMap
    <3>3. OnePublisher' /\ CtxFirst'
      BY <2>1, <2>2, <3>1 DEF PInv, OnePublisher, CtxFirst, Pubs
    <3>4. MadeFor'
      BY <2>1, <2>2, <3>1 DEF PInv, MadeFor, Making, Pubs
    <3> QED
      BY <3>2, <3>3, <3>4 DEF PInv
  <2>8. CASE Remove(q)
    <3>1. UNCHANGED <<made, pubMap>> /\ ctxMap' = ctxMap \ {Topic(q)} /\ pc[q] = "remove"
          /\ pc'[q] \in {"publish", "destroy"}
      BY <1>0, <2>8 DEF Remove, Goto
    <3>2. Topic(q) \notin DOMAIN pubMap
      BY <3>1 DEF PInv, NotInMap
    <3>3. CtxFirst'
      <4>1. ASSUME NEW p \in Queues, pc'[p] = "insertPub" PROVE Topic(p)' \in ctxMap'
        <5>1. p # q /\ pc[p] = "insertPub"
          BY <2>2, <3>1, <4>1
        <5>2. Topic(p) # Topic(q)
          BY <3>1, <5>1, TopicsApart
        <5> QED
          BY <2>1, <3>1, <5>1, <5>2 DEF PInv, CtxFirst
      <4> QED
        BY <4>1 DEF CtxFirst
    <3>4. OnePublisher' /\ NotInMap' /\ MadeFor'
      BY <2>1, <2>2, <3>1, <3>2 DEF PInv, OnePublisher, NotInMap, MadeFor, Making, Pubs
    <3> QED
      BY <3>3, <3>4 DEF PInv
  <2> QED
    BY <1>3, <2>3, <2>4, <2>5, <2>6, <2>7, <2>8 DEF Poster
<1> QED
  BY <1>1, <1>2, <1>3

\* The other threads make no publisher; a command that arrives changes no topic.
LEMMA OtherPInv == TInv /\ PInv /\ [Next]_vars /\ ~(\E q \in Queues : Poster(q)) => PInv'
<1> SUFFICES ASSUME TInv, PInv, [Next]_vars, ~(\E q \in Queues : Poster(q)) PROVE PInv'
  OBVIOUS
<1>1. UNCHANGED <<pc, hand, made, ctxMap, pubMap>>
  BY DEF Next, vars, pubVars, Connect, Lose, Subscriber, SubWait, Subscribe, Receive, Main,
     SubscribeBus, Listen, Reply, Forward, SubRest
<1>2. \A q \in Queues : pc[q] # "wait" => Topic(q)' = Topic(q)
  <2>1. CASE Receive
    <3>1. \A i \in DOMAIN commands : commands'[i] = commands[i]
      <4>1. PICK c \in Commands : commands' = Append(commands, c)
        BY <2>1 DEF Receive
      <4> QED
        BY <4>1, AppendFacts DEF TInv, TypeOK, QueueTypes
    <3> QED
      BY <1>1, <3>1, TopicFacts DEF Topic
  <2>2. CASE ~Receive
    <3>1. UNCHANGED commands
      BY <2>2 DEF Next, vars, Connect, Lose, Subscriber, SubWait, Subscribe, Main,
         SubscribeBus, Listen, Reply, Forward, SubRest
    <3> QED
      BY <1>1, <3>1 DEF Topic
  <2> QED
    BY <2>1, <2>2
<1> QED
  BY <1>1, <1>2 DEF PInv, OnePublisher, NotInMap, MadeFor, CtxFirst, Making, Pubs

\* No topic ever has two publishers, and the context of one in the map is there.
THEOREM OnePublisherCorrect == Spec => []OnePublisher
<1>1. Init => PInv
  BY DEF Init, PInv, OnePublisher, NotInMap, MadeFor, CtxFirst, Pubs
<1>2. TInv /\ PInv /\ [Next]_vars => PInv'
  BY PosterPInv, OtherPInv
<1>3. PInv => OnePublisher
  BY DEF PInv
<1> QED
  BY <1>1, <1>2, <1>3, TInvHolds, PTL DEF Spec

-----------------------------------------------------------------------------
(* The order of commands.  A topic belongs to one queue, and what was       *)
(* published on it came before what is at hand and what still waits there.  *)

PubQueue(t) == [op |-> t.op, rt |-> t.rt]
PubRight == \A t \in Topics : \A i \in DOMAIN published[t] :
  /\ QueueOf(commands[published[t][i].command]) = PubQueue(t)
  /\ commands[published[t][i].command].point = t.point
PubOrder == \A t \in Topics : \A i, j \in DOMAIN published[t] :
  i < j => published[t][i].command < published[t][j].command
QueueOrder == \A q \in Queues : \A i, j \in DOMAIN queue[q] : i < j => queue[q][i] < queue[q][j]
HandFirst == \A q \in Queues : pc[q] # "wait" => \A i \in DOMAIN queue[q] : hand[q] < queue[q][i]
PubFirst == \A t \in Topics : \A i \in DOMAIN published[t] : \A q \in Queues : q = PubQueue(t) =>
  /\ \A k \in DOMAIN queue[q] : published[t][i].command < queue[q][k]
  /\ pc[q] # "wait" => published[t][i].command < hand[q]

OInv == PubRight /\ PubOrder /\ QueueOrder /\ HandFirst /\ PubFirst

\* The parts of OInv are those of InOrder.
LEMMA OInvInOrder == PubRight /\ PubOrder => InOrder
  BY DEF PubRight, PubOrder, InOrder, PubQueue

\* An element of a sequence over a set is a member of it.
LEMMA ElementFacts ==
  ASSUME NEW S, NEW s \in Seq(S), NEW i \in DOMAIN s
  PROVE  s[i] \in S
  OBVIOUS

\* What the queues and the topics hold are commands.
LEMMA CommandFacts ==
  ASSUME TInv
  PROVE  /\ DOMAIN commands = 1..Len(commands) /\ Len(commands) \in Nat
         /\ \A q \in Queues : \A i \in DOMAIN queue[q] : queue[q][i] \in DOMAIN commands
         /\ \A q \in Queues : pc[q] # "wait" => hand[q] \in DOMAIN commands
         /\ \A t \in Topics : \A i \in DOMAIN published[t] : published[t][i].command \in DOMAIN commands
<1>1. \A t \in Topics : \A i \in DOMAIN published[t] :
        published[t][i] \in [command : DOMAIN commands, pub : Pubs]
  <2> SUFFICES ASSUME NEW t \in Topics, NEW i \in DOMAIN published[t]
               PROVE  published[t][i] \in [command : DOMAIN commands, pub : Pubs]
    OBVIOUS
  <2> DEFINE Rec == [command : DOMAIN commands, pub : Pubs]
             s == published[t]
  <2>1. s \in Seq(Rec) /\ i \in DOMAIN s
    BY DEF TInv, TypeOK, PublishedTypes
  <2> HIDE DEF Rec, s
  <2>2. s[i] \in Rec
    BY <2>1, ElementFacts
  <2> QED
    BY <2>2 DEF Rec, s
<1> QED
  BY <1>1 DEF TInv, TypeOK, QueueTypes, QueueFits, HandFits, Fits

\* A command that arrives is the last of its queue.
LEMMA ReceiveOInv == TInv /\ OInv /\ Receive => OInv'
<1> SUFFICES ASSUME TInv, OInv, Receive PROVE OInv'
  OBVIOUS
<1>1. UNCHANGED <<pc, hand, published>>
  BY DEF Receive, pubVars
<1>2. PICK c \in Commands :
        /\ commands' = Append(commands, c)
        /\ \/ Accepted(c) /\ Push(QueueOf(c), Len(commands) + 1)
           \/ UNCHANGED <<queue, sem>>
  BY DEF Receive
<1>3. \A i \in DOMAIN commands : commands'[i] = commands[i]
  BY <1>2, AppendFacts DEF TInv, TypeOK, QueueTypes
<1>4. PubRight' /\ PubOrder'
  BY <1>1, <1>3, CommandFacts DEF OInv, PubRight, PubOrder, PubQueue
<1>5. CASE UNCHANGED queue
  BY <1>1, <1>4, <1>5 DEF OInv, QueueOrder, HandFirst, PubFirst
<1>6. CASE Accepted(c) /\ Push(QueueOf(c), Len(commands) + 1)
  <2> DEFINE p == QueueOf(c)
             n == Len(commands) + 1
  <2>1. p \in Queues
    BY <1>6, BridgeAssumption DEF Accepted, QueueOf, Queues, IsRealTime, Ops, Command
  <2>2. queue' = [queue EXCEPT ![p] = Append(@, n)] /\ queue \in [Queues -> Seq(DOMAIN commands)]
    BY <1>6 DEF Push, TInv, TypeOK, QueueTypes
  <2>3. \A q \in Queues : q # p => queue'[q] = queue[q]
    BY <2>1, <2>2
  <2>4. /\ DOMAIN queue[p] = 1..Len(queue[p]) /\ Len(queue[p]) \in Nat
        /\ DOMAIN queue'[p] = 1..(Len(queue[p]) + 1)
        /\ (\A i \in 1..Len(queue[p]) : queue'[p][i] = queue[p][i])
        /\ queue'[p][Len(queue[p]) + 1] = n
    <3> DEFINE S == Nat
    <3>1. n \in Nat /\ queue[p] \in Seq(Nat) /\ queue'[p] = Append(queue[p], n)
      <4>1. DOMAIN commands \subseteq Nat
        BY CommandFacts
      <4> QED
        BY <2>1, <2>2, <4>1, SeqGrows, CommandFacts
    <3> HIDE DEF p, n
    <3> QED
      BY <3>1, AppendFacts
  <2>5. n \in Nat /\ \A i \in DOMAIN commands : i < n /\ i \in Nat
    BY CommandFacts
  <2> HIDE DEF p, n
  <2>6. QueueOrder'
    <3>1. ASSUME NEW q \in Queues, NEW i \in DOMAIN queue'[q], NEW j \in DOMAIN queue'[q], i < j
          PROVE  queue'[q][i] < queue'[q][j]
      <4>1. CASE q # p
        BY <2>3, <3>1, <4>1 DEF OInv, QueueOrder
      <4>2. CASE q = p
        <5>1. i \in DOMAIN queue[p] /\ queue'[q][i] = queue[p][i]
          BY <2>4, <3>1, <4>2
        <5>2. CASE j \in DOMAIN queue[p]
          BY <2>1, <2>4, <3>1, <4>2, <5>1, <5>2 DEF OInv, QueueOrder
        <5>3. CASE j = Len(queue[p]) + 1
          BY <2>1, <2>4, <2>5, <4>2, <5>1, <5>3, CommandFacts
        <5> QED
          BY <2>4, <4>2, <5>2, <5>3
      <4> QED
        BY <4>1, <4>2
    <3> QED
      BY <3>1 DEF QueueOrder
  <2>7. ASSUME NEW q \in Queues, NEW i \in DOMAIN queue'[q]
        PROVE  (i \in DOMAIN queue[q] /\ queue'[q][i] = queue[q][i]) \/ queue'[q][i] = n
    <3>1. CASE q # p
      BY <2>3, <3>1
    <3>2. CASE q = p
      BY <2>4, <3>2
    <3> QED
      BY <3>1, <3>2
  <2>8. HandFirst'
    BY <1>1, <2>5, <2>7, CommandFacts DEF OInv, HandFirst
  <2>9. PubFirst'
    <3>1. ASSUME NEW t \in Topics, NEW i \in DOMAIN published[t], NEW q \in Queues, q = PubQueue(t),
                 NEW k \in DOMAIN queue'[q]
          PROVE  published[t][i].command < queue'[q][k]
      <4>1. published[t][i].command \in DOMAIN commands
        BY CommandFacts
      <4> QED
        BY <2>5, <2>7, <3>1, <4>1 DEF OInv, PubFirst
    <3> QED
      BY <1>1, <3>1 DEF OInv, PubFirst, PubQueue
  <2> QED
    BY <1>4, <2>6, <2>8, <2>9 DEF OInv
<1> QED
  BY <1>2, <1>5, <1>6

\* The first command of the queue comes next.
LEMMA TakeOInv == \A q \in Queues : TInv /\ OInv /\ Take(q) => OInv'
<1> SUFFICES ASSUME TInv, OInv, NEW q \in Queues, Take(q) PROVE OInv'
  OBVIOUS
<1>1. /\ UNCHANGED <<commands, published>> /\ pc[q] = "wait" /\ sem[q] > 0
      /\ hand' = [hand EXCEPT ![q] = Head(queue[q])] /\ queue' = [queue EXCEPT ![q] = Tail(@)]
      /\ pc' = [pc EXCEPT ![q] = "prepare"]
  BY DEF Take, TakeOldest, Goto
<1>2. queue \in [Queues -> Seq(DOMAIN commands)] /\ queue[q] # <<>>
      /\ queue[q] \in Seq(Nat) /\ hand \in [Queues -> DOMAIN commands \cup {Nobody}]
  <2>1. DOMAIN commands \subseteq Nat
    BY CommandFacts
  <2> QED
    BY <1>1, <2>1, SeqGrows DEF TInv, TypeOK, QueueTypes, PosterTypes
<1>3. /\ hand'[q] = queue[q][1] /\ 1 \in DOMAIN queue[q]
      /\ \A i \in DOMAIN queue'[q] :
           i \in Nat /\ 1 < i + 1 /\ i + 1 \in DOMAIN queue[q] /\ queue'[q][i] = queue[q][i + 1]
  <2> DEFINE w == queue[q]
             v == queue'[q]
  <2>1. w \in Seq(Nat) /\ w # <<>> /\ v = Tail(w) /\ hand'[q] = Head(w)
    BY <1>1, <1>2 DEF TInv, TypeOK, PosterTypes
  <2> HIDE DEF w, v
  <2>2. /\ hand'[q] = w[1] /\ 1 \in DOMAIN w
        /\ \A i \in DOMAIN v : i \in Nat /\ 1 < i + 1 /\ i + 1 \in DOMAIN w /\ v[i] = w[i + 1]
    BY <2>1, TailFacts
  <2> QED
    BY <2>2 DEF w, v
<1>4. \A p \in Queues : p # q => queue'[p] = queue[p] /\ hand'[p] = hand[p] /\ pc'[p] = pc[p]
  BY <1>1, <1>2 DEF TInv, TypeOK, PosterTypes
<1>5. PubRight' /\ PubOrder'
  BY <1>1 DEF OInv, PubRight, PubOrder, PubQueue
<1>6. QueueOrder'
  <2>1. ASSUME NEW p \in Queues, NEW i \in DOMAIN queue'[p], NEW j \in DOMAIN queue'[p], i < j
        PROVE  queue'[p][i] < queue'[p][j]
    <3>1. CASE p # q
      BY <1>4, <2>1, <3>1 DEF OInv, QueueOrder
    <3>2. CASE p = q
      <4>1. i + 1 \in DOMAIN queue[q] /\ j + 1 \in DOMAIN queue[q] /\ i + 1 < j + 1
            /\ queue'[p][i] = queue[q][i + 1] /\ queue'[p][j] = queue[q][j + 1]
        BY <1>3, <2>1, <3>2
      <4> QED
        BY <4>1 DEF OInv, QueueOrder
    <3> QED
      BY <3>1, <3>2
  <2> QED
    BY <2>1 DEF QueueOrder
<1>7. HandFirst'
  <2>1. ASSUME NEW p \in Queues, pc'[p] # "wait", NEW i \in DOMAIN queue'[p]
        PROVE  hand'[p] < queue'[p][i]
    <3>1. CASE p # q
      BY <1>4, <2>1, <3>1 DEF OInv, HandFirst
    <3>2. CASE p = q
      BY <1>3, <3>2 DEF OInv, QueueOrder
    <3> QED
      BY <3>1, <3>2
  <2> QED
    BY <2>1 DEF HandFirst
<1>8. PubFirst'
  <2>1. ASSUME NEW t \in Topics, NEW i \in DOMAIN published[t], NEW p \in Queues, p = PubQueue(t)
        PROVE  /\ \A k \in DOMAIN queue'[p] : published[t][i].command < queue'[p][k]
               /\ pc'[p] # "wait" => published[t][i].command < hand'[p]
    <3>1. CASE p # q
      BY <1>4, <2>1, <3>1 DEF OInv, PubFirst
    <3>2. CASE p = q
      BY <1>3, <2>1, <3>2, ZenonT(60) DEF OInv, PubFirst
    <3> QED
      BY <3>1, <3>2
  <2> QED
    BY <1>1, <2>1 DEF PubFirst, PubQueue
<1> QED
  BY <1>5, <1>6, <1>7, <1>8 DEF OInv

\* The command at hand goes behind those that were published on its topic.
LEMMA PublishOInv == \A q \in Queues : TInv /\ OInv /\ Publish(q) => OInv'
<1> SUFFICES ASSUME TInv, OInv, NEW q \in Queues, Publish(q) PROVE OInv'
  OBVIOUS
<1>1. /\ UNCHANGED <<commands, queue>> /\ pc[q] = "publish"
      /\ pc' = [pc EXCEPT ![q] = "wait"] /\ hand' = [hand EXCEPT ![q] = Nobody]
      /\ \/ published' = published
         \/ \E b \in Pubs : published' = [published EXCEPT ![Topic(q)] = Append(@, [command |-> hand[q], pub |-> b])]
  BY DEF Publish, Catch, Goto, TInv, TypeOK, BusTypes
<1>2. \A p \in Queues : p # q => hand'[p] = hand[p] /\ pc'[p] = pc[p]
  BY <1>1 DEF TInv, TypeOK, PosterTypes
<1>3. pc'[q] = "wait" /\ QueueOrder' /\ HandFirst'
  BY <1>1, <1>2 DEF TInv, TypeOK, PosterTypes, OInv, QueueOrder, HandFirst
<1>4. CASE published' = published
  BY <1>1, <1>2, <1>3, <1>4 DEF OInv, PubRight, PubOrder, PubFirst, PubQueue
<1>5. ASSUME NEW b \in Pubs, published' = [published EXCEPT ![Topic(q)] = Append(@, [command |-> hand[q], pub |-> b])]
      PROVE OInv'
  <2> DEFINE t == Topic(q)
             r == [command |-> hand[q], pub |-> b]
             Rec == [command : DOMAIN commands, pub : Pubs]
  <2>1. /\ t \in Topics /\ r \in Rec /\ r.command = hand[q] /\ PubQueue(t) = q
        /\ QueueOf(commands[hand[q]]) = q /\ commands[hand[q]].point = t.point
    BY <1>1, TopicFacts DEF PubQueue, Queues
  <2>2. published \in [Topics -> Seq(Rec)] /\ published' = [published EXCEPT ![t] = Append(@, r)]
    BY <1>5 DEF TInv, TypeOK, PublishedTypes
  <2> HIDE DEF t, r, Rec
  <2>3. /\ \A u \in Topics : u # t => published'[u] = published[u]
        /\ DOMAIN published[t] = 1..Len(published[t]) /\ Len(published[t]) \in Nat
        /\ DOMAIN published'[t] = 1..(Len(published[t]) + 1)
        /\ (\A i \in 1..Len(published[t]) : published'[t][i] = published[t][i])
        /\ published'[t][Len(published[t]) + 1] = r
    BY <2>1, <2>2, AppendFacts
  <2>4. ASSUME NEW u \in Topics, NEW i \in DOMAIN published'[u]
        PROVE  \/ i \in DOMAIN published[u] /\ published'[u][i] = published[u][i]
               \/ u = t /\ i = Len(published[t]) + 1 /\ published'[u][i] = r
    BY <2>3
  <2>5. PubRight'
    <3>1. ASSUME NEW u \in Topics, NEW i \in DOMAIN published'[u]
          PROVE  /\ QueueOf(commands[published'[u][i].command]) = PubQueue(u)
                 /\ commands[published'[u][i].command].point = u.point
      <4>1. CASE i \in DOMAIN published[u] /\ published'[u][i] = published[u][i]
        BY <4>1 DEF OInv, PubRight
      <4>2. CASE u = t /\ published'[u][i] = r
        BY <2>1, <4>2
      <4> QED
        BY <2>4, <4>1, <4>2
    <3> QED
      BY <1>1, <3>1 DEF PubRight, PubQueue, QueueOf
  <2>6. PubOrder'
    <3>1. ASSUME NEW u \in Topics, NEW i \in DOMAIN published'[u], NEW j \in DOMAIN published'[u], i < j
          PROVE  published'[u][i].command < published'[u][j].command
      <4>1. CASE j \in DOMAIN published[u] /\ published'[u][j] = published[u][j]
        <5>1. i \in DOMAIN published[u] /\ published'[u][i] = published[u][i]
          BY <2>3, <3>1, <4>1
        <5> QED
          BY <3>1, <4>1, <5>1 DEF OInv, PubOrder
      <4>2. CASE u = t /\ j = Len(published[t]) + 1 /\ published'[u][j] = r
        <5>1. i \in DOMAIN published[t] /\ published'[u][i] = published[t][i]
          BY <2>3, <3>1, <4>2
        <5>2. published[t][i].command < hand[q]
          BY <1>1, <2>1, <5>1 DEF OInv, PubFirst
        <5> QED
          BY <2>1, <4>2, <5>1, <5>2
      <4> QED
        BY <2>4, <4>1, <4>2
    <3> QED
      BY <3>1 DEF PubOrder
  <2>7. PubFirst'
    <3>1. ASSUME NEW u \in Topics, NEW i \in DOMAIN published'[u], NEW p \in Queues, p = PubQueue(u)
          PROVE  /\ \A k \in DOMAIN queue[p] : published'[u][i].command < queue[p][k]
                 /\ pc'[p] # "wait" => published'[u][i].command < hand'[p]
      <4>1. CASE i \in DOMAIN published[u] /\ published'[u][i] = published[u][i]
        BY <1>2, <1>3, <3>1, <4>1 DEF OInv, PubFirst
      <4>2. CASE u = t /\ published'[u][i] = r
        BY <1>1, <1>3, <2>1, <3>1, <4>2 DEF OInv, HandFirst
      <4> QED
        BY <2>4, <4>1, <4>2
    <3> QED
      BY <1>1, <3>1 DEF PubFirst, PubQueue
  <2> QED
    BY <1>3, <2>5, <2>6, <2>7 DEF OInv
<1> QED
  BY <1>1, <1>4, <1>5

\* The other steps move no command.
LEMMA OtherOInv ==
  TInv /\ OInv /\ [Next]_vars /\ ~Receive /\ ~(\E q \in Queues : Take(q) \/ Publish(q)) => OInv'
<1> SUFFICES ASSUME TInv, OInv, [Next]_vars, ~Receive, ~(\E q \in Queues : Take(q) \/ Publish(q)) PROVE OInv'
  OBVIOUS
<1>1. UNCHANGED <<commands, queue, hand, published>>
  BY DEF Next, vars, pubVars, Connect, Lose, Subscriber, SubWait, Subscribe, Main,
     SubscribeBus, Listen, Reply, Forward, SubRest, Poster, Prepare, Create, InsertCtx, InsertPub, Remove, Destroy
<1>2. \A p \in Queues : pc'[p] # "wait" => pc[p] # "wait"
  <2>1. CASE UNCHANGED pc
    BY <2>1
  <2>2. ASSUME NEW q \in Queues, Prepare(q) \/ Create(q) \/ InsertCtx(q) \/ InsertPub(q) \/ Remove(q) \/ Destroy(q)
        PROVE <1>2!:
    <3>1. pc[q] # "wait" /\ \E s : pc' = [pc EXCEPT ![q] = s]
      BY <2>2 DEF Prepare, Create, InsertCtx, InsertPub, Remove, Destroy, Goto
    <3> QED
      BY <3>1 DEF TInv, TypeOK, PosterTypes
  <2> QED
    BY <2>1, <2>2 DEF Next, vars, pubVars, Connect, Lose, Subscriber, SubWait, Subscribe, Main,
     SubscribeBus, Listen, Reply, Forward, SubRest, Poster
<1> QED
  BY <1>1, <1>2 DEF OInv, PubRight, PubOrder, QueueOrder, HandFirst, PubFirst, PubQueue

\* The commands of a topic reach the bus in the order in which they came, each on
\* the topic of its own point, operation and class.
THEOREM InOrderCorrect == Spec => []InOrder
<1>1. Init => OInv
  BY DEF Init, OInv, PubRight, PubOrder, QueueOrder, HandFirst, PubFirst
<1>2. TInv /\ OInv /\ [Next]_vars => OInv'
  BY ReceiveOInv, TakeOInv, PublishOInv, OtherOInv
<1>3. OInv => InOrder
  BY OInvInOrder DEF OInv
<1> QED
  BY <1>1, <1>2, <1>3, TInvHolds, PTL DEF Spec
=============================================================================
