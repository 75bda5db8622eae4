---------------------------- MODULE SparkplugNode ----------------------------
(***************************************************************************)
(* The Sparkplug edge node of the sparkplug-bridge (SCADAHandler.cpp,      *)
(* SparkPlugDevMgr.cpp, SparkPlugDevices.cpp, Main.cpp): what it tells the *)
(* SCADA host about itself and its devices.  Five threads publish or cause *)
(* publications:                                                           *)
(*   birth   after every connection to the SCADA broker, and on request:   *)
(*           NBIRTH, then a DBIRTH for every device                        *)
(*   lost    the internal broker was lost: a DDEATH for every device       *)
(*   est     the internal broker is back: a DBIRTH where one is due        *)
(*   msg     messages of the internal broker: births, deaths and data      *)
(*   ext     messages of the SCADA broker: the rebirth command             *)
(* They share the status of the devices, which they read and set in steps  *)
(* of their own, and a flag that says whether the node is initialised.     *)
(*                                                                         *)
(* A device is a real (Modbus) device of the configuration or a device of  *)
(* the one vendor application.  Its metrics are one value, 0 or 1.         *)
(***************************************************************************)
EXTENDS Naturals, Sequences, FiniteSets, SequencesExt

CONSTANTS
  Devices,       \* the devices that m_mapSparkPlugDev may hold
  Vendor,        \* those of the vendor application
  Numbers,       \* message numbers are counted modulo Numbers (256 in the code)
  MaxLosses,     \* bound: connections to the SCADA broker that are lost
  MaxFails,      \* bound: attempts to connect to it that fail
  MaxIntLosses,  \* bound: connections to the internal broker that are lost
  MaxMsgs,       \* bound: messages of the internal broker
  MaxRebirths    \* bound: rebirth commands

ASSUME NodeAssumption ==
  /\ "udt" \notin Devices   \* names what a message about UDTs is about: Subjects
  /\ IsFiniteSet(Devices) /\ Vendor \subseteq Devices
  /\ Numbers \in Nat \ {0}
  /\ {MaxLosses, MaxFails, MaxIntLosses, MaxMsgs, MaxRebirths} \subseteq Nat

VARIABLES
  up,         \* m_MQTTClient.isConnected(), the SCADA broker
  callbacks,  \* callbacks of the MQTT library to come, in order
  losses, fails,
  bdSeq,      \* m_uiBDSeq
  init,       \* m_bIsInitDone
  semBirth,   \* m_semSCADAConnSuccess
  intUp, intFresh, intLosses, lossOwed, estOwed, semLost, semEst, \* IntLink
  devs,       \* keys of m_mapSparkPlugDev
  known,      \* m_enLastKnownStateFromDev
  pub,        \* m_enLastStatetPublishedToSCADA
  val,        \* the values in m_mapMetrics
  udts,       \* definitions in CSparkPlugUDTManager
  seq,        \* payload_sequence
  birth, lost, est, msg, ext, \* the threads
  msgs, rebirths,
  host,       \* what the SCADA host has been told (external)
  crossed     \* devices whose status may be off: see Observe

extVars  == <<up, callbacks, losses, fails>>
nodeVars == <<bdSeq, init, semBirth>>
intVars  == <<intUp, intFresh, intLosses, lossOwed, estOwed, semLost, semEst>>
devVars  == <<devs, known, pub, val, udts>>
pubVars  == <<seq, host>>
threads  == <<birth, lost, est, msg, ext>>
counts   == <<msgs, rebirths>>
vars == <<extVars, nodeVars, intVars, devVars, pubVars, threads, counts, crossed>>

Subjects == Devices \cup {"udt"}  \* what messages are about

Status == {"none", "up", "down"}

TypeOK ==
  /\ up \in BOOLEAN /\ callbacks \in Seq({"connected", "disconnected"})
  /\ losses \in 0..MaxLosses /\ fails \in 0..MaxFails
  /\ bdSeq \in 0..(MaxLosses + MaxFails) /\ init \in BOOLEAN /\ semBirth \in Nat
  /\ intUp \in BOOLEAN /\ intFresh \in BOOLEAN /\ intLosses \in 0..MaxIntLosses
  /\ {lossOwed, estOwed, semLost, semEst} \subseteq 0..(MaxIntLosses + 1)
  /\ devs \subseteq Devices /\ Devices \ Vendor \subseteq devs
  /\ known \in [Devices -> Status] /\ pub \in [Devices -> Status]
  /\ val \in [Devices -> {0, 1}] /\ udts \in {0, 1}
  /\ seq \in 0..(Numbers - 1)
  /\ birth.pc \in {"wait", "node", "nbirth", "list", "prep", "send", "mark", "init"}
  /\ lost.pc \in {"wait", "link", "init", "send", "mark"}
  /\ est.pc \in {"wait", "init", "prep", "send", "mark"}
  /\ msg.pc \in {"wait", "decide", "check", "act", "send", "mark", "clear", "post"}
  /\ ext \in {"wait", "clear", "post"}
  /\ msgs \in 0..MaxMsgs /\ rebirths \in 0..MaxRebirths
  /\ host.on \in BOOLEAN /\ host.seq \in 0..(Numbers - 1) /\ host.alive \subseteq Devices
  /\ crossed \subseteq Subjects

NoBirth == [pc |-> "wait", todo |-> {}, val |-> 0, bd |-> 0, udts |-> 0]
Idle == [pc |-> "wait", todo |-> {}, val |-> 0]

\* The host: a node without devices, or none.
NoNode == [on |-> FALSE, seq |-> 0, bd |-> 0, udts |-> 0, alive |-> {},
           val |-> [d \in Devices |-> 0]]

\* on: the devices of the message; acts: stRefActionVec
NoMessage == [pc |-> "wait", on |-> {}, changes |-> "none", acts |-> <<>>, val |-> 0]

StartUp ==
  /\ up = FALSE /\ callbacks = <<>>
  /\ bdSeq = 0 /\ init = FALSE /\ semBirth = 0
  /\ intUp = FALSE /\ intFresh = TRUE
  /\ lossOwed = 0 /\ estOwed = 0 /\ semLost = 0 /\ semEst = 0
  /\ devs = Devices \ Vendor
  /\ known = [d \in Devices |-> "none"] /\ pub = [d \in Devices |-> "none"]
  /\ val = [d \in Devices |-> 0] /\ udts = 0
  /\ seq = 0 /\ host = NoNode
  /\ birth = NoBirth /\ lost = Idle /\ est = Idle /\ msg = NoMessage /\ ext = "wait"
  /\ crossed = {}

Init ==
  /\ StartUp
  /\ losses = 0 /\ fails = 0 /\ intLosses = 0 /\ msgs = 0 /\ rebirths = 0

-----------------------------------------------------------------------------
(* The SCADA broker and its host *)

\* The library reconnects by itself, once it has reported what happened before.
LinkUp ==
  /\ ~up /\ callbacks = <<>>
  /\ up' = TRUE
  /\ callbacks' = <<"connected">>
  /\ UNCHANGED <<losses, fails, nodeVars, intVars, devVars, pubVars, threads, counts>>

LinkFails ==
  /\ ~up /\ callbacks = <<>> /\ fails < MaxFails
  /\ fails' = fails + 1
  /\ callbacks' = <<"disconnected">>
  /\ UNCHANGED <<up, losses, nodeVars, intVars, devVars, pubVars, threads, counts>>

\* The broker sends the will of the node; the host forgets its devices.
LinkLost ==
  /\ up /\ losses < MaxLosses
  /\ up' = FALSE
  /\ losses' = losses + 1
  /\ callbacks' = Append(callbacks, "disconnected")
  /\ host' = NoNode
  /\ UNCHANGED <<fails, nodeVars, intVars, devVars, seq, threads, counts>>

\* Fault: a node that is initialised is not born again.
ConnectedIfNotInit ==
  /\ callbacks # <<>> /\ Head(callbacks) = "connected"
  /\ callbacks' = Tail(callbacks)
  /\ semBirth' = IF init THEN semBirth ELSE semBirth + 1
  /\ UNCHANGED <<up, losses, fails, bdSeq, init, intVars, devVars, pubVars, threads, counts>>

\* Fault: a connection counts for bdSeq like a disconnection.
ConnectedCounts ==
  /\ callbacks # <<>> /\ Head(callbacks) = "connected"
  /\ callbacks' = Tail(callbacks)
  /\ semBirth' = semBirth + 1 /\ bdSeq' = bdSeq + 1
  /\ UNCHANGED <<up, losses, fails, init, intVars, devVars, pubVars, threads, counts>>

Connected ==
  /\ callbacks # <<>> /\ Head(callbacks) = "connected"
  /\ callbacks' = Tail(callbacks)
  /\ semBirth' = semBirth + 1
  /\ UNCHANGED <<up, losses, fails, bdSeq, init, intVars, devVars, pubVars, threads, counts>>

\* ++m_uiBDSeq; setInitStatus(false).  The will of the next connection is set
\* too, but the options it is set in are only used by the first connect().
Disconnected ==
  /\ callbacks # <<>> /\ Head(callbacks) = "disconnected"
  /\ callbacks' = Tail(callbacks)
  /\ bdSeq' = bdSeq + 1
  /\ init' = FALSE
  /\ UNCHANGED <<up, losses, fails, semBirth, intVars, devVars, pubVars, threads, counts>>

\* publishSparkplugMsg: numbers and publishes a message under one mutex.  A
\* publication without a connection does nothing and reports success.
Publish(number, heard) ==
  /\ seq' = number
  /\ host' = IF up THEN heard ELSE host

NextNumber == (seq + 1) % Numbers

Hears(h) == [h EXCEPT !.seq = (@ + 1) % Numbers]  \* the number the host expects

\* Fault: the number is not reset.
PublishNBirthNumbered(bd, defs) ==
  Publish(NextNumber, [NoNode EXCEPT !.on = TRUE, !.bd = bd, !.udts = defs])

PublishNBirth(bd, defs) ==
  Publish(0, [NoNode EXCEPT !.on = TRUE, !.bd = bd, !.udts = defs])

\* A host without an NBIRTH ignores what it is told of devices.
PublishDevice(d, alive, value) ==
  Publish(NextNumber, IF host.on
                        THEN [Hears(host) EXCEPT !.alive = IF alive THEN @ \cup {d} ELSE @ \ {d},
                                                 !.val[d] = value]
                        ELSE host)

\* The host uses data only of a device whose DBIRTH it has.
PublishData(d, value) ==
  Publish(NextNumber, IF ~host.on THEN host
                      ELSE IF d \in host.alive THEN [Hears(host) EXCEPT !.val[d] = value]
                      ELSE Hears(host))

-----------------------------------------------------------------------------
(* The internal broker, as far as CIntMqttHandler promises *)

Internal == INSTANCE IntLink WITH
  MaxLosses <- MaxIntLosses, up <- intUp, fresh <- intFresh, losses <- intLosses

IntLinkStep ==
  /\ Internal!Next
  /\ UNCHANGED <<extVars, nodeVars, devVars, pubVars, threads, counts>>

-----------------------------------------------------------------------------
(* Device status *)

\* The threads walk through a copy of the list of devices, in the order of the
\* map.  No property depends on that order: any choice of the next one will do.
First(S) == CHOOSE d \in S : TRUE
Rest(S)  == S \ {First(S)}

\* prepareDBirthMessage, under the mutex of the metrics.
BirthDue(d, nodeBirth) == known[d] # "down" /\ (nodeBirth \/ pub[d] # "up")

SetPublished(d, s) ==
  /\ pub' = [pub EXCEPT ![d] = s]
  /\ UNCHANGED <<devs, known, val, udts>>

-----------------------------------------------------------------------------
(* handleSCADAConnectionSuccessThread *)

BirthOnly == UNCHANGED <<extVars, bdSeq, intVars, lost, est, msg, ext, counts>>

BirthGoto(pc, todo) == [birth EXCEPT !.pc = pc, !.todo = todo]
BirthNext(todo)     == BirthGoto(IF todo = {} THEN "init" ELSE "prep", todo)

BirthWait ==
  /\ birth.pc = "wait" /\ semBirth > 0
  /\ semBirth' = semBirth - 1
  /\ birth' = BirthGoto("node", {})
  /\ BirthOnly /\ UNCHANGED <<init, devVars, pubVars>>

BirthNode ==  \* publish_node_birth composes its message ...
  /\ birth.pc = "node"
  /\ birth' = [birth EXCEPT !.pc = "nbirth", !.bd = bdSeq, !.udts = udts]
  /\ BirthOnly /\ UNCHANGED <<init, semBirth, devVars, pubVars>>

BirthNBirth ==  \* ... and publishes it
  /\ birth.pc = "nbirth"
  /\ PublishNBirth(birth.bd, birth.udts)
  /\ birth' = [birth EXCEPT !.pc = "list", !.bd = 0, !.udts = 0]
  /\ BirthOnly /\ UNCHANGED <<init, semBirth, devVars>>

BirthList ==
  /\ birth.pc = "list"
  /\ birth' = BirthNext(devs)
  /\ BirthOnly /\ UNCHANGED <<init, semBirth, devVars, pubVars>>

BirthPrep ==
  /\ birth.pc = "prep"
  /\ LET d == First(birth.todo) IN
       birth' = IF BirthDue(d, TRUE)
                  THEN [birth EXCEPT !.pc = "send", !.val = val[d]]
                  ELSE BirthNext(Rest(birth.todo))
  /\ BirthOnly /\ UNCHANGED <<init, semBirth, devVars, pubVars>>

BirthSend ==
  /\ birth.pc = "send"
  /\ PublishDevice(First(birth.todo), TRUE, birth.val)
  /\ birth' = [birth EXCEPT !.pc = "mark", !.val = 0]
  /\ BirthOnly /\ UNCHANGED <<init, semBirth, devVars>>

BirthMark ==
  /\ birth.pc = "mark"
  /\ SetPublished(First(birth.todo), "up")
  /\ birth' = BirthNext(Rest(birth.todo))
  /\ BirthOnly /\ UNCHANGED <<init, semBirth, pubVars>>

BirthInit ==
  /\ birth.pc = "init"
  /\ init' = TRUE
  /\ birth' = BirthGoto("wait", {})
  /\ BirthOnly /\ UNCHANGED <<semBirth, devVars, pubVars>>

BirthThread ==
  \/ BirthWait \/ BirthNode \/ BirthNBirth \/ BirthList
  \/ BirthPrep \/ BirthSend \/ BirthMark \/ BirthInit

-----------------------------------------------------------------------------
(* handleIntMQTTConnLostThread *)

LostOnly == UNCHANGED <<extVars, nodeVars, intUp, intFresh, intLosses, lossOwed, estOwed, semEst,
                        birth, est, msg, ext, counts>>

LostGoto(pc, todo) == [lost EXCEPT !.pc = pc, !.todo = todo]
LostNext(todo)     == LostGoto(IF todo = {} THEN "wait" ELSE "link", todo)

LostWait ==
  /\ lost.pc = "wait" /\ semLost > 0
  /\ semLost' = semLost - 1
  /\ lost' = LostNext(devs)
  /\ LostOnly /\ UNCHANGED <<devVars, pubVars>>

LostLink ==  \* no more DDEATH once the connection is back
  /\ lost.pc = "link"
  /\ lost' = IF intUp THEN LostNext({}) ELSE LostGoto("init", lost.todo)
  /\ LostOnly /\ UNCHANGED <<semLost, devVars, pubVars>>

LostInit ==
  /\ lost.pc = "init"
  /\ lost' = IF init THEN LostGoto("send", lost.todo) ELSE LostNext({})
  /\ LostOnly /\ UNCHANGED <<semLost, devVars, pubVars>>

LostSend ==
  /\ lost.pc = "send"
  /\ PublishDevice(First(lost.todo), FALSE, 0)
  /\ lost' = LostGoto("mark", lost.todo)
  /\ LostOnly /\ UNCHANGED <<semLost, devVars>>

LostMark ==
  /\ lost.pc = "mark"
  /\ SetPublished(First(lost.todo), "down")
  /\ lost' = LostNext(Rest(lost.todo))
  /\ LostOnly /\ UNCHANGED <<semLost, pubVars>>

LostThread == LostWait \/ LostLink \/ LostInit \/ LostSend \/ LostMark

-----------------------------------------------------------------------------
(* handleIntMQTTConnEstablishThread *)

EstOnly == UNCHANGED <<extVars, nodeVars, intUp, intFresh, intLosses, lossOwed, estOwed, semLost,
                       birth, lost, msg, ext, counts>>

EstGoto(pc, todo) == [est EXCEPT !.pc = pc, !.todo = todo]
EstNext(todo)     == EstGoto(IF todo = {} THEN "wait" ELSE "prep", todo)

EstWait ==
  /\ est.pc = "wait" /\ semEst > 0
  /\ semEst' = semEst - 1
  /\ est' = EstGoto("init", {})
  /\ EstOnly /\ UNCHANGED <<devVars, pubVars>>

EstInit ==
  /\ est.pc = "init"
  /\ est' = EstNext(IF init THEN devs ELSE {})
  /\ EstOnly /\ UNCHANGED <<semEst, devVars, pubVars>>

EstPrep ==
  /\ est.pc = "prep"
  /\ LET d == First(est.todo) IN
       est' = IF BirthDue(d, FALSE)
                THEN [est EXCEPT !.pc = "send", !.val = val[d]]
                ELSE EstNext(Rest(est.todo))
  /\ EstOnly /\ UNCHANGED <<semEst, devVars, pubVars>>

EstSend ==
  /\ est.pc = "send"
  /\ PublishDevice(First(est.todo), TRUE, est.val)
  /\ est' = [est EXCEPT !.pc = "mark", !.val = 0]
  /\ EstOnly /\ UNCHANGED <<semEst, devVars>>

\* Fault: the DBIRTH is not noted.
EstMarkNot ==
  /\ est.pc = "mark"
  /\ est' = EstNext(Rest(est.todo))
  /\ EstOnly /\ UNCHANGED <<semEst, devVars, pubVars>>

EstMark ==
  /\ est.pc = "mark"
  /\ SetPublished(First(est.todo), "up")
  /\ est' = EstNext(Rest(est.todo))
  /\ EstOnly /\ UNCHANGED <<semEst, pubVars>>

EstThread == EstWait \/ EstInit \/ EstPrep \/ EstSend \/ EstMark

-----------------------------------------------------------------------------
(* processInternalMqttMsgs: a message of the internal broker *)

MsgOnly == UNCHANGED <<extVars, bdSeq, intVars, birth, lost, est, ext, rebirths>>

Action(type, d)   == [type |-> type, dev |-> d]
Actions(types, d) == [i \in DOMAIN types |-> Action(types[i], d)]
MsgGoto(pc)     == [msg EXCEPT !.pc = pc]
MsgNext(acts)   == IF acts = <<>> THEN NoMessage
                                  ELSE [msg EXCEPT !.pc = "act", !.acts = acts, !.val = 0]

MsgTake ==
  /\ msg.pc = "wait" /\ msgs < MaxMsgs
  /\ msgs' = msgs + 1
  /\ MsgOnly /\ UNCHANGED <<init, semBirth, pubVars>>

Decided(on, acts) == [NoMessage EXCEPT !.pc = "check", !.on = on, !.acts = acts]

\* processRealDeviceUpdateMsg.  A bad value carries the last good one; without
\* one, it is a v equal to the value that is there.
RealUpdate(d, quality, v) ==
  LET types ==
        CASE pub[d] = "down" /\ quality = "good"               -> <<"birth">>
          [] pub[d] = "up" /\ quality = "death"                -> <<"death">>
          [] pub[d] = "up" /\ quality # "death" /\ v # val[d]  -> <<"data">>
          [] OTHER                                             -> <<>>
  IN
  /\ MsgTake
  /\ val' = IF pub[d] = "none" THEN val ELSE [val EXCEPT ![d] = v]
  /\ known' = IF types = <<>> THEN known
                ELSE [known EXCEPT ![d] = IF quality = "death" THEN "down" ELSE "up"]
  /\ msg' = Decided({d}, Actions(types, d))
  /\ UNCHANGED <<devs, pub, udts>>

Change(d, v) == IF v # val[d] THEN "values" ELSE "none"

\* processBirthMsg: the device and its metrics are updated first ...
VendorBirth(d, newMetrics, v) ==
  /\ MsgTake
  /\ devs' = devs \cup {d}
  /\ val' = [val EXCEPT ![d] = v]
  /\ msg' = [NoMessage EXCEPT !.pc = "decide", !.on = {d},
               !.changes = IF d \notin devs THEN "device"
                           ELSE IF newMetrics THEN "metrics" ELSE Change(d, v)]
  /\ UNCHANGED <<known, pub, udts>>

\* processDataMsg: likewise, for a device that exists.
VendorData(d, v) ==
  /\ d \in devs
  /\ MsgTake
  /\ val' = [val EXCEPT ![d] = v]
  /\ msg' = [NoMessage EXCEPT !.pc = "decide", !.on = {d},
               !.changes = Change(d, v)]
  /\ UNCHANGED <<devs, known, pub, udts>>

\* ... and then the last status published decides what the host is to be told.
VendorDecide ==
  /\ msg.pc = "decide"
  /\ LET d == CHOOSE x \in msg.on : TRUE
         types == IF pub[d] = "down" THEN <<"birth">>
                  ELSE CASE msg.changes = "device"  -> <<"birth">>
                         [] msg.changes = "metrics" -> <<"death", "birth">>
                         [] msg.changes = "values"  -> <<"data">>
                         [] msg.changes = "none"    -> <<>>
     IN /\ msg' = Decided({d}, Actions(types, d))
        /\ known' = IF types = <<>> THEN known ELSE [known EXCEPT ![d] = "up"]
  /\ MsgOnly /\ UNCHANGED <<init, semBirth, devs, pub, val, udts, pubVars, msgs>>

\* processDeathMsg: all the devices of the application.
VendorDeath ==
  LET dead == devs \cap Vendor IN
  /\ dead # {}
  /\ MsgTake
  /\ known' = [d \in Devices |-> IF d \in dead THEN "down" ELSE known[d]]
  /\ msg' = Decided(dead, LET s == SetToSeq(dead) IN [i \in DOMAIN s |-> Action("death", s[i])])
  /\ UNCHANGED <<devs, pub, val, udts>>

\* processTemplateDef, for a definition that is new.
TemplateDef ==
  /\ udts = 0
  /\ MsgTake
  /\ udts' = 1
  /\ msg' = Decided({"udt"}, <<Action("udt", "udt")>>)
  /\ UNCHANGED <<devs, known, pub, val>>

MsgArrives ==
  \/ \E d \in Devices \ Vendor, v \in {0, 1}, q \in {"good", "bad", "death"} : RealUpdate(d, q, v)
  \/ \E d \in Vendor, v \in {0, 1} : VendorData(d, v) \/ \E m \in BOOLEAN : VendorBirth(d, m, v)
  \/ VendorDeath
  \/ TemplateDef

\* prepareSparkPlugMsg
MsgCheck ==
  /\ msg.pc = "check"
  /\ msg' = IF init THEN MsgNext(msg.acts) ELSE NoMessage
  /\ MsgOnly /\ UNCHANGED <<init, semBirth, devVars, pubVars, msgs>>

MsgAct ==  \* a DBIRTH is published only if it is due; new definitions only with the node up
  /\ msg.pc = "act"
  /\ LET a == Head(msg.acts) IN
       msg' = CASE a.type = "birth" -> IF BirthDue(a.dev, FALSE)
                                         THEN [msg EXCEPT !.pc = "send", !.val = val[a.dev]]
                                         ELSE MsgNext(Tail(msg.acts))
                [] a.type = "udt"   -> IF init THEN MsgGoto("clear") ELSE MsgNext(Tail(msg.acts))
                [] a.type = "data"  -> [msg EXCEPT !.pc = "send", !.val = val[a.dev]]
                [] OTHER            -> MsgGoto("send")  \* "death"
  /\ MsgOnly /\ UNCHANGED <<init, semBirth, devVars, pubVars, msgs>>

\* publish_device_birth, publishMsgDDEATH, publishMsgDDATA
MsgSend ==
  /\ msg.pc = "send"
  /\ LET a == Head(msg.acts) IN
       IF a.type = "data" THEN PublishData(a.dev, msg.val)
                          ELSE PublishDevice(a.dev, a.type = "birth", msg.val)
  /\ msg' = [msg EXCEPT !.pc = "mark", !.val = 0]
  /\ MsgOnly /\ UNCHANGED <<init, semBirth, devVars, msgs>>

MsgMark ==
  /\ msg.pc = "mark"
  /\ LET a == Head(msg.acts) IN
       SetPublished(a.dev, IF a.type = "death" THEN "down" ELSE "up")
  /\ msg' = MsgNext(Tail(msg.acts))
  /\ MsgOnly /\ UNCHANGED <<init, semBirth, pubVars, msgs>>

\* publishNewUDTs: the birth process once more.
MsgClear ==
  /\ msg.pc = "clear"
  /\ init' = FALSE
  /\ msg' = MsgGoto("post")
  /\ MsgOnly /\ UNCHANGED <<semBirth, devVars, pubVars, msgs>>

MsgPost ==
  /\ msg.pc = "post"
  /\ semBirth' = semBirth + 1
  /\ msg' = MsgNext(Tail(msg.acts))
  /\ MsgOnly /\ UNCHANGED <<init, devVars, pubVars, msgs>>

MsgThread ==
  \/ MsgArrives \/ VendorDecide \/ MsgCheck \/ MsgAct
  \/ MsgSend \/ MsgMark \/ MsgClear \/ MsgPost

-----------------------------------------------------------------------------
(* processExternalMqttMsgs: the command "Node Control/Rebirth" *)

ExtOnly == UNCHANGED <<extVars, bdSeq, intVars, devVars, pubVars, birth, lost, est, msg, msgs>>

Rebirth ==
  /\ ext = "wait" /\ rebirths < MaxRebirths
  /\ rebirths' = rebirths + 1
  /\ ext' = IF init THEN "clear" ELSE "wait"
  /\ ExtOnly /\ UNCHANGED <<init, semBirth>>

ExtClear ==
  /\ ext = "clear"
  /\ init' = FALSE
  /\ ext' = "post"
  /\ ExtOnly /\ UNCHANGED <<semBirth, rebirths>>

ExtPost ==
  /\ ext = "post"
  /\ semBirth' = semBirth + 1
  /\ ext' = "wait"
  /\ ExtOnly /\ UNCHANGED <<init, rebirths>>

ExtThread == Rebirth \/ ExtClear \/ ExtPost

-----------------------------------------------------------------------------
(* History: a device is crossed when two threads deal with it at once, or an *)
(* action for it is dropped because the node is not initialised; it is so    *)
(* until the birth process next publishes it.  Likewise the UDTs.            *)

BirthDeals == IF birth.pc = "wait" THEN {} ELSE Subjects
EstDeals   == CASE est.pc = "wait" -> {} [] est.pc = "init" -> Devices
                [] OTHER -> {First(est.todo)}
LostDeals  == IF lost.pc \in {"wait", "link"} THEN {} ELSE {First(lost.todo)}
MsgDeals   == msg.on

Overlap ==
  LET deals == <<BirthDeals, EstDeals, LostDeals, MsgDeals>>
  IN {d \in Subjects : \E i, j \in 1..4 : i < j /\ d \in deals[i] \cap deals[j]}

Observe ==
  LET dropped == IF msg.pc = "check" /\ msg'.pc = "wait" /\ msg.acts # <<>> THEN msg.on ELSE {}
      born    == CASE birth.pc = "node"                        -> {"udt"}
                   [] birth.pc = "prep" /\ birth'.pc = "send" -> {First(birth.todo)} \cap Devices
                   [] OTHER                                    -> {}
  IN crossed' = ((crossed \cup dropped) \ born) \cup Overlap'

Next ==
  /\ \/ LinkUp \/ LinkFails \/ LinkLost \/ Connected \/ Disconnected
     \/ IntLinkStep
     \/ BirthThread \/ LostThread \/ EstThread \/ MsgThread \/ ExtThread
  /\ Observe

Spec == Init /\ [][Next]_vars

-----------------------------------------------------------------------------
(* Properties *)

Settled ==
  /\ callbacks = <<>> /\ semBirth = 0
  /\ {lossOwed, estOwed, semLost, semEst} = {0}
  /\ \A t \in {birth, lost, est, msg} : t.pc = "wait"
  /\ ext = "wait"

Online == Settled /\ up

\* The numbers reach the host without a gap, whichever threads publish.
InSequence == host.on => host.seq = seq

\* Once nothing is left to do, a connected node is initialised and the host has
\* the NBIRTH of this connection, with every UDT unless its message was crossed.
OnlineBorn ==
  Online => /\ init /\ host.on /\ host.bd = bdSeq
            /\ host.udts = udts \/ "udt" \in crossed

\* No DDATA is published of a device that the host does not know.
DataAfterBirth ==
  (msg.pc = "send" /\ up /\ host.on) =>
    LET a == Head(msg.acts) IN a.type = "data" => a.dev \in host.alive \cup crossed

\* The host never has a reason to ask for a rebirth: five threads send no message
\* out of sequence and none about a device that was not born.
HostCanFollow == InSequence /\ DataAfterBirth

\* What the program believes to have published is what the host has been told.
PublishedIsTold ==
  Online => \A d \in Devices \ crossed : pub[d] = "up" <=> d \in host.alive

\* The host's devices are alive with their last values, and all of those are
\* there that are not known to be down while the internal broker can be reached.
HostMatchesDevices ==
  Online => \A d \in devs \ crossed :
    /\ d \in host.alive => known[d] # "down" /\ host.val[d] = val[d]
    /\ intUp /\ known[d] # "down" => d \in host.alive

\* Host and node agree on every device once nothing is left to do.
HostAgrees == PublishedIsTold /\ HostMatchesDevices

\* A node that counts as initialised has told the host so: what keeps messages
\* back after a disconnection, until the NBIRTH of the next connection.
InitMeansBorn == (init /\ up /\ callbacks = <<>>) => host.on
=============================================================================
