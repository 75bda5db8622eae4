-------------------------- MODULE SparkplugNode_proofs --------------------------
(***************************************************************************)
(* Theorems about SparkplugNode: the numbers of its messages reach the     *)
(* host without a gap, no birth process is lost, and what the SCADA host   *)
(* has been told of the devices is so.                                     *)
(***************************************************************************)
EXTENDS SparkplugNode, SequenceTheorems, FiniteSetTheorems, TLAPS

(* What the proofs need to know of the types: the fields of three records,   *)
(* and how the callbacks to come follow from the connection.                 *)

Fields ==
  /\ DOMAIN birth = {"pc", "todo", "val", "bd", "udts"}
  /\ DOMAIN msg = {"pc", "on", "changes", "acts", "val"}
  /\ DOMAIN host = {"on", "seq", "bd", "udts", "alive", "val"}
  /\ semBirth \in Nat
  /\ msg.pc = "decide" => msg.on # {}

\* At most one connection to come, and then at most its loss.
Links ==
  /\ callbacks \in Seq({"connected", "disconnected"})
  /\ Len(callbacks) \in 0..2
  /\ Len(callbacks) = 2 => callbacks[1] = "connected" /\ callbacks[2] = "disconnected"
  /\ up => Len(callbacks) = 0 \/ (Len(callbacks) = 1 /\ callbacks[1] = "connected")

\* A host that has an NBIRTH is there, and expects the next number.
Numbered == host.on => up /\ host.seq = seq

(* A birth process that is owed: a connection of which the program is not    *)
(* told yet, or a post that the birth thread will take.                      *)

Comes == callbacks # <<>> \/ semBirth > 0

Born    == up => \/ Comes \/ birth.pc \in {"node", "nbirth"}
                 \/ host.on /\ host.bd = bdSeq
Current == (up /\ birth.pc = "nbirth") => Comes \/ birth.bd = bdSeq
Owed    == (up /\ ~init) => Comes \/ birth.pc # "wait" \/ msg.pc = "post" \/ ext = "post"

(* The UDTs: a message about them, and the birth process that tells the host. *)

UdtAction == [type |-> "udt", dev |-> "udt"]
UdtMsg  == "udt" \in msg.on =>
             msg.pc \in {"check", "act", "clear", "post"} /\ msg.acts = <<UdtAction>>
Crosses == (birth.pc # "wait" /\ "udt" \in msg.on) => "udt" \in crossed
Stale   == (birth.pc = "nbirth" /\ birth.udts # udts) => "udt" \in crossed
Told    == (up /\ host.on /\ host.udts # udts) =>
             \/ "udt" \in crossed \/ "udt" \in msg.on
             \/ Comes \/ ext = "post"
             \/ birth.pc \in {"node", "nbirth"}

BInv == Born /\ Current /\ Owed
DInv == UdtMsg /\ Crosses /\ Stale /\ Told
IInv == Fields /\ Links /\ Numbered /\ BInv /\ DInv

-----------------------------------------------------------------------------
(* Frames *)

\* What the invariants of the birth process read, but for the host and crossed.
node == <<up, callbacks, bdSeq, init, semBirth, udts, birth, msg, ext>>

\* The history: who keeps "udt" crossed.
LEMMA Crossing ==
  ASSUME Observe
  PROVE  /\ birth'.pc # "wait" /\ "udt" \in msg'.on => "udt" \in crossed'
         /\ "udt" \in crossed /\ birth.pc # "node" => "udt" \in crossed'
         /\ (/\ msg.pc = "check" /\ msg'.pc = "wait" /\ msg.acts # <<>>
             /\ "udt" \in msg.on /\ birth.pc # "node") => "udt" \in crossed'
<1>1. birth'.pc # "wait" /\ "udt" \in msg'.on => "udt" \in Overlap'
  BY DEF Overlap, BirthDeals, MsgDeals, Subjects
<1>2. "udt" \notin Devices
  BY NodeAssumption
<1> QED
  BY <1>1, <1>2 DEF Observe

\* The lost, the est and the internal link's steps, and every publication of a device:
\* the host keeps its NBIRTH, and counts with the node.
LEMMA PublishKeeps ==
  ASSUME Fields, Numbered, UNCHANGED up,
         (\E d, a, v : PublishDevice(d, a, v)) \/ (\E d, v : PublishData(d, v))
           \/ UNCHANGED pubVars
  PROVE  /\ DOMAIN host' = DOMAIN host
         /\ host'.on = host.on /\ host'.bd = host.bd /\ host'.udts = host.udts
         /\ Numbered'
<1>1. CASE UNCHANGED pubVars
  BY <1>1 DEF pubVars, Numbered
<1>2. CASE \E d, a, v : PublishDevice(d, a, v)
  BY <1>2 DEF PublishDevice, Publish, Hears, NextNumber, Fields, Numbered
<1>3. CASE \E d, v : PublishData(d, v)
  BY <1>3 DEF PublishData, Publish, Hears, NextNumber, Fields, Numbered
<1> QED
  BY <1>1, <1>2, <1>3

\* A host that keeps its NBIRTH.
HostKeeps == /\ DOMAIN host' = DOMAIN host
             /\ host'.on = host.on /\ host'.bd = host.bd /\ host'.udts = host.udts

\* Nothing that the invariants read changes, but for the messages to the host.
LEMMA QuietStep ==
  ASSUME IInv, UNCHANGED node, HostKeeps, Numbered', Observe
  PROVE  IInv'
<1>1. Fields' /\ Links'
  BY DEF IInv, Fields, Links, node, HostKeeps
<1>2. BInv'
  BY DEF IInv, BInv, Born, Current, Owed, Comes, node, HostKeeps
<1>3. DInv'
  BY Crossing DEF IInv, DInv, UdtMsg, Crosses, Stale, Told, Comes, node, HostKeeps
<1> QED
  BY <1>1, <1>2, <1>3 DEF IInv

-----------------------------------------------------------------------------
(* The connection to the SCADA broker *)

\* What is left to come once a callback was made.
LEMMA LinksTail ==
  ASSUME Links, callbacks # <<>>, callbacks' = Tail(callbacks), UNCHANGED up
  PROVE  /\ Links'
         /\ Head(callbacks) = "disconnected" => ~up
<1> DEFINE S == {"connected", "disconnected"}
<1>1. callbacks \in Seq(S) /\ Len(callbacks) \in 1..2 /\ Head(callbacks) = callbacks[1]
  BY EmptySeq DEF Links
<1>2. callbacks' \in Seq(S) /\ Len(callbacks') = Len(callbacks) - 1
  BY <1>1, HeadTailProperties
<1>3. up => Len(callbacks) = 1 /\ callbacks[1] = "connected"
  BY <1>1 DEF Links
<1> HIDE DEF S
<1>4. Links'
  BY <1>1, <1>2, <1>3 DEF Links, S
<1> QED
  BY <1>1, <1>3, <1>4

\* The library and its callbacks.
LEMMA LinkStep ==
  ASSUME IInv, Observe, LinkUp \/ LinkFails \/ LinkLost \/ Connected \/ Disconnected
  PROVE  IInv'
<1> USE DEF nodeVars, intVars, devVars, pubVars, threads
<1>1. UNCHANGED <<birth, msg, ext, udts>>
  BY DEF LinkUp, LinkFails, LinkLost, Connected, Disconnected
<1>2. Crosses' /\ UdtMsg' /\ Stale'
  BY <1>1, Crossing DEF IInv, DInv, Crosses, UdtMsg, Stale
<1>3. CASE LinkUp
  <2>1. Comes'
    BY <1>3 DEF LinkUp, Comes
  <2>2. BInv' /\ Told'
    BY <2>1 DEF BInv, Born, Current, Owed, Told
  <2> QED
    BY <1>1, <1>2, <1>3, <2>2 DEF LinkUp, IInv, DInv, Fields, Links, Numbered
<1>4. CASE LinkFails
  BY <1>1, <1>2, <1>4 DEF LinkFails, IInv, Fields, Links, Numbered, BInv, Born, Current, Owed,
     DInv, Told
<1>5. CASE LinkLost
  <2>1. Links' /\ callbacks' # <<>>
    BY <1>5, AppendProperties DEF LinkLost, IInv, Links
  <2>2. ~up' /\ ~host'.on /\ DOMAIN host' = DOMAIN host
    BY <1>5 DEF LinkLost, NoNode, IInv, Fields
  <2> QED
    BY <1>1, <1>2, <1>5, <2>1, <2>2 DEF LinkLost, IInv, Fields, Links, Numbered, BInv, Born,
       Current, Owed, DInv, Told
<1>6. CASE Connected
  <2>1. Comes' /\ semBirth' \in Nat
    BY <1>6 DEF Connected, Comes, IInv, Fields
  <2>2. Links'
    BY <1>6, LinksTail DEF Connected, IInv
  <2>3. BInv' /\ Told'
    BY <2>1 DEF BInv, Born, Current, Owed, Told
  <2> QED
    BY <1>1, <1>2, <1>6, <2>1, <2>2, <2>3 DEF Connected, IInv, DInv, Fields, Numbered
<1>7. CASE Disconnected
  <2>1. Links' /\ ~up'
    BY <1>7, LinksTail DEF Disconnected, IInv
  <2>2. BInv' /\ Told'
    BY <2>1 DEF BInv, Born, Current, Owed, Told
  <2> QED
    BY <1>1, <1>2, <1>7, <2>1, <2>2 DEF Disconnected, IInv, DInv, Fields, Numbered
<1> QED
  BY <1>3, <1>4, <1>5, <1>6, <1>7

-----------------------------------------------------------------------------
(* The birth thread *)

\* Its steps.
LEMMA BirthStep ==
  ASSUME IInv, Observe, BirthThread
  PROVE  IInv'
<1> USE DEF BirthOnly, extVars, devVars, pubVars, BirthGoto, BirthNext
<1>1. UNCHANGED <<up, callbacks, bdSeq, msg, ext, udts>>
  BY DEF BirthThread, BirthWait, BirthNode, BirthNBirth, BirthList, BirthPrep, BirthSend,
     BirthMark, BirthInit, SetPublished
<1>2. DOMAIN birth' = DOMAIN birth
  BY DEF BirthThread, BirthWait, BirthNode, BirthNBirth, BirthList, BirthPrep, BirthSend,
     BirthMark, BirthInit
<1>3. Links' /\ UdtMsg' /\ Crosses'
  BY <1>1, Crossing DEF IInv, Links, DInv, UdtMsg, Crosses
<1>4. CASE BirthWait
  <2>1. birth'.pc = "node" /\ semBirth' \in Nat /\ UNCHANGED <<init, host, seq>>
    BY <1>4 DEF BirthWait, IInv, Fields
  <2>2. BInv' /\ Stale' /\ Told'
    BY <2>1 DEF BInv, Born, Current, Owed, Stale, Told
  <2> QED
    BY <1>1, <1>2, <1>3, <2>1, <2>2 DEF IInv, DInv, Fields, Numbered
<1>5. CASE BirthNode
  <2>1. birth'.pc = "nbirth" /\ birth'.bd = bdSeq /\ birth'.udts = udts
    BY <1>5 DEF BirthNode, IInv, Fields
  <2>2. UNCHANGED <<init, semBirth, host, seq>>
    BY <1>5 DEF BirthNode
  <2>3. BInv' /\ Stale' /\ Told'
    BY <1>1, <2>1 DEF BInv, Born, Current, Owed, Stale, Told
  <2> QED
    BY <1>1, <1>2, <1>3, <2>1, <2>2, <2>3 DEF IInv, DInv, Fields, Numbered
<1>6. CASE BirthNBirth
  <2>1. birth.pc = "nbirth" /\ birth'.pc = "list" /\ UNCHANGED <<init, semBirth>>
    BY <1>6 DEF BirthNBirth, IInv, Fields
  <2>2. /\ DOMAIN host' = DOMAIN host
        /\ up => host'.on /\ host'.bd = birth.bd /\ host'.udts = birth.udts /\ host'.seq = seq'
        /\ ~up => UNCHANGED host
    BY <1>6 DEF BirthNBirth, PublishNBirth, Publish, NoNode, IInv, Fields
  <2>3. BInv'
    BY <1>1, <2>1, <2>2 DEF IInv, BInv, Born, Current, Owed, Comes
  <2>4. Stale' /\ Told'
    BY <1>1, <2>1, <2>2, Crossing DEF IInv, DInv, Stale, Told
  <2>5. Numbered'
    BY <1>1, <2>2 DEF IInv, Numbered
  <2> QED
    BY <1>1, <1>2, <1>3, <2>1, <2>2, <2>3, <2>4, <2>5 DEF IInv, DInv, Fields
<1>7. CASE BirthList \/ BirthPrep \/ BirthSend \/ BirthMark
  <2>1. /\ birth.pc \notin {"wait", "node", "nbirth"} /\ birth'.pc \notin {"wait", "node", "nbirth"}
        /\ UNCHANGED <<init, semBirth>>
    BY <1>7 DEF BirthList, BirthPrep, BirthSend, BirthMark, SetPublished, IInv, Fields
  <2>2. HostKeeps /\ Numbered'
    <3>1. UNCHANGED pubVars \/ \E d, a, v : PublishDevice(d, a, v)
      BY <1>7 DEF BirthList, BirthPrep, BirthSend, BirthMark
    <3> QED
      BY <1>1, <3>1, PublishKeeps DEF IInv, HostKeeps
  <2>3. BInv'
    BY <1>1, <2>1, <2>2 DEF IInv, BInv, Born, Current, Owed, Comes, HostKeeps
  <2>4. Stale' /\ Told'
    BY <1>1, <2>1, <2>2, Crossing DEF IInv, DInv, Stale, Told, Comes, HostKeeps
  <2> QED
    BY <1>1, <1>2, <1>3, <2>1, <2>2, <2>3, <2>4 DEF IInv, DInv, Fields, HostKeeps
<1>8. CASE BirthInit
  <2>1. birth.pc = "init" /\ birth'.pc = "wait" /\ init' = TRUE /\ UNCHANGED <<semBirth, host, seq>>
    BY <1>8 DEF BirthInit, IInv, Fields
  <2>2. BInv'
    BY <1>1, <2>1 DEF IInv, BInv, Born, Current, Owed, Comes
  <2>3. Stale' /\ Told'
    BY <1>1, <2>1, Crossing DEF IInv, DInv, Stale, Told, Comes
  <2> QED
    BY <1>1, <1>2, <1>3, <2>1, <2>2, <2>3 DEF IInv, DInv, Fields, Numbered
<1> QED
  BY <1>4, <1>5, <1>6, <1>7, <1>8 DEF BirthThread

-----------------------------------------------------------------------------
(* The SCADA messages and the internal messages *)

\* The thread of the rebirth command.
LEMMA ExtStep ==
  ASSUME IInv, Observe, ExtThread
  PROVE  IInv'
<1> USE DEF ExtOnly, extVars, devVars, pubVars
<1>1. UNCHANGED <<up, callbacks, bdSeq, birth, msg, udts, host, seq>>
  BY DEF ExtThread, Rebirth, ExtClear, ExtPost
<1>2. Links' /\ UdtMsg' /\ Crosses' /\ Stale' /\ Numbered'
  BY <1>1, Crossing DEF IInv, Links, Numbered, DInv, UdtMsg, Crosses, Stale
<1>3. CASE Rebirth
  <2>1. UNCHANGED <<init, semBirth>> /\ ext = "wait"
    BY <1>3 DEF Rebirth
  <2>2. BInv'
    BY <1>1, <2>1 DEF IInv, BInv, Born, Current, Owed, Comes
  <2>3. Told'
    BY <1>1, <2>1, Crossing DEF IInv, DInv, Told, Comes
  <2> QED
    BY <1>1, <1>2, <2>1, <2>2, <2>3 DEF IInv, DInv, Fields
<1>4. CASE ExtClear
  <2>1. ext = "clear" /\ ext' = "post" /\ UNCHANGED semBirth
    BY <1>4 DEF ExtClear
  <2>2. BInv'
    BY <1>1, <2>1 DEF IInv, BInv, Born, Current, Owed, Comes
  <2>3. Told'
    BY <1>1, <2>1, Crossing DEF IInv, DInv, Told, Comes
  <2> QED
    BY <1>1, <1>2, <2>1, <2>2, <2>3 DEF IInv, DInv, Fields
<1>5. CASE ExtPost
  <2>1. semBirth' \in Nat /\ Comes'
    BY <1>5 DEF ExtPost, IInv, Fields, Comes
  <2>2. BInv' /\ Told'
    BY <2>1 DEF BInv, Born, Current, Owed, Told
  <2> QED
    BY <1>1, <1>2, <2>1, <2>2 DEF IInv, DInv, Fields
<1> QED
  BY <1>3, <1>4, <1>5 DEF ExtThread

\* The thread of the messages, but for the UDTs: a device's message takes another
\* step, on the same devices or with none.
LEMMA MsgDeviceStep ==
  ASSUME IInv, Observe, MsgOnly, HostKeeps, Numbered',
         UNCHANGED <<init, semBirth, udts>>,
         DOMAIN msg' = DOMAIN msg, msg'.pc = "decide" => msg'.on # {},
         msg.pc # "post", "udt" \notin msg.on, "udt" \notin msg'.on
  PROVE  IInv'
<1> USE DEF MsgOnly, extVars
<1>1. Fields' /\ Links'
  BY DEF IInv, Fields, Links, HostKeeps
<1>2. BInv'
  BY DEF IInv, BInv, Born, Current, Owed, Comes, HostKeeps
<1>3. DInv'
  BY Crossing DEF IInv, DInv, UdtMsg, Crosses, Stale, Told, Comes, HostKeeps
<1> QED
  BY <1>1, <1>2, <1>3 DEF IInv

\* A message of a device arrives, and is decided about.
LEMMA DeviceMsgStep ==
  ASSUME IInv, Observe,
         \/ \E d \in Devices \ Vendor, v \in {0, 1}, q \in {"good", "bad", "death"} : RealUpdate(d, q, v)
         \/ \E d \in Vendor, v \in {0, 1} : VendorData(d, v) \/ \E m \in BOOLEAN : VendorBirth(d, m, v)
         \/ VendorDeath
         \/ VendorDecide
  PROVE  IInv'
<1> USE DEF devVars, pubVars
<1>1. "udt" \notin Devices /\ Vendor \subseteq Devices
  BY NodeAssumption
<1>2. MsgOnly /\ UNCHANGED <<init, semBirth, udts, host, seq>>
  BY DEF MsgTake, RealUpdate, VendorData, VendorBirth, VendorDeath, VendorDecide
<1>3. /\ DOMAIN msg' = DOMAIN msg
      /\ msg'.pc = "decide" => msg'.on # {}
      /\ msg.pc # "post" /\ "udt" \notin msg.on /\ "udt" \notin msg'.on
  <2>1. CASE \E d \in Devices \ Vendor, v \in {0, 1}, q \in {"good", "bad", "death"} : RealUpdate(d, q, v)
    <3>1. PICK d, acts : d \in Devices /\ msg.pc = "wait" /\ msg' = Decided({d}, acts)
      BY <2>1 DEF RealUpdate, MsgTake
    <3> QED
      BY <1>1, <3>1 DEF Decided, NoMessage, IInv, Fields, DInv, UdtMsg
  <2>2. CASE \E d \in Vendor, v \in {0, 1} : VendorData(d, v) \/ \E m \in BOOLEAN : VendorBirth(d, m, v)
    <3>1. PICK d, c : /\ d \in Devices /\ msg.pc = "wait"
                       /\ msg' = [NoMessage EXCEPT !.pc = "decide", !.on = {d}, !.changes = c]
      BY <1>1, <2>2 DEF VendorData, VendorBirth, MsgTake
    <3> QED
      BY <1>1, <3>1 DEF NoMessage, IInv, Fields, DInv, UdtMsg
  <2>3. CASE VendorDeath
    BY <1>1, <2>3 DEF VendorDeath, MsgTake, Decided, NoMessage, IInv, Fields, DInv, UdtMsg
  <2>4. CASE VendorDecide
    BY <2>4 DEF VendorDecide, Decided, NoMessage, IInv, Fields, DInv, UdtMsg
  <2> QED
    BY <2>1, <2>2, <2>3, <2>4
<1>4. HostKeeps /\ Numbered'
  BY <1>2 DEF HostKeeps, MsgOnly, extVars, IInv, Numbered
<1> QED
  BY <1>2, <1>3, <1>4, MsgDeviceStep

\* The definition of a UDT arrives.
LEMMA TemplateStep ==
  ASSUME IInv, Observe, TemplateDef
  PROVE  IInv'
<1> USE DEF TemplateDef, MsgTake, MsgOnly, extVars, pubVars
<1>1. UNCHANGED <<up, callbacks, bdSeq, init, semBirth, birth, ext, host, seq>>
  OBVIOUS
<1>2. /\ DOMAIN msg' = DOMAIN msg
      /\ msg'.pc = "check" /\ msg'.on = {"udt"} /\ msg'.acts = <<UdtAction>>
  BY DEF Decided, NoMessage, Action, UdtAction, IInv, Fields
<1>3. msg.pc = "wait"
  OBVIOUS
<1> USE DEF IInv, DInv
<1>4. BInv'
  BY <1>1, <1>2, <1>3 DEF BInv, Born, Current, Owed, Comes
<1>5. Crosses' /\ Stale' /\ UdtMsg' /\ Told'
  BY <1>1, <1>2, Crossing DEF Crosses, Stale, UdtMsg, Told
<1> QED
  BY <1>1, <1>2, <1>4, <1>5 DEF Fields, Links, Numbered

\* A message about UDTs is taken or dropped.
LEMMA UdtStep ==
  ASSUME IInv, Observe, MsgCheck \/ MsgAct, "udt" \in msg.on
  PROVE  IInv'
<1> USE DEF MsgOnly, extVars, devVars, pubVars
<1>1. UNCHANGED <<up, callbacks, bdSeq, init, semBirth, udts, birth, ext, host, seq>>
  BY DEF MsgCheck, MsgAct
<1>2. msg.acts = <<UdtAction>>
  BY DEF IInv, DInv, UdtMsg
<1>3. /\ DOMAIN msg' = DOMAIN msg
      /\ \/ msg'.pc \in {"act", "clear"} /\ msg'.on = msg.on /\ msg'.acts = msg.acts
         \/ /\ msg'.pc = "wait" /\ msg'.on = {} /\ ~init
            /\ msg.pc \in {"check", "act"}
  <2>1. CASE MsgCheck
    BY <1>2, <2>1 DEF MsgCheck, MsgNext, NoMessage, IInv, Fields
  <2>2. CASE MsgAct
    <3>1. Head(msg.acts).type = "udt" /\ Tail(msg.acts) = <<>>
      BY <1>2 DEF UdtAction
    <3> QED
      BY <2>2, <3>1 DEF MsgAct, MsgGoto, MsgNext, NoMessage, IInv, Fields
  <2> QED
    BY <2>1, <2>2
<1>4. msg.pc \in {"check", "act"}
  BY DEF MsgCheck, MsgAct
<1>5. BInv' /\ Links' /\ Numbered' /\ Fields'
  BY <1>1, <1>3, <1>4 DEF IInv, BInv, Born, Current, Owed, Comes, Links, Numbered, Fields
<1>6. Crosses' /\ Stale' /\ UdtMsg'
  BY <1>1, <1>2, <1>3, Crossing DEF IInv, DInv, Crosses, Stale, UdtMsg
<1>7. Told'
  <2>1. CASE msg'.on = msg.on
    BY <1>1, <2>1 DEF Told
  <2>2. CASE ~init /\ birth.pc = "wait" /\ up
    <3>1. Comes \/ ext = "post"
      BY <1>4, <2>2 DEF IInv, BInv, Owed
    <3> QED
      BY <1>1, <3>1 DEF Told, Comes
  <2>3. CASE birth.pc # "wait"
    BY <1>1, <2>3, Crossing DEF IInv, DInv, Crosses, Told
  <2>4. CASE ~up
    BY <1>1, <2>4 DEF Told
  <2> QED
    BY <1>3, <2>1, <2>2, <2>3, <2>4
<1> QED
  BY <1>5, <1>6, <1>7 DEF IInv, DInv

\* The actions of a message, after it arrived.
LEMMA MsgActionStep ==
  ASSUME IInv, Observe,
         MsgCheck \/ MsgAct \/ MsgSend \/ MsgMark \/ MsgClear \/ MsgPost
  PROVE  IInv'
<1> USE DEF MsgOnly, extVars, devVars, pubVars, SetPublished
<1>1. UNCHANGED <<up, callbacks, bdSeq, udts, birth, ext>>
  BY DEF MsgCheck, MsgAct, MsgSend, MsgMark, MsgClear, MsgPost
<1>2. CASE (MsgCheck \/ MsgAct) /\ "udt" \in msg.on
  BY <1>2, UdtStep
<1>3. CASE (MsgCheck \/ MsgAct) /\ "udt" \notin msg.on
  <2>1. DOMAIN msg' = DOMAIN msg /\ msg'.on \in {msg.on, {}} /\ msg'.pc # "decide"
    <3>1. CASE MsgCheck
      BY <3>1 DEF MsgCheck, MsgNext, NoMessage, IInv, Fields
    <3>2. CASE MsgAct
      BY <3>2 DEF MsgAct, MsgNext, MsgGoto, NoMessage, IInv, Fields
    <3> QED
      BY <1>3, <3>1, <3>2
  <2>2. HostKeeps /\ Numbered'
    <3>1. UNCHANGED <<host, seq>>
      BY <1>3 DEF MsgCheck, MsgAct
    <3> QED
      BY <1>1, <3>1 DEF HostKeeps, IInv, Numbered
  <2> QED
    BY <1>1, <1>3, <2>1, <2>2, MsgDeviceStep DEF MsgCheck, MsgAct
<1>4. CASE MsgSend
  <2>1. "udt" \notin msg.on
    BY <1>4 DEF MsgSend, IInv, DInv, UdtMsg
  <2>2. DOMAIN msg' = DOMAIN msg /\ msg'.on = msg.on /\ msg'.pc = "mark"
    BY <1>4 DEF MsgSend, IInv, Fields
  <2>3. HostKeeps /\ Numbered'
    <3>1. (\E d, a, v : PublishDevice(d, a, v)) \/ (\E d, v : PublishData(d, v))
      BY <1>4 DEF MsgSend
    <3> QED
      BY <1>1, <3>1, PublishKeeps DEF IInv, HostKeeps
  <2> QED
    BY <1>1, <1>4, <2>1, <2>2, <2>3, MsgDeviceStep DEF MsgSend
<1>5. CASE MsgMark
  <2>1. "udt" \notin msg.on
    BY <1>5 DEF MsgMark, IInv, DInv, UdtMsg
  <2>2. DOMAIN msg' = DOMAIN msg /\ msg'.on \in {msg.on, {}} /\ msg'.pc # "decide"
    BY <1>5 DEF MsgMark, MsgNext, NoMessage, IInv, Fields
  <2>3. HostKeeps /\ Numbered'
    BY <1>5 DEF MsgMark, HostKeeps, IInv, Numbered
  <2> QED
    BY <1>1, <1>5, <2>1, <2>2, <2>3, MsgDeviceStep DEF MsgMark
<1>6. CASE MsgClear
  <2>1. /\ DOMAIN msg' = DOMAIN msg /\ msg.pc = "clear" /\ msg'.pc = "post"
        /\ msg'.on = msg.on /\ msg'.acts = msg.acts
        /\ UNCHANGED <<semBirth, host, seq>>
    BY <1>6 DEF MsgClear, MsgGoto, IInv, Fields
  <2>2. BInv'
    BY <1>1, <2>1 DEF IInv, BInv, Born, Current, Owed, Comes
  <2>3. DInv'
    BY <1>1, <2>1, Crossing DEF IInv, DInv, Crosses, Stale, UdtMsg, Told, Comes
  <2> QED
    BY <1>1, <2>1, <2>2, <2>3 DEF IInv, Fields, Links, Numbered
<1>7. CASE MsgPost
  <2>1. semBirth' \in Nat /\ Comes' /\ UNCHANGED <<host, seq>>
    BY <1>7 DEF MsgPost, IInv, Fields, Comes
  <2>2. /\ DOMAIN msg' = DOMAIN msg /\ msg'.pc # "decide"
        /\ msg'.on \in {msg.on, {}}
        /\ "udt" \in msg.on => msg'.on = {}
    <3>1. ASSUME "udt" \in msg.on
          PROVE  Tail(msg.acts) = <<>>
      <4>1. msg.acts = <<UdtAction>>
        BY <3>1 DEF IInv, DInv, UdtMsg
      <4> QED
        BY <4>1
    <3> QED
      BY <1>7, <3>1 DEF MsgPost, MsgNext, NoMessage, IInv, Fields
  <2>3. BInv' /\ Told'
    BY <2>1 DEF BInv, Born, Current, Owed, Told
  <2>4. Crosses' /\ Stale' /\ UdtMsg'
    BY <1>1, <2>2, Crossing DEF IInv, DInv, Crosses, Stale, UdtMsg
  <2> QED
    BY <1>1, <2>1, <2>2, <2>3, <2>4 DEF IInv, DInv, Fields, Links, Numbered
<1> QED
  BY <1>2, <1>3, <1>4, <1>5, <1>6, <1>7

-----------------------------------------------------------------------------
(* The other threads, and the theorems *)

\* The internal link and its two threads leave the birth process alone.
LEMMA QuietThreads ==
  ASSUME IInv, Observe, IntLinkStep \/ LostThread \/ EstThread
  PROVE  IInv'
<1> USE DEF extVars, nodeVars, devVars, threads
<1>1. /\ UNCHANGED node
      /\ UNCHANGED pubVars \/ \E d, a, v : PublishDevice(d, a, v)
  <2>1. CASE IntLinkStep
    BY <2>1 DEF IntLinkStep, node
  <2>2. CASE LostThread
    BY <2>2 DEF LostThread, LostWait, LostLink, LostInit, LostSend, LostMark, LostOnly,
       SetPublished, node
  <2>3. CASE EstThread
    BY <2>3 DEF EstThread, EstWait, EstInit, EstPrep, EstSend, EstMark, EstOnly,
       SetPublished, node
  <2> QED
    BY <2>1, <2>2, <2>3
<1>2. HostKeeps /\ Numbered'
  BY <1>1, PublishKeeps DEF IInv, node, HostKeeps
<1> QED
  BY <1>1, <1>2, QuietStep

\* The start.
LEMMA InitIInv == Init => IInv
<1> SUFFICES ASSUME Init PROVE IInv
  OBVIOUS
<1> USE DEF Init, StartUp
<1>1. Fields /\ Links /\ Numbered
  BY EmptySeq DEF Fields, Links, Numbered, NoBirth, NoMessage, NoNode
<1>2. BInv
  BY DEF BInv, Born, Current, Owed
<1>3. DInv
  BY DEF DInv, UdtMsg, Crosses, Stale, Told, NoMessage, NoBirth
<1> QED
  BY <1>1, <1>2, <1>3 DEF IInv

\* Every step.
LEMMA NextIInv == IInv /\ [Next]_vars => IInv'
<1> SUFFICES ASSUME IInv, [Next]_vars PROVE IInv'
  OBVIOUS
<1>1. CASE UNCHANGED vars
  BY <1>1 DEF vars, extVars, nodeVars, devVars, pubVars, threads, IInv, Fields, Links, Numbered,
     BInv, Born, Current, Owed, Comes, DInv, UdtMsg, Crosses, Stale, Told
<1>2. CASE Next
  <2>1. CASE LinkUp \/ LinkFails \/ LinkLost \/ Connected \/ Disconnected
    BY <1>2, <2>1, LinkStep DEF Next
  <2>2. CASE IntLinkStep \/ LostThread \/ EstThread
    BY <1>2, <2>2, QuietThreads DEF Next
  <2>3. CASE BirthThread
    BY <1>2, <2>3, BirthStep DEF Next
  <2>4. CASE ExtThread
    BY <1>2, <2>4, ExtStep DEF Next
  <2>5. CASE MsgThread
    BY <1>2, <2>5, DeviceMsgStep, TemplateStep, MsgActionStep DEF Next, MsgThread, MsgArrives
  <2> QED
    BY <1>2, <2>1, <2>2, <2>3, <2>4, <2>5 DEF Next
<1> QED
  BY <1>1, <1>2

\* What holds of every state that can be reached.
LEMMA Invariant == Spec => []IInv
<1> QED
  BY InitIInv, NextIInv, PTL DEF Spec

(* publishSparkplugMsg numbers and publishes under one mutex: a host that has *)
(* an NBIRTH gets the next number with the next message, whichever of the     *)
(* five threads sends it.                                                     *)
THEOREM InSequenceCorrect == Spec => []InSequence
<1>1. IInv => InSequence
  BY DEF IInv, Numbered, InSequence
<1> QED
  BY <1>1, Invariant, PTL

(* However connections, rebirth commands and new UDTs meet: when nothing is   *)
(* left to do, a node with a connection is initialised, the host has the      *)
(* NBIRTH of that connection, and every UDT whose message was not crossed.    *)
THEOREM OnlineBornCorrect == Spec => []OnlineBorn
<1>1. IInv => OnlineBorn
  <2> SUFFICES ASSUME IInv, Online
               PROVE  /\ init /\ host.on /\ host.bd = bdSeq
                      /\ host.udts = udts \/ "udt" \in crossed
    BY DEF OnlineBorn
  <2>1. up /\ ~Comes /\ birth.pc = "wait" /\ msg.pc = "wait" /\ ext = "wait"
    BY DEF Online, Settled, Comes
  <2>2. init /\ host.on /\ host.bd = bdSeq
    BY <2>1 DEF IInv, BInv, Born, Owed
  <2>3. "udt" \notin msg.on
    BY <2>1 DEF IInv, DInv, UdtMsg
  <2> QED
    BY <2>1, <2>2, <2>3 DEF IInv, DInv, Told
<1> QED
  BY <1>1, Invariant, PTL

-----------------------------------------------------------------------------
(* The types *)

BirthState == [pc : {"wait", "node", "nbirth", "list", "prep", "send", "mark", "init"},
               todo : SUBSET devs, val : {0, 1}, bd : Nat, udts : {0, 1}]
LostState  == [pc : {"wait", "link", "init", "send", "mark"}, todo : SUBSET devs, val : {0, 1}]
EstState   == [pc : {"wait", "init", "prep", "send", "mark"}, todo : SUBSET devs, val : {0, 1}]
Host       == [on : BOOLEAN, seq : 0..(Numbers - 1), bd : Nat, udts : {0, 1},
               alive : SUBSET Devices, val : [Devices -> {0, 1}]]

Records ==
  /\ birth \in BirthState /\ lost \in LostState /\ est \in EstState /\ host \in Host
  /\ ext \in {"wait", "clear", "post"}

\* A thread that is busy with a device has one.
Busy ==
  /\ birth.pc \in {"prep", "send", "mark"} => birth.todo # {}
  /\ lost.pc # "wait" => lost.todo # {}
  /\ est.pc \in {"prep", "send", "mark"} => est.todo # {}

Known ==
  /\ devs \subseteq Devices /\ Devices \ Vendor \subseteq devs
  /\ known \in [Devices -> Status] /\ pub \in [Devices -> Status]
  /\ val \in [Devices -> {0, 1}] /\ udts \in {0, 1}
  /\ \A d \in Devices \ devs : pub[d] = "none"

\* What a message consists of, by what it is about.
Working == {"check", "act", "send", "mark"}

NoMsg     == msg.pc = "wait" /\ msg.on = {} /\ msg.acts = <<>>
OpenMsg   == /\ msg.pc = "decide" /\ msg.acts = <<>>
             /\ \E d \in Vendor \cap devs : msg.on = {d}
DeathMsg  == /\ msg.pc \in Working /\ msg.on \subseteq devs
             /\ msg.acts \in Seq([type : {"death"}, dev : msg.on])
DeviceMsg == /\ msg.pc \in Working
             /\ \E d \in devs : /\ msg.on = {d}
                                /\ msg.acts \in {<<Action("birth", d)>>, <<Action("data", d)>>,
                                                 <<Action("death", d), Action("birth", d)>>}
TypesMsg  == /\ msg.pc \in {"check", "act", "clear", "post"}
             /\ msg.on = {"udt"} /\ msg.acts = <<UdtAction>>

Message ==
  /\ DOMAIN msg = {"pc", "on", "changes", "acts", "val"}
  /\ msg.val \in {0, 1} /\ msg.changes \in {"device", "metrics", "values", "none"}
  /\ NoMsg \/ OpenMsg \/ DeathMsg \/ DeviceMsg \/ TypesMsg
  /\ msg.pc \in {"act", "send", "mark"} => msg.acts # <<>>

\* The counters: bdSeq counts the callbacks "disconnected", which losses and failed
\* attempts cause; connections and losses of the internal broker alternate.
LossToCome == callbacks # <<>> /\ callbacks[Len(callbacks)] = "disconnected"

Flags == up \in BOOLEAN /\ init \in BOOLEAN /\ intUp \in BOOLEAN /\ intFresh \in BOOLEAN

ScadaCounts ==
  /\ bdSeq \in Nat /\ semBirth \in Nat
  /\ losses \in 0..MaxLosses /\ fails \in 0..MaxFails
  /\ bdSeq <= losses + fails /\ (LossToCome => bdSeq < losses + fails)

IntCounts ==
  /\ intLosses \in 0..MaxIntLosses
  /\ lossOwed \in Nat /\ estOwed \in Nat /\ semLost \in Nat /\ semEst \in Nat
  /\ lossOwed + semLost <= intLosses + 1
  /\ intFresh => lossOwed + semLost <= intLosses
  /\ estOwed + semEst <= intLosses + 1
  /\ ~intUp => estOwed + semEst <= intLosses

Counted ==
  /\ Flags /\ ScadaCounts /\ IntCounts
  /\ seq \in 0..(Numbers - 1) /\ msgs \in 0..MaxMsgs /\ rebirths \in 0..MaxRebirths

TInv == Links /\ Records /\ Busy /\ Known /\ Message /\ Counted /\ crossed \subseteq Subjects

-----------------------------------------------------------------------------
(* Lists *)

\* The list that a thread walks through.
LEMMA FirstRest ==
  ASSUME NEW S, S # {}
  PROVE  /\ First(S) \in S /\ Rest(S) \subseteq S
         /\ \A d \in S : d \in Rest(S) \/ d = First(S)
         /\ First(S) \notin Rest(S)
  BY DEF First, Rest

\* The actions of a message about one device.
LEMMA ActionsAre ==
  ASSUME NEW d
  PROVE  /\ Actions(<<>>, d) = <<>>
         /\ Actions(<<"birth">>, d) = <<Action("birth", d)>>
         /\ Actions(<<"data">>, d) = <<Action("data", d)>>
         /\ Actions(<<"death">>, d) = <<Action("death", d)>>
         /\ Actions(<<"death", "birth">>, d) = <<Action("death", d), Action("birth", d)>>
  BY DEF Actions

\* SetToSeq lists every member.
LEMMA Listed ==
  ASSUME NEW S, IsFiniteSet(S)
  PROVE  /\ SetToSeq(S) \in Seq(S)
         /\ \A d \in S : \E i \in DOMAIN SetToSeq(S) : SetToSeq(S)[i] = d
<1> DEFINE n == Cardinality(S)
           s == SetToSeq(S)
<1>1. n \in Nat
  BY FS_CardinalityType
<1>2. \E f \in [1..n -> S] : IsInjective(f)
  <2>1. PICK f \in Bijection(1..n, S) : TRUE
    BY FS_CountingElements, FS_NatBijection, FS_CardinalityType DEF ExistsBijection
  <2> QED
    BY <2>1 DEF Bijection, Injection, IsInjective
<1>3. s \in [1..n -> S] /\ IsInjective(s)
  BY <1>2 DEF SetToSeq
<1>4. ASSUME NEW d \in S, \A i \in 1..n : s[i] # d
      PROVE  FALSE
  <2>1. IsFiniteSet(S \ {d}) /\ Cardinality(S \ {d}) = n - 1
    BY FS_RemoveElement
  <2>2. s \in [1..n -> S \ {d}]
    BY <1>3, <1>4
  <2>3. IsFiniteSet(1..n) /\ Cardinality(1..n) = n
    BY <1>1, FS_Interval
  <2>4. \E i, j \in 1..n : i # j /\ s[i] = s[j]
    BY <1>1, <2>1, <2>2, <2>3, FS_PigeonHole
  <2> QED
    BY <1>3, <2>4 DEF IsInjective
<1>5. DOMAIN s = 1..n /\ s \in Seq(S)
  BY <1>1, <1>3
<1> QED
  BY <1>4, <1>5

-----------------------------------------------------------------------------
(* Every step keeps the types *)

\* A sum with a smaller part.
LEMMA Less ==
  ASSUME NEW a \in Nat, NEW b \in Nat, NEW c \in Nat, c <= b
  PROVE  /\ a + c <= a + b /\ c + a <= b + a
         /\ \A n \in Nat : (a + b <= n => a + c <= n) /\ (b + a <= n => c + a <= n)
  OBVIOUS

\* The bounds are numbers.
LEMMA Bounds ==
  /\ MaxLosses \in Nat /\ MaxFails \in Nat /\ MaxIntLosses \in Nat
  /\ MaxMsgs \in Nat /\ MaxRebirths \in Nat
  BY NodeAssumption

\* The connection to the SCADA broker.
LEMMA LinkTypes ==
  ASSUME IInv, TInv, Links', LinkUp \/ LinkFails \/ LinkLost \/ Connected \/ Disconnected
  PROVE  Records' /\ Busy' /\ Known' /\ Message' /\ Counted'
<1> USE DEF nodeVars, intVars, devVars, pubVars, threads, counts
<1>1. UNCHANGED <<birth, lost, est, msg, ext, devs, known, pub, val, udts, seq, intVars, counts>>
  BY DEF LinkUp, LinkFails, LinkLost, Connected, Disconnected
<1>2. NoNode \in Host
  BY NodeAssumption DEF NoNode, Host
<1>3. host' \in {host, NoNode}
  BY DEF LinkUp, LinkFails, LinkLost, Connected, Disconnected
<1>4. Records' /\ Busy' /\ Known'
  BY <1>1, <1>2, <1>3 DEF TInv, Records, Busy, Known, BirthState, LostState, EstState
<1>5. Message'
  BY <1>1 DEF TInv, Message, NoMsg, OpenMsg, DeathMsg, DeviceMsg, TypesMsg
<1>6. ScadaCounts'
  <2>0. ScadaCounts /\ Links
    BY DEF TInv, Counted
  <2>1. CASE LinkUp
    BY <2>0, <2>1 DEF LinkUp, LossToCome, ScadaCounts
  <2>2. CASE LinkFails
    <3>1. ~LossToCome /\ fails < MaxFails
      BY <2>2 DEF LinkFails, LossToCome
    <3>2. fails' = fails + 1 /\ UNCHANGED <<bdSeq, semBirth, losses>>
      BY <2>2 DEF LinkFails
    <3> QED
      BY ONLY <2>0, <3>1, <3>2, Bounds DEF ScadaCounts
  <2>3. CASE LinkLost
    <3>1. ~LossToCome /\ losses < MaxLosses
      BY <2>0, <2>3 DEF LinkLost, Links, LossToCome
    <3>2. losses' = losses + 1 /\ UNCHANGED <<bdSeq, semBirth, fails>>
      BY <2>3 DEF LinkLost
    <3> QED
      BY ONLY <2>0, <3>1, <3>2, Bounds DEF ScadaCounts
  <2>4. CASE Connected
    <3>1. LossToCome' => LossToCome
      BY <2>0, <2>4 DEF Connected, Links, LossToCome
    <3>2. semBirth' = semBirth + 1 /\ UNCHANGED <<bdSeq, losses, fails>>
      BY <2>4 DEF Connected
    <3> QED
      BY ONLY <2>0, <3>1, <3>2, Bounds DEF ScadaCounts
  <2>5. CASE Disconnected
    <3>1. LossToCome /\ ~LossToCome'
      BY <2>0, <2>5 DEF Disconnected, Links, LossToCome
    <3>2. bdSeq' = bdSeq + 1 /\ UNCHANGED <<semBirth, losses, fails>>
      BY <2>5 DEF Disconnected
    <3> QED
      BY ONLY <2>0, <3>1, <3>2, Bounds DEF ScadaCounts
  <2> QED
    BY <2>1, <2>2, <2>3, <2>4, <2>5
<1>7. up' \in BOOLEAN /\ init' \in BOOLEAN
  BY Zenon DEF LinkUp, LinkFails, LinkLost, Connected, Disconnected, TInv, Counted, Flags
<1>8. Counted'
  BY <1>1, <1>6, <1>7 DEF TInv, Counted, IntCounts, Flags
<1> QED
  BY <1>4, <1>5, <1>8

\* What is told of a device.
LEMMA PublishTypes ==
  ASSUME TInv,
         \/ \E d \in Devices, a \in BOOLEAN, v \in {0, 1} : PublishDevice(d, a, v)
         \/ \E d \in Devices, v \in {0, 1} : PublishData(d, v)
         \/ UNCHANGED pubVars
  PROVE  /\ host' \in Host
         /\ seq' \in 0..(Numbers - 1)
<1>1. host \in Host /\ seq \in 0..(Numbers - 1)
  BY DEF TInv, Records, Counted
<1>2. \A n \in 0..(Numbers - 1) : (n + 1) % Numbers \in 0..(Numbers - 1)
  BY NodeAssumption
<1>3. NextNumber \in 0..(Numbers - 1) /\ Hears(host) \in Host
  <2>1. NextNumber \in 0..(Numbers - 1)
    BY <1>1, <1>2 DEF NextNumber
  <2>2. (host.seq + 1) % Numbers \in 0..(Numbers - 1)
    BY <1>1, <1>2 DEF Host
  <2> QED
    BY <1>1, <2>1, <2>2 DEF Hears, Host
<1>4. CASE UNCHANGED pubVars
  BY <1>1, <1>4 DEF pubVars
<1>5. CASE \E d \in Devices, a \in BOOLEAN, v \in {0, 1} : PublishDevice(d, a, v)
  <2>1. PICK d \in Devices, a \in BOOLEAN, v \in {0, 1} : PublishDevice(d, a, v)
    BY <1>5
  <2>2. [Hears(host) EXCEPT !.alive = IF a THEN @ \cup {d} ELSE @ \ {d}, !.val[d] = v] \in Host
    BY <1>3 DEF Host
  <2> QED
    BY <1>1, <1>3, <2>1, <2>2 DEF PublishDevice, Publish
<1>6. CASE \E d \in Devices, v \in {0, 1} : PublishData(d, v)
  <2>1. PICK d \in Devices, v \in {0, 1} : PublishData(d, v)
    BY <1>6
  <2>2. [Hears(host) EXCEPT !.val[d] = v] \in Host
    BY <1>3 DEF Host
  <2> QED
    BY <1>1, <1>3, <2>1, <2>2 DEF PublishData, Publish
<1> QED
  BY <1>4, <1>5, <1>6

\* The status of a device of the program is set.
LEMMA SetTypes ==
  ASSUME TInv, NEW d \in devs, NEW s \in Status, SetPublished(d, s)
  PROVE  Known'
  BY DEF TInv, Known, SetPublished

\* What a step leaves alone.
LEMMA SameStates ==
  ASSUME TInv, UNCHANGED devs
  PROVE  /\ BirthState' = BirthState /\ LostState' = LostState /\ EstState' = EstState
         /\ UNCHANGED birth => birth' \in BirthState
         /\ UNCHANGED lost => lost' \in LostState
         /\ UNCHANGED est => est' \in EstState
         /\ birth \in BirthState /\ lost \in LostState /\ est \in EstState
  BY DEF TInv, Records, BirthState, LostState, EstState

\* The message is left alone.
LEMMA SameMessage ==
  ASSUME TInv, UNCHANGED <<msg, devs>>
  PROVE  Message'
  BY DEF TInv, Message, NoMsg, OpenMsg, DeathMsg, DeviceMsg, TypesMsg

\* The thread of the birth process keeps the types, ...
LEMMA BirthTypes ==
  ASSUME IInv, TInv, Links', BirthThread
  PROVE  Records' /\ Busy' /\ Known' /\ Message' /\ Counted'
<1> USE DEF BirthOnly, extVars, intVars, devVars, pubVars, counts
<1>1. UNCHANGED <<up, callbacks, losses, fails, bdSeq, intVars, lost, est, msg, ext, counts,
                  devs, known, val, udts>>
  BY DEF BirthThread, BirthWait, BirthNode, BirthNBirth, BirthList, BirthPrep, BirthSend,
     BirthMark, BirthInit, SetPublished
<1>2. birth.pc \in {"prep", "send", "mark"} =>
        /\ First(birth.todo) \in devs /\ First(birth.todo) \in Devices
        /\ Rest(birth.todo) \in SUBSET devs
  BY FirstRest DEF TInv, Records, BirthState, Busy, Known
<1>3. birth' \in BirthState /\ (birth'.pc \in {"prep", "send", "mark"} => birth'.todo # {})
  <2>1. /\ birth \in BirthState
        /\ birth.pc \in {"prep", "send", "mark"} => birth.todo # {}
        /\ bdSeq \in Nat /\ udts \in {0, 1} /\ val \in [Devices -> {0, 1}]
    BY DEF TInv, Records, Busy, Counted, ScadaCounts, Known
  <2> USE DEF BirthNext, BirthGoto, BirthState
  <2>2. CASE BirthWait \/ BirthInit
    BY <2>1, <2>2 DEF BirthWait, BirthInit
  <2>3. CASE BirthNode
    BY <2>1, <2>3 DEF BirthNode
  <2>8. CASE BirthNBirth
    BY <2>1, <2>8 DEF BirthNBirth
  <2>4. CASE BirthList
    BY <2>1, <2>4 DEF BirthList
  <2>5. CASE BirthPrep
    BY <1>2, <2>1, <2>5 DEF BirthPrep
  <2>6. CASE BirthSend
    BY <2>1, <2>6 DEF BirthSend
  <2>7. CASE BirthMark
    BY <1>2, <2>1, <2>7 DEF BirthMark
  <2> QED
    BY <2>2, <2>3, <2>4, <2>5, <2>6, <2>7, <2>8 DEF BirthThread
<1>4. host' \in Host /\ seq' \in 0..(Numbers - 1)
  <2>1. CASE BirthNBirth
    <3>1. [NoNode EXCEPT !.on = TRUE, !.bd = birth.bd, !.udts = birth.udts] \in Host
      <4>1. birth.bd \in Nat /\ birth.udts \in {0, 1} /\ 0 \in 0..(Numbers - 1)
        BY NodeAssumption DEF TInv, Records, BirthState
      <4> QED
        BY <4>1 DEF NoNode, Host
    <3> QED
      BY <2>1, <3>1, NodeAssumption DEF BirthNBirth, PublishNBirth, Publish, TInv, Records
  <2>2. CASE BirthSend
    <3>1. \E d \in Devices, a \in BOOLEAN, v \in {0, 1} : PublishDevice(d, a, v)
      BY <1>2, <2>2 DEF BirthSend, TInv, Records, BirthState
    <3> QED
      BY <3>1, PublishTypes
  <2>3. CASE ~BirthNBirth /\ ~BirthSend
    <3>1. UNCHANGED pubVars
      BY <2>3 DEF BirthThread, BirthWait, BirthNode, BirthList, BirthPrep, BirthMark, BirthInit
    <3> QED
      BY <3>1, PublishTypes
  <2> QED
    BY <2>1, <2>2, <2>3
<1>5. Known'
  <2>1. CASE BirthMark
    BY <1>2, <2>1, SetTypes DEF BirthMark, Status
  <2>2. CASE ~BirthMark
    <3>1. UNCHANGED devVars
      BY <2>2 DEF BirthThread, BirthWait, BirthNode, BirthNBirth, BirthList, BirthPrep,
         BirthSend, BirthInit
    <3> QED
      BY <3>1 DEF TInv, Known
  <2> QED
    BY <2>1, <2>2
<1>6. Records'
  BY <1>1, <1>3, <1>4, SameStates DEF Records, TInv
<1>7. Busy'
  BY <1>1, <1>3 DEF Busy, TInv
<1>8. semBirth' \in Nat
  <2>1. CASE BirthWait
    BY <2>1 DEF BirthWait, TInv, Counted, ScadaCounts
  <2>2. CASE ~BirthWait
    <3>1. UNCHANGED semBirth
      BY <2>2 DEF BirthThread, BirthNode, BirthNBirth, BirthList, BirthPrep, BirthSend,
         BirthMark, BirthInit
    <3> QED
      BY <3>1 DEF TInv, Counted, ScadaCounts
  <2> QED
    BY <2>1, <2>2
<1>9. init' \in BOOLEAN
  BY Zenon DEF BirthThread, BirthWait, BirthNode, BirthNBirth, BirthList, BirthPrep, BirthSend,
     BirthMark, BirthInit, TInv, Counted, Flags
<1>10. Counted'
  BY <1>1, <1>4, <1>8, <1>9 DEF TInv, Counted, Flags, ScadaCounts, IntCounts, LossToCome
<1> QED
  BY <1>1, <1>5, <1>6, <1>7, <1>10, SameMessage

\* ... that of the losses and ...
LEMMA LostTypes ==
  ASSUME IInv, TInv, Links', LostThread
  PROVE  Records' /\ Busy' /\ Known' /\ Message' /\ Counted'
<1> USE DEF LostOnly, extVars, nodeVars, devVars, pubVars, counts
<1>1. UNCHANGED <<up, callbacks, losses, fails, nodeVars, intUp, intFresh, intLosses, lossOwed,
                  estOwed, semEst, birth, est, msg, ext, counts, devs, known, val, udts>>
  BY DEF LostThread, LostWait, LostLink, LostInit, LostSend, LostMark, SetPublished
<1>2. lost.pc # "wait" =>
        /\ First(lost.todo) \in devs /\ First(lost.todo) \in Devices
        /\ Rest(lost.todo) \in SUBSET devs
  BY FirstRest DEF TInv, Records, LostState, Busy, Known
<1>3. lost' \in LostState /\ (lost'.pc # "wait" => lost'.todo # {})
  <2>1. lost \in LostState /\ (lost.pc # "wait" => lost.todo # {})
    BY DEF TInv, Records, Busy
  <2> USE DEF LostNext, LostGoto, LostState
  <2>2. CASE LostWait
    BY <2>1, <2>2 DEF LostWait
  <2>3. CASE LostLink \/ LostInit
    BY <2>1, <2>3 DEF LostLink, LostInit
  <2>4. CASE LostSend
    BY <2>1, <2>4 DEF LostSend
  <2>5. CASE LostMark
    BY <1>2, <2>1, <2>5 DEF LostMark
  <2> QED
    BY <2>2, <2>3, <2>4, <2>5 DEF LostThread
<1>4. host' \in Host /\ seq' \in 0..(Numbers - 1)
  <2>1. CASE LostSend
    <3>1. \E d \in Devices, a \in BOOLEAN, v \in {0, 1} : PublishDevice(d, a, v)
      BY <1>2, <2>1 DEF LostSend
    <3> QED
      BY <3>1, PublishTypes
  <2>2. CASE ~LostSend
    <3>1. UNCHANGED pubVars
      BY <2>2 DEF LostThread, LostWait, LostLink, LostInit, LostMark
    <3> QED
      BY <3>1, PublishTypes
  <2> QED
    BY <2>1, <2>2
<1>5. Known'
  <2>1. CASE LostMark
    BY <1>2, <2>1, SetTypes DEF LostMark, Status
  <2>2. CASE ~LostMark
    <3>1. UNCHANGED devVars
      BY <2>2 DEF LostThread, LostWait, LostLink, LostInit, LostSend
    <3> QED
      BY <3>1 DEF TInv, Known
  <2> QED
    BY <2>1, <2>2
<1>6. Records'
  BY <1>1, <1>3, <1>4, SameStates DEF Records, TInv
<1>7. Busy'
  BY <1>1, <1>3 DEF Busy, TInv
<1>8. semLost' \in Nat /\ semLost' <= semLost
  <2>1. CASE LostWait
    BY <2>1 DEF LostWait, TInv, Counted, IntCounts
  <2>2. CASE ~LostWait
    <3>1. UNCHANGED semLost
      BY <2>2 DEF LostThread, LostLink, LostInit, LostSend, LostMark
    <3> QED
      BY <3>1 DEF TInv, Counted, IntCounts
  <2> QED
    BY <2>1, <2>2
<1>9. Counted'
  <2>1. ScadaCounts'
    BY <1>1 DEF TInv, Counted, ScadaCounts, LossToCome, nodeVars
  <2>2. IntCounts'
    <3>1. IntCounts /\ UNCHANGED <<intUp, intFresh, intLosses, lossOwed, estOwed, semEst>>
      BY <1>1 DEF TInv, Counted
    <3>2. lossOwed \in Nat /\ semLost \in Nat /\ intLosses \in Nat /\ intLosses + 1 \in Nat
      BY <3>1, Bounds DEF IntCounts
    <3>3. \A n \in Nat : lossOwed + semLost <= n => lossOwed + semLost' <= n
      BY <1>8, <3>2, Less
    <3> QED
      BY ONLY <1>8, <3>1, <3>2, <3>3 DEF IntCounts
  <2>3. Flags'
    BY <1>1 DEF TInv, Counted, Flags, nodeVars
  <2> QED
    BY <1>1, <1>4, <2>1, <2>2, <2>3 DEF TInv, Counted
<1> QED
  BY <1>1, <1>5, <1>6, <1>7, <1>9, SameMessage

\* ... that of the connections.
LEMMA EstTypes ==
  ASSUME IInv, TInv, Links', EstThread
  PROVE  Records' /\ Busy' /\ Known' /\ Message' /\ Counted'
<1> USE DEF EstOnly, extVars, nodeVars, devVars, pubVars, counts
<1>1. UNCHANGED <<up, callbacks, losses, fails, nodeVars, intUp, intFresh, intLosses, lossOwed,
                  estOwed, semLost, birth, lost, msg, ext, counts, devs, known, val, udts>>
  BY DEF EstThread, EstWait, EstInit, EstPrep, EstSend, EstMark, SetPublished
<1>2. est.pc \in {"prep", "send", "mark"} =>
        /\ First(est.todo) \in devs /\ First(est.todo) \in Devices
        /\ Rest(est.todo) \in SUBSET devs
  BY FirstRest DEF TInv, Records, EstState, Busy, Known
<1>3. est' \in EstState /\ (est'.pc \in {"prep", "send", "mark"} => est'.todo # {})
  <2>1. /\ est \in EstState
        /\ est.pc \in {"prep", "send", "mark"} => est.todo # {}
        /\ val \in [Devices -> {0, 1}]
    BY DEF TInv, Records, Busy, Known
  <2> USE DEF EstNext, EstGoto, EstState
  <2>2. CASE EstWait
    BY <2>1, <2>2 DEF EstWait
  <2>3. CASE EstInit
    BY <2>1, <2>3 DEF EstInit
  <2>4. CASE EstPrep
    BY <1>2, <2>1, <2>4 DEF EstPrep
  <2>5. CASE EstSend
    BY <2>1, <2>5 DEF EstSend
  <2>6. CASE EstMark
    BY <1>2, <2>1, <2>6 DEF EstMark
  <2> QED
    BY <2>2, <2>3, <2>4, <2>5, <2>6 DEF EstThread
<1>4. host' \in Host /\ seq' \in 0..(Numbers - 1)
  <2>1. CASE EstSend
    <3>1. \E d \in Devices, a \in BOOLEAN, v \in {0, 1} : PublishDevice(d, a, v)
      BY <1>2, <2>1 DEF EstSend, TInv, Records, EstState
    <3> QED
      BY <3>1, PublishTypes
  <2>2. CASE ~EstSend
    <3>1. UNCHANGED pubVars
      BY <2>2 DEF EstThread, EstWait, EstInit, EstPrep, EstMark
    <3> QED
      BY <3>1, PublishTypes
  <2> QED
    BY <2>1, <2>2
<1>5. Known'
  <2>1. CASE EstMark
    BY <1>2, <2>1, SetTypes DEF EstMark, Status
  <2>2. CASE ~EstMark
    <3>1. UNCHANGED devVars
      BY <2>2 DEF EstThread, EstWait, EstInit, EstPrep, EstSend
    <3> QED
      BY <3>1 DEF TInv, Known
  <2> QED
    BY <2>1, <2>2
<1>6. Records'
  BY <1>1, <1>3, <1>4, SameStates DEF Records, TInv
<1>7. Busy'
  BY <1>1, <1>3 DEF Busy, TInv
<1>8. semEst' \in Nat /\ semEst' <= semEst
  <2>1. CASE EstWait
    BY <2>1 DEF EstWait, TInv, Counted, IntCounts
  <2>2. CASE ~EstWait
    <3>1. UNCHANGED semEst
      BY <2>2 DEF EstThread, EstInit, EstPrep, EstSend, EstMark
    <3> QED
      BY <3>1 DEF TInv, Counted, IntCounts
  <2> QED
    BY <2>1, <2>2
<1>9. Counted'
  <2>1. ScadaCounts'
    BY <1>1 DEF TInv, Counted, ScadaCounts, LossToCome, nodeVars
  <2>2. IntCounts'
    <3>1. IntCounts /\ UNCHANGED <<intUp, intFresh, intLosses, lossOwed, estOwed, semLost>>
      BY <1>1 DEF TInv, Counted
    <3>2. estOwed \in Nat /\ semEst \in Nat /\ intLosses \in Nat /\ intLosses + 1 \in Nat
      BY <3>1, Bounds DEF IntCounts
    <3>3. \A n \in Nat : estOwed + semEst <= n => estOwed + semEst' <= n
      BY <1>8, <3>2, Less
    <3> QED
      BY ONLY <1>8, <3>1, <3>2, <3>3 DEF IntCounts
  <2>3. Flags'
    BY <1>1 DEF TInv, Counted, Flags, nodeVars
  <2> QED
    BY <1>1, <1>4, <2>1, <2>2, <2>3 DEF TInv, Counted
<1> QED
  BY <1>1, <1>5, <1>6, <1>7, <1>9, SameMessage

\* The connection to the internal broker, and the rebirth command.
LEMMA OtherTypes ==
  ASSUME IInv, TInv, Links', IntLinkStep \/ ExtThread
  PROVE  Records' /\ Busy' /\ Known' /\ Message' /\ Counted'
<1> USE DEF extVars, nodeVars, devVars, pubVars, threads, counts
<1>1. UNCHANGED <<up, callbacks, losses, fails, bdSeq, birth, lost, est, msg, msgs,
                  devs, known, pub, val, udts, seq, host>>
  BY DEF IntLinkStep, ExtThread, Rebirth, ExtClear, ExtPost, ExtOnly
<1>2. Message'
  BY <1>1 DEF TInv, Message, NoMsg, OpenMsg, DeathMsg, DeviceMsg, TypesMsg
<1>3. ext' \in {"wait", "clear", "post"}
  BY DEF IntLinkStep, ExtThread, Rebirth, ExtClear, ExtPost, TInv, Records
<1>4. Records' /\ Busy' /\ Known'
  BY <1>1, <1>3 DEF TInv, Records, Busy, Known, BirthState, LostState, EstState
<1>5. Counted'
  <2>1. CASE ExtThread
    <3>1. UNCHANGED intVars
      BY <2>1 DEF ExtThread, Rebirth, ExtClear, ExtPost, ExtOnly
    <3>2. IntCounts'
      BY <3>1 DEF TInv, Counted, IntCounts, intVars
    <3>3. semBirth \in Nat /\ rebirths \in 0..MaxRebirths
      BY DEF TInv, Counted, ScadaCounts
    <3>4. semBirth' \in Nat /\ rebirths' \in 0..MaxRebirths
      BY ONLY <2>1, <3>3, Bounds DEF ExtThread, Rebirth, ExtClear, ExtPost, ExtOnly
    <3>5. init' \in BOOLEAN
      BY <2>1, Zenon DEF ExtThread, Rebirth, ExtClear, ExtPost, TInv, Counted, Flags
    <3> QED
      <4>1. Flags'
        BY <1>1, <3>1, <3>5 DEF TInv, Counted, Flags, intVars
      <4>2. ScadaCounts'
        BY <1>1, <3>4 DEF TInv, Counted, ScadaCounts, LossToCome
      <4> QED
        BY <1>1, <3>2, <3>4, <4>1, <4>2 DEF TInv, Counted
  <2>2. CASE IntLinkStep
    <3>1. UNCHANGED <<init, semBirth, rebirths>>
      BY <2>2 DEF IntLinkStep
    <3>2. IntCounts'
      <4>0. IntCounts
        BY DEF TInv, Counted
      <4>1. CASE Internal!Establish
        BY ONLY <4>0, <4>1, Bounds DEF Internal!Establish, IntCounts
      <4>2. CASE Internal!FirstFails
        BY ONLY <4>0, <4>2, Bounds DEF Internal!FirstFails, IntCounts
      <4>3. CASE Internal!Lose
        BY ONLY <4>0, <4>3, Bounds DEF Internal!Lose, IntCounts
      <4>4. CASE Internal!SignalEstablished
        BY ONLY <4>0, <4>4, Bounds DEF Internal!SignalEstablished, IntCounts
      <4>5. CASE Internal!SignalLost
        BY ONLY <4>0, <4>5, Bounds DEF Internal!SignalLost, IntCounts
      <4>6. CASE Internal!KeepQuiet
        BY ONLY <4>0, <4>6, Bounds DEF Internal!KeepQuiet, IntCounts
      <4> QED
        BY <2>2, <4>1, <4>2, <4>3, <4>4, <4>5, <4>6 DEF IntLinkStep, Internal!Next
    <3>3. intUp' \in BOOLEAN /\ intFresh' \in BOOLEAN
      BY <2>2, Zenon DEF IntLinkStep, Internal!Next, Internal!Establish, Internal!FirstFails,
         Internal!Lose, Internal!SignalEstablished, Internal!SignalLost, Internal!KeepQuiet,
         TInv, Counted, Flags
    <3> QED
      BY <1>1, <3>1, <3>2, <3>3 DEF TInv, Counted, Flags, ScadaCounts, LossToCome
  <2> QED
    BY <2>1, <2>2
<1> QED
  BY <1>2, <1>4, <1>5

-----------------------------------------------------------------------------
(* Messages *)

\* Sequences of one and of two.
LEMMA Short ==
  ASSUME NEW S, NEW a \in S, NEW b
  PROVE  /\ <<>> \in Seq(S) /\ <<a>> \in Seq(S) /\ <<a>> # <<>>
         /\ Head(<<a>>) = a /\ Tail(<<a>>) = <<>>
         /\ Head(<<a, b>>) = a /\ Tail(<<a, b>>) = <<b>>
         /\ <<a, b>> # <<>> /\ <<a, b>> # <<a>>
<1>1. Head(<<a, b>>) = a
  OBVIOUS
<1>2. Tail(<<a, b>>) = <<b>>
  OBVIOUS
<1>3. Head(<<a>>) = a /\ Tail(<<a>>) = <<>>
  OBVIOUS
<1>4. <<>> \in Seq(S) /\ <<a>> \in Seq(S)
  OBVIOUS
<1>5. <<a>> # <<>> /\ <<a, b>> # <<>> /\ <<a, b>> # <<a>>
  OBVIOUS
<1> QED
  BY <1>1, <1>2, <1>3, <1>4, <1>5

\* A message about devices, its next action, and what is left of it then.
LEMMA Acting ==
  ASSUME TInv, DeathMsg \/ DeviceMsg, msg.acts # <<>>
  PROVE  /\ Head(msg.acts) = Action(Head(msg.acts).type, Head(msg.acts).dev)
         /\ Head(msg.acts).type \in {"birth", "data", "death"}
         /\ Head(msg.acts).dev \in msg.on /\ Head(msg.acts).dev \in devs
         /\ DeathMsg => Tail(msg.acts) \in Seq([type : {"death"}, dev : msg.on])
         /\ \A d \in devs : msg.on = {d} /\ DeviceMsg =>
              Tail(msg.acts) \in {<<>>, <<Action("birth", d)>>}
<1>1. CASE DeathMsg
  <2>1. Head(msg.acts) \in [type : {"death"}, dev : msg.on]
        /\ Tail(msg.acts) \in Seq([type : {"death"}, dev : msg.on])
    BY <1>1, HeadTailProperties DEF DeathMsg
  <2>2. ~DeviceMsg \/ \A d \in devs : msg.on = {d} => Tail(msg.acts) = <<>>
    BY <1>1, <2>1 DEF DeviceMsg, Action
  <2> QED
    BY <1>1, <2>1, <2>2 DEF DeathMsg, Action
<1>2. CASE DeviceMsg /\ ~DeathMsg
  <2>1. PICK d \in devs : /\ msg.on = {d}
                          /\ msg.acts \in {<<Action("birth", d)>>, <<Action("data", d)>>,
                                           <<Action("death", d), Action("birth", d)>>}
    BY <1>2 DEF DeviceMsg
  <2>2. /\ Head(msg.acts) \in {Action("birth", d), Action("data", d), Action("death", d)}
        /\ Tail(msg.acts) \in {<<>>, <<Action("birth", d)>>}
    <3>1. \A a, b : /\ Head(<<a>>) = a /\ Tail(<<a>>) = <<>>
                    /\ Head(<<a, b>>) = a /\ Tail(<<a, b>>) = <<b>>
      <4> TAKE a, b
      <4> QED
        BY ONLY Short
    <3> QED
      BY <2>1, <3>1, Zenon
  <2> QED
    BY <1>2, <2>1, <2>2 DEF Action
<1> QED
  BY <1>1, <1>2

\* The message goes on to its next action, or is done.
LEMMA NextTypes ==
  ASSUME TInv, UNCHANGED devs, DeathMsg \/ DeviceMsg,
         \/ msg' = MsgNext(msg.acts) /\ msg.acts # <<>>
         \/ msg' = MsgNext(Tail(msg.acts)) /\ msg.acts # <<>>
         \/ msg' = NoMessage
  PROVE  Message'
<1> USE DEF Message, TInv
<1>1. CASE msg' = NoMessage
  BY <1>1 DEF NoMessage, NoMsg
<1>2. CASE msg' # NoMessage
  <2>1. PICK acts : /\ acts # <<>> /\ msg.acts # <<>>
                    /\ acts = msg.acts \/ acts = Tail(msg.acts)
                    /\ msg' = [msg EXCEPT !.pc = "act", !.acts = acts, !.val = 0]
    BY <1>2 DEF MsgNext
  <2>2. /\ DOMAIN msg' = {"pc", "on", "changes", "acts", "val"}
        /\ msg'.pc = "act" /\ msg'.on = msg.on /\ msg'.changes = msg.changes
        /\ msg'.acts = acts /\ msg'.val = 0
    BY <2>1
  <2>3. CASE DeathMsg
    <3>1. acts \in Seq([type : {"death"}, dev : msg.on])
      BY <2>1, <2>3, Acting DEF DeathMsg
    <3>2. DeathMsg'
      BY <2>2, <2>3, <3>1 DEF DeathMsg, Working
    <3> QED
      BY <2>1, <2>2, <3>2
  <2>4. CASE DeviceMsg
    <3>1. PICK d \in devs : /\ msg.on = {d}
                            /\ msg.acts \in {<<Action("birth", d)>>, <<Action("data", d)>>,
                                             <<Action("death", d), Action("birth", d)>>}
      BY <2>4 DEF DeviceMsg
    <3>2. acts \in {<<Action("birth", d)>>, <<Action("data", d)>>,
                    <<Action("death", d), Action("birth", d)>>}
      BY <2>1, <2>4, <3>1, Acting
    <3>3. DeviceMsg'
      BY <2>2, <3>1, <3>2 DEF DeviceMsg, Working
    <3> QED
      BY <2>1, <2>2, <3>3
  <2> QED
    BY <2>3, <2>4
<1> QED
  BY <1>1, <1>2

\* Only the state of its action changes.
LEMMA GotoTypes ==
  ASSUME TInv, UNCHANGED devs, DeathMsg \/ DeviceMsg, msg.acts # <<>>,
         NEW pc \in {"send", "mark"}, NEW v \in {0, 1},
         msg' = [msg EXCEPT !.pc = pc, !.val = v]
  PROVE  Message'
<1> USE DEF Message, TInv
<1>1. /\ DOMAIN msg' = {"pc", "on", "changes", "acts", "val"}
      /\ msg'.pc = pc /\ msg'.on = msg.on /\ msg'.changes = msg.changes
      /\ msg'.acts = msg.acts /\ msg'.val = v
  OBVIOUS
<1>2. DeathMsg => DeathMsg'
  BY <1>1 DEF DeathMsg, Working
<1>3. DeviceMsg => DeviceMsg'
  BY <1>1 DEF DeviceMsg, Working
<1> QED
  BY <1>1, <1>2, <1>3

\* A message was decided about.
LEMMA DecidedTypes ==
  ASSUME NEW on, NEW acts, msg' = Decided(on, acts)
  PROVE  /\ DOMAIN msg' = {"pc", "on", "changes", "acts", "val"}
         /\ msg'.pc = "check" /\ msg'.on = on /\ msg'.acts = acts
         /\ msg'.changes = "none" /\ msg'.val = 0
         /\ on \subseteq devs' /\ acts \in Seq([type : {"death"}, dev : on]) => Message'
         /\ \A d \in devs' : (/\ on = {d}
                              /\ acts \in {<<>>, <<Action("birth", d)>>, <<Action("data", d)>>, <<Action("death", d)>>,
                                           <<Action("death", d), Action("birth", d)>>}) => Message'
<1>1. /\ DOMAIN msg' = {"pc", "on", "changes", "acts", "val"}
      /\ msg'.pc = "check" /\ msg'.on = on /\ msg'.acts = acts
      /\ msg'.changes = "none" /\ msg'.val = 0
  BY DEF Decided, NoMessage
<1>2. ASSUME on \subseteq devs', acts \in Seq([type : {"death"}, dev : on])
      PROVE  Message'
  BY <1>1, <1>2 DEF Message, DeathMsg, Working
<1>3. ASSUME NEW d \in devs', on = {d},
             acts \in {<<>>, <<Action("birth", d)>>, <<Action("data", d)>>, <<Action("death", d)>>,
                       <<Action("death", d), Action("birth", d)>>}
      PROVE  Message'
  <2>1. CASE acts \in {<<>>, <<Action("death", d)>>}
    <3>1. acts \in Seq([type : {"death"}, dev : on])
      <4>1. Action("death", d) \in [type : {"death"}, dev : on]
        BY <1>3 DEF Action
      <4> QED
        BY ONLY <2>1, <4>1, Short
    <3> QED
      BY <1>2, <1>3, <3>1
  <2>2. CASE acts \notin {<<>>, <<Action("death", d)>>}
    <3>1. DeviceMsg'
      BY <1>1, <1>3, <2>2 DEF DeviceMsg, Working
    <3> QED
      BY <1>1, <3>1 DEF Message
  <2> QED
    BY <2>1, <2>2
<1> QED
  BY <1>1, <1>2, <1>3

\* What the steps of the message thread leave alone.
LEMMA MsgFrame ==
  ASSUME TInv, MsgThread
  PROVE  /\ UNCHANGED <<up, callbacks, losses, fails, bdSeq, intVars, birth, lost, est, ext, rebirths>>
         /\ Busy'
<1>1. MsgOnly
  BY DEF MsgThread, MsgArrives, RealUpdate, VendorBirth, VendorData, VendorDeath, TemplateDef,
     MsgTake, VendorDecide, MsgCheck, MsgAct, MsgSend, MsgMark, MsgClear, MsgPost
<1> QED
  BY <1>1 DEF MsgOnly, extVars, TInv, Busy

\* A message arrives: what it does to the devices, and what it says.
LEMMA ArriveTypes ==
  ASSUME IInv, TInv, MsgArrives
  PROVE  /\ UNCHANGED <<init, semBirth, seq, host>> /\ msgs' \in 0..MaxMsgs
         /\ devs \subseteq devs' /\ Known' /\ Message'
<1>1. MsgTake
  BY DEF MsgArrives, RealUpdate, VendorBirth, VendorData, VendorDeath, TemplateDef
<1>2. UNCHANGED <<init, semBirth, seq, host>> /\ msgs' \in 0..MaxMsgs
  <2>1. msgs \in 0..MaxMsgs
    BY DEF TInv, Counted
  <2> QED
    BY ONLY <1>1, <2>1, Bounds DEF MsgTake, pubVars
<1>3. /\ devs \subseteq Devices /\ Devices \ Vendor \subseteq devs /\ Vendor \subseteq Devices
      /\ known \in [Devices -> Status] /\ pub \in [Devices -> Status]
      /\ val \in [Devices -> {0, 1}] /\ udts \in {0, 1}
      /\ \A d \in Devices \ devs : pub[d] = "none"
  BY NodeAssumption DEF TInv, Known
<1>4. CASE \E d \in Devices \ Vendor, v \in {0, 1}, q \in {"good", "bad", "death"} : RealUpdate(d, q, v)
  <2>1. PICK d \in Devices \ Vendor, v \in {0, 1}, q \in {"good", "bad", "death"} : RealUpdate(d, q, v)
    BY <1>4
  <2>2. UNCHANGED <<devs, pub, udts>>
    BY <2>1 DEF RealUpdate
  <2>3. val' \in [Devices -> {0, 1}]
    BY <1>3, <2>1 DEF RealUpdate
  <2>4. known' \in [Devices -> Status]
    BY <1>3, <2>1 DEF RealUpdate, Status
  <2>5. Known'
    BY <1>3, <2>2, <2>3, <2>4 DEF Known
  <2>6. PICK types \in {<<>>, <<"birth">>, <<"data">>, <<"death">>} : msg' = Decided({d}, Actions(types, d))
    BY <2>1 DEF RealUpdate
  <2>7. Actions(types, d) \in {<<>>, <<Action("birth", d)>>, <<Action("data", d)>>, <<Action("death", d)>>}
    BY ActionsAre
  <2>8. d \in devs' /\ msg' = Decided({d}, Actions(types, d))
    BY <1>3, <2>1, <2>2, <2>6
  <2>9. Message'
    BY <2>7, <2>8, DecidedTypes
  <2> QED
    BY <1>2, <2>2, <2>5, <2>9
<1>5. CASE \E d \in Vendor, v \in {0, 1} : VendorData(d, v) \/ \E m \in BOOLEAN : VendorBirth(d, m, v)
  <2>1. PICK d \in Vendor, v \in {0, 1} : VendorData(d, v) \/ \E m \in BOOLEAN : VendorBirth(d, m, v)
    BY <1>5
  <2>2. /\ devs' \in {devs, devs \cup {d}} /\ d \in devs'
        /\ val' = [val EXCEPT ![d] = v] /\ UNCHANGED <<known, pub, udts>>
    BY <2>1 DEF VendorData, VendorBirth
  <2>3. Known'
    BY <1>3, <2>2 DEF Known
  <2>4. PICK c \in {"device", "metrics", "values", "none"} :
          msg' = [NoMessage EXCEPT !.pc = "decide", !.on = {d}, !.changes = c]
    BY <2>1 DEF VendorData, VendorBirth, Change
  <2>5. /\ DOMAIN msg' = {"pc", "on", "changes", "acts", "val"}
        /\ msg'.pc = "decide" /\ msg'.on = {d} /\ msg'.changes = c
        /\ msg'.acts = <<>> /\ msg'.val = 0
    BY <2>4 DEF NoMessage
  <2>6. Message'
    BY <2>2, <2>5 DEF Message, OpenMsg
  <2> QED
    BY <1>2, <2>2, <2>3, <2>6
<1>6. CASE VendorDeath
  <2> DEFINE dead == devs \cap Vendor
             s == SetToSeq(dead)
             acts == [i \in DOMAIN s |-> Action("death", s[i])]
  <2>1. /\ UNCHANGED <<devs, pub, val, udts>> /\ msg' = Decided(dead, acts)
        /\ known' = [d \in Devices |-> IF d \in dead THEN "down" ELSE known[d]]
    BY <1>6 DEF VendorDeath
  <2>2. Known'
    BY <1>3, <2>1 DEF Known, Status
  <2>3. acts \in Seq([type : {"death"}, dev : dead])
    <3>1. IsFiniteSet(dead)
      BY NodeAssumption, FS_Subset DEF TInv, Known
    <3>2. s \in Seq(dead)
      BY <3>1, Listed
    <3> HIDE DEF dead, s
    <3>3. Len(s) \in Nat /\ DOMAIN s = 1..Len(s) /\ \A i \in 1..Len(s) : s[i] \in dead
      BY <3>2, LenProperties, ElementOfSeq
    <3> QED
      BY <3>3 DEF Action
  <2> HIDE DEF dead, s, acts
  <2>4. dead \subseteq devs'
    BY <2>1 DEF dead
  <2> QED
    BY <1>2, <2>1, <2>2, <2>3, <2>4, DecidedTypes
<1>7. CASE TemplateDef
  <2>1. /\ UNCHANGED <<devs, known, pub, val>> /\ udts' = 1
        /\ msg' = Decided({"udt"}, <<UdtAction>>)
    BY <1>7 DEF TemplateDef, Action, UdtAction
  <2>2. Known'
    BY <1>3, <2>1 DEF Known
  <2>3. Message'
    BY <2>1, DecidedTypes DEF Message, TypesMsg
  <2> QED
    BY <1>2, <2>1, <2>2, <2>3
<1> QED
  BY <1>4, <1>5, <1>6, <1>7 DEF MsgArrives

\* A message of the vendor application is decided about.
LEMMA DecideTypes ==
  ASSUME IInv, TInv, VendorDecide
  PROVE  /\ UNCHANGED <<init, semBirth, seq, host, msgs, devs>>
         /\ Known' /\ Message'
<1>1. UNCHANGED <<init, semBirth, seq, host, msgs, devs, pub, val, udts>>
  BY DEF VendorDecide, pubVars
<1>2. PICK d \in Vendor \cap devs : msg.on = {d}
  BY DEF VendorDecide, TInv, Message, NoMsg, OpenMsg, DeathMsg, DeviceMsg, TypesMsg, Working
<1>3. (CHOOSE x \in msg.on : TRUE) = d
  BY <1>2
<1>4. msg.changes \in {"device", "metrics", "values", "none"}
  BY DEF TInv, Message
<1>5. PICK types \in {<<>>, <<"birth">>, <<"data">>, <<"death", "birth">>} :
        /\ msg' = Decided({d}, Actions(types, d))
        /\ known' = IF types = <<>> THEN known ELSE [known EXCEPT ![d] = "up"]
  BY <1>3, <1>4 DEF VendorDecide
<1>6. Actions(types, d) \in {<<>>, <<Action("birth", d)>>, <<Action("data", d)>>,
                             <<Action("death", d), Action("birth", d)>>}
  BY ActionsAre
<1>7. Message'
  BY <1>1, <1>2, <1>5, <1>6, DecidedTypes
<1>8. Known'
  BY <1>1, <1>5 DEF TInv, Known, Status
<1> QED
  BY <1>1, <1>7, <1>8

\* What a message is, by its state.
LEMMA MsgKinds ==
  ASSUME TInv
  PROVE  /\ msg.pc \in {"send", "mark"} => DeathMsg \/ DeviceMsg
         /\ msg.pc \in {"check", "act"} => DeathMsg \/ DeviceMsg \/ TypesMsg
         /\ msg.pc \in {"clear", "post"} => TypesMsg
         /\ msg.pc \in {"act", "send", "mark"} => msg.acts # <<>>
         /\ TypesMsg => msg.acts = <<UdtAction>> /\ Head(msg.acts) = UdtAction
                        /\ Tail(msg.acts) = <<>> /\ msg.acts # <<>>
<1>1. NoMsg \/ OpenMsg \/ DeathMsg \/ DeviceMsg \/ TypesMsg
  BY DEF TInv, Message
<1>2. msg.pc \in {"act", "send", "mark"} => msg.acts # <<>>
  BY DEF TInv, Message
<1>3. TypesMsg => msg.acts = <<UdtAction>> /\ Head(msg.acts) = UdtAction
                  /\ Tail(msg.acts) = <<>> /\ msg.acts # <<>>
  BY Short DEF TypesMsg
<1>4. /\ msg.pc \in {"send", "mark"} => DeathMsg \/ DeviceMsg
      /\ msg.pc \in {"check", "act"} => DeathMsg \/ DeviceMsg \/ TypesMsg
      /\ msg.pc \in {"clear", "post"} => TypesMsg
  BY <1>1 DEF NoMsg, OpenMsg, DeathMsg, DeviceMsg, TypesMsg, Working
<1> QED
  BY <1>2, <1>3, <1>4

\* The actions of a message.
LEMMA ActionTypes ==
  ASSUME IInv, TInv, MsgCheck \/ MsgAct \/ MsgSend \/ MsgMark \/ MsgClear \/ MsgPost
  PROVE  /\ UNCHANGED <<msgs, devs>> /\ init' \in BOOLEAN /\ semBirth' \in Nat
         /\ host' \in Host /\ seq' \in 0..(Numbers - 1)
         /\ Known' /\ Message'
<1>1. UNCHANGED <<msgs, devs, known, val, udts>>
  BY DEF MsgCheck, MsgAct, MsgSend, MsgMark, MsgClear, MsgPost, MsgOnly, SetPublished, devVars
<1>2. /\ host \in Host /\ seq \in 0..(Numbers - 1) /\ init \in BOOLEAN /\ semBirth \in Nat
      /\ val \in [Devices -> {0, 1}] /\ devs \subseteq Devices
      /\ DOMAIN msg = {"pc", "on", "changes", "acts", "val"} /\ msg.val \in {0, 1}
      /\ msg.changes \in {"device", "metrics", "values", "none"}
  BY DEF TInv, Records, Counted, Flags, ScadaCounts, Known, Message
<1> DEFINE a == Head(msg.acts)
<1>3. CASE MsgCheck
  <2>1. UNCHANGED <<init, semBirth, seq, host, pub>>
    BY <1>3 DEF MsgCheck, devVars, pubVars
  <2>2. Known'
    BY <1>1, <2>1 DEF TInv, Known
  <2>3. CASE TypesMsg
    <3>1. msg' \in {[msg EXCEPT !.pc = "act", !.acts = msg.acts, !.val = 0], NoMessage}
      BY <1>3 DEF MsgCheck, MsgNext
    <3>2. CASE msg' = NoMessage
      BY <1>1, <1>2, <2>1, <2>2, <3>2 DEF Message, NoMessage, NoMsg
    <3>3. CASE msg' = [msg EXCEPT !.pc = "act", !.acts = msg.acts, !.val = 0]
      <4>1. /\ DOMAIN msg' = {"pc", "on", "changes", "acts", "val"}
            /\ msg'.pc = "act" /\ msg'.on = msg.on /\ msg'.acts = msg.acts
            /\ msg'.changes = msg.changes /\ msg'.val = 0
        BY <1>2, <3>3
      <4>2. TypesMsg'
        BY <2>3, <4>1 DEF TypesMsg
      <4> QED
        BY <1>1, <1>2, <2>1, <2>2, <2>3, <4>1, <4>2, MsgKinds DEF Message
    <3> QED
      BY <3>1, <3>2, <3>3
  <2>4. CASE DeathMsg \/ DeviceMsg
    <3>1. (msg' = MsgNext(msg.acts) /\ msg.acts # <<>>) \/ msg' = NoMessage
      BY <1>3 DEF MsgCheck, MsgNext
    <3> QED
      BY <1>1, <1>2, <2>1, <2>2, <2>4, <3>1, NextTypes
  <2> QED
    BY <1>3, <2>3, <2>4, MsgKinds DEF MsgCheck
<1>4. CASE MsgAct
  <2>1. UNCHANGED <<init, semBirth, seq, host, pub>>
    BY <1>4 DEF MsgAct, devVars, pubVars
  <2>2. Known'
    BY <1>1, <2>1 DEF TInv, Known
  <2>3. CASE TypesMsg
    <3>1. a.type = "udt" /\ Tail(msg.acts) = <<>>
      BY <2>3, MsgKinds DEF UdtAction
    <3>2. msg' \in {[msg EXCEPT !.pc = "clear"], NoMessage}
      BY <1>4, <3>1 DEF MsgAct, MsgGoto, MsgNext
    <3> QED
      BY <1>1, <1>2, <2>1, <2>2, <2>3, <3>2 DEF Message, NoMessage, NoMsg, TypesMsg, UdtAction
  <2>4. CASE DeathMsg \/ DeviceMsg
    <3>1. a.type \in {"birth", "data", "death"} /\ a.dev \in devs /\ msg.acts # <<>>
      BY <1>4, <2>4, Acting, MsgKinds DEF MsgAct
    <3>2. val[a.dev] \in {0, 1}
      BY <1>2, <3>1
    <3>3. \/ msg' = MsgNext(Tail(msg.acts))
          \/ \E v \in {0, 1} : msg' = [msg EXCEPT !.pc = "send", !.val = v]
      <4>1. MsgGoto("send") = [msg EXCEPT !.pc = "send", !.val = msg.val]
        BY <1>2 DEF MsgGoto
      <4> QED
        BY <1>2, <1>4, <3>1, <3>2, <4>1 DEF MsgAct
    <3> QED
      BY <1>1, <1>2, <2>1, <2>2, <2>4, <3>1, <3>3, NextTypes, GotoTypes
  <2> QED
    BY <1>4, <2>3, <2>4, MsgKinds DEF MsgAct
<1>5. CASE MsgSend
  <2>1. UNCHANGED <<init, semBirth, pub>>
    BY <1>5 DEF MsgSend, devVars
  <2>2. Known'
    BY <1>1, <2>1 DEF TInv, Known
  <2>3. (DeathMsg \/ DeviceMsg) /\ msg.acts # <<>>
    BY <1>5, MsgKinds DEF MsgSend
  <2>4. a.dev \in Devices
    BY <1>2, <2>3, Acting
  <2>5. \/ \E d \in Devices, b \in BOOLEAN, v \in {0, 1} : PublishDevice(d, b, v)
        \/ \E d \in Devices, v \in {0, 1} : PublishData(d, v)
    <3>1. CASE a.type = "data"
      BY <1>2, <1>5, <2>4, <3>1 DEF MsgSend
    <3>2. CASE a.type # "data"
      <4>1. PublishDevice(a.dev, a.type = "birth", msg.val) /\ (a.type = "birth") \in BOOLEAN
        BY <1>5, <3>2 DEF MsgSend
      <4> QED
        BY <1>2, <2>4, <4>1
    <3> QED
      BY <3>1, <3>2
  <2>6. host' \in Host /\ seq' \in 0..(Numbers - 1)
    BY <2>5, PublishTypes
  <2>7. Message'
    BY <1>1, <1>5, <2>3, GotoTypes DEF MsgSend
  <2> QED
    BY <1>1, <1>2, <2>1, <2>2, <2>6, <2>7
<1>6. CASE MsgMark
  <2>1. UNCHANGED <<init, semBirth, seq, host>> /\ msg' = MsgNext(Tail(msg.acts))
    BY <1>6 DEF MsgMark, pubVars
  <2>2. (DeathMsg \/ DeviceMsg) /\ msg.acts # <<>>
    BY <1>6, MsgKinds DEF MsgMark
  <2>3. a.dev \in devs
    BY <2>2, Acting
  <2>4. PICK s \in Status : SetPublished(a.dev, s)
    BY <1>6 DEF MsgMark, Status
  <2>5. Known'
    BY <2>3, <2>4, SetTypes
  <2> QED
    BY <1>1, <1>2, <2>1, <2>2, <2>5, NextTypes
<1>7. CASE MsgClear \/ MsgPost
  <2>1. UNCHANGED <<seq, host, pub>>
    BY <1>7 DEF MsgClear, MsgPost, devVars, pubVars
  <2>2. Known'
    BY <1>1, <2>1 DEF TInv, Known
  <2>3. TypesMsg
    BY <1>7, MsgKinds DEF MsgClear, MsgPost
  <2>4. msg' \in {[msg EXCEPT !.pc = "post"], NoMessage}
    BY <1>7, <2>3, MsgKinds DEF MsgClear, MsgPost, MsgGoto, MsgNext
  <2>5. Message'
    BY <1>1, <1>2, <2>3, <2>4 DEF Message, NoMessage, NoMsg, TypesMsg, UdtAction
  <2>6. semBirth' \in Nat
    BY <1>2, <1>7 DEF MsgClear, MsgPost
  <2>7. init' \in BOOLEAN
    BY <1>2, <1>7, Zenon DEF MsgClear, MsgPost
  <2> QED
    BY <1>1, <1>2, <2>1, <2>2, <2>5, <2>6, <2>7
<1> QED
  BY <1>3, <1>4, <1>5, <1>6, <1>7

\* The message thread.
LEMMA MsgTypes ==
  ASSUME IInv, TInv, Links', MsgThread
  PROVE  Records' /\ Busy' /\ Known' /\ Message' /\ Counted'
<1>1. /\ devs \subseteq devs' /\ Known' /\ Message' /\ msgs' \in 0..MaxMsgs
      /\ host' \in Host /\ seq' \in 0..(Numbers - 1)
      /\ init' \in BOOLEAN /\ semBirth' \in Nat
  <2>1. /\ host \in Host /\ seq \in 0..(Numbers - 1) /\ init \in BOOLEAN /\ semBirth \in Nat
        /\ msgs \in 0..MaxMsgs
    BY DEF TInv, Records, Counted, Flags, ScadaCounts
  <2>2. CASE MsgArrives
    BY <2>1, <2>2, ArriveTypes
  <2>3. CASE VendorDecide
    BY <2>1, <2>3, DecideTypes
  <2>4. CASE ~MsgArrives /\ ~VendorDecide
    BY <2>1, <2>4, ActionTypes DEF MsgThread
  <2> QED
    BY <2>2, <2>3, <2>4
<1>2. Records'
  <2>1. birth \in BirthState /\ lost \in LostState /\ est \in EstState /\ ext \in {"wait", "clear", "post"}
    BY DEF TInv, Records
  <2>2. birth \in BirthState' /\ lost \in LostState' /\ est \in EstState'
    BY <1>1, <2>1 DEF BirthState, LostState, EstState
  <2> QED
    BY <1>1, <2>1, <2>2, MsgFrame DEF Records
<1>3. Flags' /\ ScadaCounts' /\ IntCounts'
  <2>1. Flags' /\ IntCounts'
    BY <1>1, MsgFrame DEF TInv, Counted, Flags, IntCounts, intVars
  <2>2. ScadaCounts'
    BY <1>1, MsgFrame DEF TInv, Counted, ScadaCounts, LossToCome
  <2> QED
    BY <2>1, <2>2
<1> QED
  BY <1>1, <1>2, <1>3, MsgFrame DEF TInv, Counted

\* The start.
LEMMA InitTInv == Init => TInv
<1> SUFFICES ASSUME Init PROVE TInv
  OBVIOUS
<1> USE DEF Init, StartUp
<1>1. Links /\ IInv
  BY InitIInv DEF IInv
<1>2. Records
  BY NodeAssumption DEF Records, BirthState, LostState, EstState, Host, NoBirth, Idle, NoNode
<1>3. Busy /\ Message
  BY DEF Busy, Message, NoMsg, NoBirth, Idle, NoMessage
<1>4. Known
  BY NodeAssumption DEF Known, Status
<1>5. Counted
  <2>1. Flags
    BY DEF Flags
  <2>2. ScadaCounts /\ IntCounts
    BY Bounds DEF ScadaCounts, IntCounts, LossToCome
  <2>3. seq \in 0..(Numbers - 1) /\ msgs \in 0..MaxMsgs /\ rebirths \in 0..MaxRebirths
    BY Bounds, NodeAssumption
  <2> QED
    BY <2>1, <2>2, <2>3 DEF Counted
<1> QED
  BY <1>1, <1>2, <1>3, <1>4, <1>5 DEF TInv

\* Every step.
LEMMA NextTInv == IInv /\ TInv /\ [Next]_vars => TInv'
<1> SUFFICES ASSUME IInv, TInv, [Next]_vars PROVE TInv'
  OBVIOUS
<1>1. Links'
  BY NextIInv DEF IInv
<1>2. CASE UNCHANGED vars
  <2> USE <1>2 DEF vars, extVars, nodeVars, intVars, devVars, pubVars, threads, counts
  <2>1. Records' /\ Busy' /\ Known'
    BY DEF TInv, Records, Busy, Known, BirthState, LostState, EstState
  <2>2. Message'
    BY SameMessage
  <2>3. Counted'
    BY DEF TInv, Counted, Flags, ScadaCounts, IntCounts, LossToCome
  <2>4. crossed' \subseteq Subjects
    BY DEF TInv
  <2> QED
    BY <1>1, <2>1, <2>2, <2>3, <2>4 DEF TInv
<1>3. CASE Next
  <2>1. Records' /\ Busy' /\ Known' /\ Message' /\ Counted'
    BY <1>1, <1>3, LinkTypes, BirthTypes, LostTypes, EstTypes, OtherTypes, MsgTypes DEF Next
  <2>2. crossed' \subseteq Subjects
    <3>1. /\ msg.on \subseteq Subjects
          /\ Overlap' \subseteq Subjects
      BY DEF TInv, Known, Message, NoMsg, OpenMsg, DeathMsg, DeviceMsg, TypesMsg, Overlap, Subjects
    <3>2. crossed \subseteq Subjects
      BY DEF TInv
    <3> QED
      BY <1>3, <3>1, <3>2 DEF Next, Observe
  <2> QED
    BY <1>1, <2>1, <2>2 DEF TInv
<1> QED
  BY <1>2, <1>3

\* What holds of every state that can be reached.
LEMMA Types == Spec => [](IInv /\ TInv)
<1> QED
  BY InitIInv, NextIInv, InitTInv, NextTInv, PTL DEF Spec

\* The inductive invariant implies the type invariant.
LEMMA TInvTypeOK == TInv => TypeOK
<1> SUFFICES ASSUME TInv PROVE TypeOK
  OBVIOUS
<1>1. /\ up \in BOOLEAN /\ init \in BOOLEAN /\ intUp \in BOOLEAN /\ intFresh \in BOOLEAN
      /\ callbacks \in Seq({"connected", "disconnected"})
  BY DEF TInv, Counted, Flags, Links
<1>2. /\ losses \in 0..MaxLosses /\ fails \in 0..MaxFails /\ semBirth \in Nat
      /\ bdSeq \in 0..(MaxLosses + MaxFails)
  <2>1. ScadaCounts
    BY DEF TInv, Counted
  <2> QED
    BY ONLY <2>1, Bounds DEF ScadaCounts
<1>3. /\ intLosses \in 0..MaxIntLosses
      /\ {lossOwed, estOwed, semLost, semEst} \subseteq 0..(MaxIntLosses + 1)
  <2>1. IntCounts
    BY DEF TInv, Counted
  <2>2. /\ lossOwed \in 0..(MaxIntLosses + 1) /\ semLost \in 0..(MaxIntLosses + 1)
        /\ estOwed \in 0..(MaxIntLosses + 1) /\ semEst \in 0..(MaxIntLosses + 1)
    BY ONLY <2>1, Bounds DEF IntCounts
  <2> QED
    BY <2>1, <2>2 DEF IntCounts
<1>4. /\ devs \subseteq Devices /\ Devices \ Vendor \subseteq devs
      /\ known \in [Devices -> Status] /\ pub \in [Devices -> Status]
      /\ val \in [Devices -> {0, 1}] /\ udts \in {0, 1}
  BY DEF TInv, Known
<1>5. /\ seq \in 0..(Numbers - 1) /\ msgs \in 0..MaxMsgs /\ rebirths \in 0..MaxRebirths
      /\ crossed \subseteq Subjects
  BY DEF TInv, Counted
<1>6. /\ birth.pc \in {"wait", "node", "nbirth", "list", "prep", "send", "mark", "init"}
      /\ lost.pc \in {"wait", "link", "init", "send", "mark"}
      /\ est.pc \in {"wait", "init", "prep", "send", "mark"}
      /\ ext \in {"wait", "clear", "post"}
      /\ host.on \in BOOLEAN /\ host.seq \in 0..(Numbers - 1) /\ host.alive \subseteq Devices
  BY DEF TInv, Records, BirthState, LostState, EstState, Host
<1>7. msg.pc \in {"wait", "decide", "check", "act", "send", "mark", "clear", "post"}
  BY DEF TInv, Message, NoMsg, OpenMsg, DeathMsg, DeviceMsg, TypesMsg, Working
<1> QED
  BY <1>1, <1>2, <1>3, <1>4, <1>5, <1>6, <1>7, Zenon DEF TypeOK

(* Whatever the five threads and the two brokers do, and however their steps   *)
(* mix: the counters stay within what losses and failures account for (bdSeq   *)
(* counts no more than one callback for each, the monitor's semaphores no more *)
(* than the connections and losses there were), and the threads deal only with *)
(* devices of the program.                                                     *)
THEOREM TypeCorrect == Spec => []TypeOK
<1> QED
  BY Types, TInvTypeOK, PTL

-----------------------------------------------------------------------------
(* Devices *)

\* What is still to come for d: a DBIRTH of the birth process or of the est thread,
\* an action of the message.
BirthAt(d)   == birth.pc \in {"send", "mark"} /\ d = First(birth.todo)
BirthTodo(d) == birth.pc = "list" \/ (birth.pc \in {"prep", "send", "mark"} /\ d \in birth.todo)
BirthOwed(d) == \/ ~up \/ Comes \/ msg.pc = "post" \/ ext = "post"
                \/ birth.pc \in {"node", "nbirth"} \/ BirthTodo(d)
EstAt(d)     == est.pc \in {"prep", "send", "mark"} /\ d = First(est.todo)
EstOwed(d)   == \/ estOwed > 0 \/ semEst > 0 \/ est.pc = "init"
                \/ est.pc \in {"prep", "send", "mark"} /\ d \in est.todo
LostAt(d)    == lost.pc \in {"init", "send", "mark"} /\ d = First(lost.todo)
Left(type, d) == \E i \in DOMAIN msg.acts : msg.acts[i] = Action(type, d)
NextIs(type, d) == msg.acts # <<>> /\ Head(msg.acts) = Action(type, d)

\* The host listens, and the birth process is done with d.
Heard(d) == up /\ host.on /\ ~BirthTodo(d)

\* A thread has told the host of d and will note it.
Noting(d) ==
  \/ est.pc = "mark" /\ EstAt(d)
  \/ lost.pc = "mark" /\ LostAt(d)
  \/ msg.pc = "mark" /\ (NextIs("birth", d) \/ NextIs("death", d))

StatusTold(d) == Heard(d) /\ ~Noting(d) => (pub[d] = "up" <=> d \in host.alive)

Pending(d) == \/ msg.pc = "decide" /\ d \in msg.on /\ msg.changes # "none"
              \/ Left("birth", d) \/ Left("data", d) \/ Left("death", d)

ValueTold(d) == Heard(d) /\ d \in host.alive /\ ~Pending(d) => host.val[d] = val[d]

DeathTold(d) == known[d] = "down" => pub[d] # "up" \/ Left("death", d)

BirthTold(d) ==
  (d \in devs /\ intUp /\ known[d] # "down") =>
    \/ pub[d] = "up" \/ BirthOwed(d) \/ EstOwed(d)
    \/ Left("birth", d) \/ (msg.pc = "decide" /\ d \in msg.on)

VendorTold(d) ==
  (d \in Vendor \cap devs) =>
    \/ pub[d] # "none" \/ BirthAt(d) \/ Left("birth", d)
    \/ msg.pc = "decide" /\ d \in msg.on /\ msg.changes = "device"

\* The birth process, at d or before it.
BirthRight(d) ==
  /\ BirthAt(d) => known[d] # "down"
  /\ birth.pc = "send" /\ BirthAt(d) => birth.val = val[d]
  /\ birth.pc = "mark" /\ BirthAt(d) /\ up /\ host.on => d \in host.alive /\ host.val[d] = val[d]
  /\ BirthTodo(d) /\ ~BirthAt(d) /\ up /\ host.on => d \notin host.alive

EstRight(d) ==
  EstAt(d) => /\ est.pc # "prep" => known[d] # "down"
              /\ est.pc = "send" => est.val = val[d]
              /\ est.pc = "mark" /\ Heard(d) => d \in host.alive

LostRight(d) ==
  LostAt(d) => /\ ~intUp \/ EstOwed(d)
               /\ lost.pc = "mark" /\ Heard(d) => d \notin host.alive

MsgRight(d) ==
  /\ Left("birth", d) \/ Left("data", d) => known[d] # "down"
  /\ Left("death", d) => Left("birth", d) \/ known[d] = "down"
  /\ msg.pc = "decide" /\ d \in msg.on /\ msg.changes = "device" => pub[d] # "up"
  /\ NextIs("birth", d) => pub[d] # "up"
  /\ NextIs("data", d) => pub[d] = "up"
  /\ msg.pc = "send" /\ (NextIs("birth", d) \/ NextIs("data", d)) => msg.val = val[d]
  /\ msg.pc = "mark" /\ Heard(d) =>
       /\ NextIs("birth", d) => d \in host.alive /\ host.val[d] = val[d]
       /\ NextIs("data", d) /\ d \in host.alive => host.val[d] = val[d]
       /\ NextIs("death", d) => d \notin host.alive

DevInv(d) ==
  /\ StatusTold(d) /\ ValueTold(d) /\ DeathTold(d) /\ BirthTold(d) /\ VendorTold(d)
  /\ BirthRight(d) /\ EstRight(d) /\ LostRight(d) /\ MsgRight(d)

HInv == Overlap \subseteq crossed /\ \A d \in Devices \ crossed : DevInv(d)

\* No two threads deal with d.
Alone(d) ==
  /\ birth.pc # "wait" => d \notin EstDeals /\ d \notin LostDeals /\ d \notin msg.on
  /\ d \in EstDeals => d \notin LostDeals /\ d \notin msg.on
  /\ d \in LostDeals => d \notin msg.on

\* A device that is not crossed, now and after a step.
LEMMA Uncrossed ==
  ASSUME HInv, Observe, NEW d \in Devices, d \notin crossed'
  PROVE  /\ Alone(d)'
         /\ \/ /\ d \notin crossed /\ Alone(d) /\ DevInv(d)
               /\ ~(msg.pc = "check" /\ msg'.pc = "wait" /\ msg.acts # <<>> /\ d \in msg.on)
            \/ birth.pc = "prep" /\ birth'.pc = "send" /\ d = First(birth.todo)
<1>1. d \in Subjects /\ d # "udt"
  BY NodeAssumption DEF Subjects
<1>2. d \notin Overlap'
  BY DEF Observe
<1>3. Alone(d)'
  BY <1>1, <1>2 DEF Overlap, Alone, BirthDeals, MsgDeals
<1>4. CASE ~(birth.pc = "prep" /\ birth'.pc = "send" /\ d = First(birth.todo))
  <2> DEFINE dropped == IF msg.pc = "check" /\ msg'.pc = "wait" /\ msg.acts # <<>> THEN msg.on ELSE {}
             born == CASE birth.pc = "node"                        -> {"udt"}
                       [] birth.pc = "prep" /\ birth'.pc = "send" -> {First(birth.todo)} \cap Devices
                       [] OTHER                                    -> {}
  <2>1. d \notin born
    BY <1>1, <1>4
  <2>2. crossed' = ((crossed \cup dropped) \ born) \cup Overlap'
    BY DEF Observe
  <2>3. d \notin crossed /\ d \notin dropped
    BY <2>1, <2>2
  <2>4. d \notin Overlap /\ DevInv(d)
    BY <2>3 DEF HInv
  <2>5. Alone(d)
    BY <1>1, <2>4 DEF Overlap, Alone, BirthDeals, MsgDeals
  <2> QED
    BY <1>3, <2>3, <2>4, <2>5
<1> QED
  BY <1>3, <1>4

-----------------------------------------------------------------------------
(* Frames *)

\* What a message says of d.
MsgSame(d) ==
  /\ msg'.pc = msg.pc /\ msg'.on = msg.on /\ msg'.acts = msg.acts
  /\ msg'.changes = msg.changes /\ msg'.val = msg.val
  /\ \A t \in {"birth", "data", "death"} : (Left(t, d)' <=> Left(t, d)) /\ (NextIs(t, d)' <=> NextIs(t, d))
  /\ Pending(d)' <=> Pending(d)

\* It is left alone.
LEMMA MsgKept == ASSUME UNCHANGED msg, NEW d PROVE MsgSame(d)
  BY DEF MsgSame, Left, NextIs, Pending

\* The threads at d, when nobody moves.
LEMMA ThreadsKept ==
  ASSUME NEW d
  PROVE  /\ UNCHANGED birth => (BirthAt(d)' <=> BirthAt(d)) /\ (BirthTodo(d)' <=> BirthTodo(d))
         /\ UNCHANGED est => (EstAt(d)' <=> EstAt(d))
         /\ UNCHANGED <<est, estOwed, semEst>> => (EstOwed(d)' <=> EstOwed(d))
         /\ UNCHANGED lost => (LostAt(d)' <=> LostAt(d))
  BY DEF BirthAt, BirthTodo, EstAt, EstOwed, LostAt

\* The host counts the messages.
LEMMA HearsHost ==
  ASSUME TInv
  PROVE  /\ host \in Host /\ Hears(host) \in Host
         /\ Hears(host) = [host EXCEPT !.seq = (host.seq + 1) % Numbers]
<1>1. host \in Host
  BY DEF TInv, Records
<1>2. \A n \in 0..(Numbers - 1) : (n + 1) % Numbers \in 0..(Numbers - 1)
  BY NodeAssumption
<1>3. (host.seq + 1) % Numbers \in 0..(Numbers - 1)
  BY <1>1, <1>2 DEF Host
<1> QED
  BY <1>1, <1>3 DEF Hears, Host

\* What the DBIRTH of x tells the host of d, ...
LEMMA ToldBirth ==
  ASSUME TInv, NEW x \in Devices, NEW v \in {0, 1}, PublishDevice(x, TRUE, v), NEW d \in Devices
  PROVE  /\ host'.on = host.on
         /\ d # x => (d \in host'.alive <=> d \in host.alive) /\ host'.val[d] = host.val[d]
         /\ d = x /\ up /\ host.on => d \in host'.alive /\ host'.val[d] = v
<1>1. CASE up /\ host.on
  <2>1. host' = [Hears(host) EXCEPT !.alive = @ \cup {x}, !.val[x] = v]
    BY <1>1 DEF PublishDevice, Publish
  <2> QED
    BY <1>1, <2>1, HearsHost DEF Host
<1>2. CASE ~(up /\ host.on)
  BY <1>2 DEF PublishDevice, Publish
<1> QED
  BY <1>1, <1>2

\* ... and its DDEATH.
LEMMA ToldDeath ==
  ASSUME TInv, NEW x \in Devices, NEW v \in {0, 1}, PublishDevice(x, FALSE, v), NEW d \in Devices
  PROVE  /\ host'.on = host.on
         /\ d # x => (d \in host'.alive <=> d \in host.alive) /\ host'.val[d] = host.val[d]
         /\ d = x /\ up /\ host.on => d \notin host'.alive
<1>1. CASE up /\ host.on
  <2>1. host' = [Hears(host) EXCEPT !.alive = @ \ {x}, !.val[x] = v]
    BY <1>1 DEF PublishDevice, Publish
  <2> QED
    BY <1>1, <2>1, HearsHost DEF Host
<1>2. CASE ~(up /\ host.on)
  BY <1>2 DEF PublishDevice, Publish
<1> QED
  BY <1>1, <1>2

\* What PublishData tells it.
LEMMA ToldData ==
  ASSUME TInv, NEW x \in Devices, NEW v \in {0, 1}, PublishData(x, v), NEW d \in Devices
  PROVE  /\ host'.on = host.on /\ host'.alive = host.alive
         /\ d # x => host'.val[d] = host.val[d]
         /\ d = x /\ up /\ host.on /\ d \in host.alive => host'.val[d] = v
<1>1. /\ host \in Host /\ Hears(host) \in Host
      /\ Hears(host) = [host EXCEPT !.seq = (host.seq + 1) % Numbers]
  BY HearsHost
<1>2. CASE up /\ host.on /\ x \in host.alive
  <2>1. host' = [Hears(host) EXCEPT !.val[x] = v]
    BY <1>2 DEF PublishData, Publish
  <2> QED
    BY <1>1, <1>2, <2>1 DEF Host
<1>3. CASE up /\ host.on /\ x \notin host.alive
  <2>1. host' = Hears(host)
    BY <1>3 DEF PublishData, Publish
  <2> QED
    BY <1>1, <1>3, <2>1 DEF Host
<1>4. CASE ~(up /\ host.on)
  BY <1>4 DEF PublishData, Publish
<1> QED
  BY <1>2, <1>3, <1>4

-----------------------------------------------------------------------------
(* The connections, and the rebirth command *)

\* The connection to the SCADA broker: the host of a new connection has heard nothing.
LEMMA LinkDev ==
  ASSUME IInv, TInv, NEW d \in Devices, DevInv(d),
         LinkUp \/ LinkFails \/ LinkLost \/ Connected \/ Disconnected
  PROVE  DevInv(d)'
<1> USE DEF nodeVars, intVars, devVars, pubVars, threads
<1>1. UNCHANGED <<birth, lost, est, msg, ext, devs, known, pub, val, intUp, estOwed, semEst>>
  BY DEF LinkUp, LinkFails, LinkLost, Connected, Disconnected
<1>2. up' /\ host'.on => up /\ UNCHANGED host
  <2>1. host.on => up
    BY DEF IInv, Numbered
  <2> QED
    BY <2>1 DEF LinkUp, LinkFails, LinkLost, Connected, Disconnected
<1>3. MsgSame(d)
  BY <1>1, MsgKept
<1>4. Heard(d)' => Heard(d) /\ UNCHANGED host
  BY <1>1, <1>2, ThreadsKept DEF Heard
<1>5. BirthOwed(d) => BirthOwed(d)'
  <2>1. ~up' \/ Comes'
    <3>1. CASE LinkUp \/ LinkFails
      BY <3>1 DEF LinkUp, LinkFails, Comes
    <3>2. CASE LinkLost
      BY <3>2 DEF LinkLost
    <3>3. CASE Connected
      BY <3>3 DEF Connected, Comes, TInv, Counted, ScadaCounts
    <3>4. CASE Disconnected
      BY <3>4, LinksTail DEF Disconnected, IInv
    <3> QED
      BY <3>1, <3>2, <3>3, <3>4
  <2> QED
    BY <2>1 DEF BirthOwed
<1>6. StatusTold(d)' /\ ValueTold(d)'
  BY <1>1, <1>3, <1>4, ThreadsKept DEF DevInv, StatusTold, ValueTold, Noting, MsgSame
<1>7. DeathTold(d)' /\ BirthTold(d)' /\ VendorTold(d)'
  BY <1>1, <1>3, <1>5, ThreadsKept DEF DevInv, DeathTold, BirthTold, VendorTold, MsgSame
<1>8. BirthRight(d)' /\ EstRight(d)' /\ LostRight(d)'
  BY <1>1, <1>2, <1>4, ThreadsKept DEF DevInv, BirthRight, EstRight, LostRight
<1>9. MsgRight(d)'
  BY <1>1, <1>3, <1>4 DEF DevInv, MsgRight, MsgSame
<1> QED
  BY <1>6, <1>7, <1>8, <1>9 DEF DevInv

\* The connection to the internal broker: what is back is to be born again.
LEMMA IntDev ==
  ASSUME IInv, TInv, NEW d \in Devices, DevInv(d), IntLinkStep
  PROVE  DevInv(d)'
<1> USE DEF extVars, nodeVars, devVars, pubVars, threads
<1>1. UNCHANGED <<up, callbacks, semBirth, birth, lost, est, msg, ext, devs, known, pub, val, host>>
  BY DEF IntLinkStep
<1>2. EstOwed(d) => EstOwed(d)'
  <2>1. estOwed \in Nat /\ semEst \in Nat
    BY DEF TInv, Counted, IntCounts
  <2>2. estOwed > 0 \/ semEst > 0 => estOwed' > 0 \/ semEst' > 0
    BY <2>1 DEF IntLinkStep, Internal!Next, Internal!Establish, Internal!FirstFails, Internal!Lose,
       Internal!SignalEstablished, Internal!SignalLost, Internal!KeepQuiet
  <2> QED
    BY <1>1, <2>2 DEF EstOwed
<1>3. intUp' => intUp \/ EstOwed(d)'
  <2>1. estOwed \in Nat
    BY DEF TInv, Counted, IntCounts
  <2>2. Internal!Establish => estOwed' > 0
    BY <2>1 DEF Internal!Establish
  <2> QED
    BY <2>2 DEF EstOwed, IntLinkStep, Internal!Next, Internal!FirstFails, Internal!Lose,
       Internal!SignalEstablished, Internal!SignalLost, Internal!KeepQuiet
<1>4. MsgSame(d)
  BY <1>1, MsgKept
<1>5. (Heard(d)' <=> Heard(d)) /\ (BirthOwed(d)' <=> BirthOwed(d))
  BY <1>1, ThreadsKept DEF Heard, BirthOwed, Comes
<1>6. StatusTold(d)' /\ ValueTold(d)'
  BY <1>1, <1>4, <1>5, ThreadsKept DEF DevInv, StatusTold, ValueTold, Noting, MsgSame
<1>7. DeathTold(d)' /\ BirthTold(d)' /\ VendorTold(d)'
  BY <1>1, <1>2, <1>3, <1>4, <1>5, ThreadsKept DEF DevInv, DeathTold, BirthTold, VendorTold, MsgSame
<1>8. BirthRight(d)' /\ EstRight(d)' /\ LostRight(d)'
  BY <1>1, <1>2, <1>3, <1>5, ThreadsKept DEF DevInv, BirthRight, EstRight, LostRight
<1>9. MsgRight(d)'
  BY <1>1, <1>4, <1>5 DEF DevInv, MsgRight, MsgSame
<1> QED
  BY <1>6, <1>7, <1>8, <1>9 DEF DevInv

\* The rebirth command.
LEMMA ExtDev ==
  ASSUME IInv, TInv, NEW d \in Devices, DevInv(d), ExtThread
  PROVE  DevInv(d)'
<1> USE DEF ExtOnly, extVars, intVars, devVars, pubVars
<1>1. UNCHANGED <<up, callbacks, birth, lost, est, msg, devs, known, pub, val, host,
                  intUp, estOwed, semEst>>
  BY DEF ExtThread, Rebirth, ExtClear, ExtPost
<1>2. BirthOwed(d) => BirthOwed(d)'
  <2>1. Comes \/ ext = "post" => Comes' \/ ext' = "post"
    <3>1. semBirth \in Nat
      BY DEF TInv, Counted, ScadaCounts
    <3> QED
      BY <1>1, <3>1 DEF ExtThread, Rebirth, ExtClear, ExtPost, Comes
  <2> QED
    BY <1>1, <2>1, ThreadsKept DEF BirthOwed
<1>3. MsgSame(d)
  BY <1>1, MsgKept
<1>4. Heard(d)' <=> Heard(d)
  BY <1>1, ThreadsKept DEF Heard
<1>5. StatusTold(d)' /\ ValueTold(d)'
  BY <1>1, <1>3, <1>4, ThreadsKept DEF DevInv, StatusTold, ValueTold, Noting, MsgSame
<1>6. DeathTold(d)' /\ BirthTold(d)' /\ VendorTold(d)'
  BY <1>1, <1>2, <1>3, ThreadsKept DEF DevInv, DeathTold, BirthTold, VendorTold, MsgSame
<1>7. BirthRight(d)' /\ EstRight(d)' /\ LostRight(d)'
  BY <1>1, <1>4, ThreadsKept DEF DevInv, BirthRight, EstRight, LostRight
<1>8. MsgRight(d)'
  BY <1>1, <1>3, <1>4 DEF DevInv, MsgRight, MsgSame
<1> QED
  BY <1>5, <1>6, <1>7, <1>8 DEF DevInv

-----------------------------------------------------------------------------
(* The birth process *)

\* The members of a sequence are in its set.
LEMMA Members ==
  ASSUME NEW S, NEW s \in Seq(S)
  PROVE  \A i \in DOMAIN s : s[i] \in S
<1> SUFFICES ASSUME NEW i \in DOMAIN s PROVE s[i] \in S
  OBVIOUS
<1>1. DOMAIN s = 1..Len(s)
  BY LenProperties
<1> QED
  BY <1>1, ElementOfSeq

\* The actions of a message are about what the message is about.
LEMMA ActsOn ==
  ASSUME TInv, NEW d \in Devices, d \notin msg.on, NEW t \in {"birth", "data", "death"}
  PROVE  ~Left(t, d) /\ ~NextIs(t, d)
<1>1. d # "udt"
  BY NodeAssumption
<1>2. \A i \in DOMAIN msg.acts : msg.acts[i] # Action(t, d)
  <2>1. CASE NoMsg \/ OpenMsg
    BY <2>1 DEF NoMsg, OpenMsg
  <2>2. CASE DeathMsg
    <3>1. \A i \in DOMAIN msg.acts : msg.acts[i] \in [type : {"death"}, dev : msg.on]
      <4>1. msg.acts \in Seq([type : {"death"}, dev : msg.on])
        BY <2>2 DEF DeathMsg
      <4> QED
        BY ONLY <4>1, Members
    <3> QED
      BY <3>1 DEF Action
  <2>3. CASE DeviceMsg
    BY <2>3 DEF DeviceMsg, Action
  <2>4. CASE TypesMsg
    BY <1>1, <2>4 DEF TypesMsg, UdtAction, Action
  <2> QED
    BY <2>1, <2>2, <2>3, <2>4 DEF TInv, Message
<1>3. msg.acts # <<>> => Head(msg.acts) # Action(t, d)
  <2>1. CASE NoMsg \/ OpenMsg
    BY <2>1 DEF NoMsg, OpenMsg
  <2>2. CASE DeathMsg \/ DeviceMsg
    BY <2>2, Acting DEF Action
  <2>3. CASE TypesMsg
    BY <1>1, <2>3, MsgKinds DEF UdtAction, Action
  <2> QED
    BY <2>1, <2>2, <2>3 DEF TInv, Message
<1> QED
  BY <1>2, <1>3 DEF Left, NextIs

\* No thread but that of the birth process deals with d.
Quiet(d) ==
  /\ est.pc # "init" /\ ~EstAt(d) /\ ~LostAt(d)
  /\ d \notin msg.on /\ ~Pending(d) /\ ~Noting(d)
  /\ \A t \in {"birth", "data", "death"} : ~Left(t, d) /\ ~NextIs(t, d)

\* That is so in every step of it.
LEMMA BirthQuiet ==
  ASSUME TInv, NEW d \in Devices, BirthThread, Alone(d)', birth.pc = "init" => Alone(d)
  PROVE  Quiet(d) /\ Quiet(d)'
<1>1. UNCHANGED <<est, lost, msg>>
  BY DEF BirthThread, BirthWait, BirthNode, BirthNBirth, BirthList, BirthPrep, BirthSend,
     BirthMark, BirthInit, BirthOnly
<1>2. est.pc # "init" /\ ~EstAt(d) /\ ~LostAt(d) /\ d \notin msg.on
  <2>1. CASE birth.pc = "init"
    BY <2>1 DEF Alone, EstDeals, LostDeals, EstAt, LostAt
  <2>2. CASE birth.pc # "init"
    <3>1. birth'.pc # "wait"
      <4>1. birth \in BirthState
        BY DEF TInv, Records
      <4> QED
        BY <2>2, <4>1 DEF BirthThread, BirthWait, BirthNode, BirthNBirth, BirthList, BirthPrep,
           BirthSend, BirthMark, BirthInit, BirthNext, BirthGoto, BirthState
    <3> QED
      BY <1>1, <3>1 DEF Alone, EstDeals, LostDeals, EstAt, LostAt
  <2> QED
    BY <2>1, <2>2
<1>3. Quiet(d)
  BY <1>2, ActsOn DEF Quiet, Pending, Noting
<1>4. MsgSame(d) /\ (EstAt(d)' <=> EstAt(d)) /\ (LostAt(d)' <=> LostAt(d))
  BY <1>1, MsgKept, ThreadsKept
<1>5. Quiet(d)'
  BY <1>1, <1>3, <1>4 DEF Quiet, Noting, MsgSame
<1> QED
  BY <1>3, <1>5

\* What there is to show then.
LEMMA QuietDev ==
  ASSUME NEW d \in Devices, Quiet(d)',
         Heard(d)' => /\ pub'[d] = "up" <=> d \in host'.alive
                      /\ d \in host'.alive => host'.val[d] = val'[d],
         known'[d] = "down" => pub'[d] # "up",
         d \in devs' /\ intUp' /\ known'[d] # "down" => pub'[d] = "up" \/ BirthOwed(d)' \/ EstOwed(d)',
         d \in Vendor \cap devs' => pub'[d] # "none" \/ BirthAt(d)',
         BirthRight(d)'
  PROVE  DevInv(d)'
  BY DEF Quiet, DevInv, StatusTold, ValueTold, DeathTold, BirthTold, VendorTold, EstRight, LostRight,
     MsgRight

\* The device whose DBIRTH was composed.
LEMMA BirthNew ==
  ASSUME IInv, TInv, NEW d \in Devices, BirthThread, Alone(d)',
         birth.pc = "prep", birth'.pc = "send", d = First(birth.todo)
  PROVE  DevInv(d)'
<1>1. /\ BirthPrep /\ known[d] # "down"
      /\ birth' = [birth EXCEPT !.pc = "send", !.val = val[d]]
  <2>1. BirthPrep
    BY DEF BirthThread, BirthWait, BirthNode, BirthNBirth, BirthList, BirthSend, BirthMark, BirthInit
  <2>2. BirthNext(Rest(birth.todo)).pc # "send"
    BY DEF BirthNext, BirthGoto, TInv, Records, BirthState
  <2> QED
    BY <2>1, <2>2 DEF BirthPrep, BirthDue
<1>2. UNCHANGED <<up, devs, known, pub, val, host>>
  BY <1>1 DEF BirthPrep, BirthOnly, extVars, devVars, pubVars
<1>3. /\ birth'.todo = birth.todo /\ birth'.val = val[d] /\ d \in birth.todo
  BY <1>1, FirstRest DEF TInv, Records, BirthState, Busy
<1>4. BirthAt(d)' /\ BirthTodo(d)'
  BY <1>3 DEF BirthAt, BirthTodo
<1>5. BirthRight(d)'
  BY <1>1, <1>2, <1>3, <1>4 DEF BirthRight
<1>6. Quiet(d)'
  BY BirthQuiet
<1> QED
  BY <1>1, <1>2, <1>4, <1>5, <1>6, QuietDev DEF Heard, BirthOwed

\* The other steps.
LEMMA BirthDev ==
  ASSUME IInv, TInv, NEW d \in Devices, DevInv(d), Alone(d), Alone(d)', BirthThread
  PROVE  DevInv(d)'
<1> USE DEF BirthOnly, extVars, intVars, devVars, pubVars, counts
<1>1. /\ UNCHANGED <<up, callbacks, est, lost, msg, ext, intUp, estOwed, semEst, devs, known, val>>
      /\ semBirth \in Nat /\ birth \in BirthState /\ devs \subseteq Devices
      /\ birth.pc \in {"prep", "send", "mark"} => birth.todo # {}
  <2>1. UNCHANGED <<up, callbacks, est, lost, msg, ext, intUp, estOwed, semEst, devs, known, val>>
    BY DEF BirthThread, BirthWait, BirthNode, BirthNBirth, BirthList, BirthPrep, BirthSend,
       BirthMark, BirthInit, SetPublished
  <2> QED
    BY <2>1 DEF TInv, Records, Counted, ScadaCounts, Busy, Known
<1>2. Quiet(d) /\ Quiet(d)'
  BY BirthQuiet
<1>3. /\ Heard(d) => (pub[d] = "up" <=> d \in host.alive)
      /\ Heard(d) /\ d \in host.alive => host.val[d] = val[d]
      /\ known[d] = "down" => pub[d] # "up"
      /\ d \in devs /\ intUp /\ known[d] # "down" => pub[d] = "up" \/ BirthOwed(d) \/ EstOwed(d)
      /\ d \in Vendor \cap devs => pub[d] # "none" \/ BirthAt(d)
  BY <1>2 DEF DevInv, StatusTold, ValueTold, DeathTold, BirthTold, VendorTold, Quiet
<1>4. BirthRight(d)
  BY DEF DevInv
<1>5. EstOwed(d)' <=> EstOwed(d)
  BY <1>1, ThreadsKept
<1>6. CASE BirthWait \/ BirthNode
  <2>1. /\ birth.pc \in {"wait", "node"} /\ birth'.pc \in {"node", "nbirth"}
        /\ UNCHANGED <<pub, host>>
    BY <1>1, <1>6 DEF BirthWait, BirthNode, BirthGoto, BirthState
  <2>2. ~BirthTodo(d) /\ ~BirthTodo(d)' /\ ~BirthAt(d) /\ ~BirthAt(d)' /\ BirthOwed(d)'
    BY <2>1 DEF BirthTodo, BirthAt, BirthOwed
  <2>3. BirthRight(d)' /\ (Heard(d)' <=> Heard(d))
    BY <1>1, <2>1, <2>2 DEF BirthRight, Heard
  <2> QED
    BY <1>1, <1>2, <1>3, <2>1, <2>2, <2>3, QuietDev
<1>7. CASE BirthNBirth
  <2>1. birth.pc = "nbirth" /\ birth'.pc = "list" /\ UNCHANGED pub
    BY <1>1, <1>7 DEF BirthNBirth, BirthState
  <2>2. up => host'.alive = {}
    BY <1>7 DEF BirthNBirth, PublishNBirth, Publish, NoNode
  <2>3. BirthTodo(d)' /\ ~BirthAt(d)' /\ ~BirthAt(d)
    BY <2>1 DEF BirthTodo, BirthAt
  <2>4. BirthRight(d)' /\ ~Heard(d)' /\ BirthOwed(d)'
    BY <1>1, <2>1, <2>2, <2>3 DEF BirthRight, Heard, BirthOwed
  <2> QED
    BY <1>1, <1>2, <1>3, <2>1, <2>3, <2>4, QuietDev
<1>8. CASE BirthList
  <2>1. /\ birth.pc = "list" /\ birth'.pc \in {"prep", "init"} /\ UNCHANGED <<pub, host, semBirth>>
        /\ devs # {} => birth'.pc = "prep" /\ birth'.todo = devs
        /\ devs = {} => birth'.pc = "init"
    BY <1>1, <1>8 DEF BirthList, BirthNext, BirthGoto, BirthState
  <2>2. BirthTodo(d) /\ ~BirthAt(d) /\ ~BirthAt(d)' /\ (BirthTodo(d)' <=> d \in devs)
    BY <2>1 DEF BirthTodo, BirthAt
  <2>3. up /\ host.on => d \notin host.alive
    BY <1>4, <2>2 DEF BirthRight
  <2>4. BirthRight(d)'
    BY <1>1, <2>1, <2>2, <2>3 DEF BirthRight
  <2>5. d \notin devs => pub[d] # "up"
    BY DEF TInv, Known
  <2>6. Heard(d)' => up /\ host.on /\ d \notin devs
    BY <1>1, <2>1, <2>2 DEF Heard
  <2>7. d \in devs => BirthOwed(d)'
    BY <2>2 DEF BirthOwed
  <2> QED
    BY <1>1, <1>2, <1>3, <2>1, <2>2, <2>3, <2>4, <2>5, <2>6, <2>7, QuietDev
<1>9. CASE BirthInit
  <2>1. birth.pc = "init" /\ birth'.pc = "wait" /\ UNCHANGED <<pub, host, semBirth>>
    BY <1>1, <1>9 DEF BirthInit, BirthGoto, BirthState
  <2>2. ~BirthTodo(d) /\ ~BirthTodo(d)' /\ ~BirthAt(d) /\ ~BirthAt(d)'
    BY <2>1 DEF BirthTodo, BirthAt
  <2>3. (BirthOwed(d)' <=> BirthOwed(d)) /\ BirthRight(d)' /\ (Heard(d)' <=> Heard(d))
    BY <1>1, <2>1, <2>2 DEF BirthRight, Heard, BirthOwed, Comes
  <2> QED
    BY <1>1, <1>2, <1>3, <1>5, <2>1, <2>2, <2>3, QuietDev
<1> DEFINE x == First(birth.todo)
           more == Rest(birth.todo)
<1>10. birth.pc \in {"prep", "send", "mark"} =>
         /\ x \in birth.todo /\ x \in Devices /\ x \notin more
         /\ d \in birth.todo <=> d \in more \/ d = x
         /\ BirthTodo(d) <=> d \in birth.todo
         /\ BirthAt(d) <=> birth.pc # "prep" /\ d = x
  BY <1>1, FirstRest DEF BirthState, BirthTodo, BirthAt
<1>11. CASE BirthPrep
  <2>1. birth.pc = "prep" /\ UNCHANGED <<pub, host, semBirth>>
    BY <1>11 DEF BirthPrep
  <2>2. CASE BirthDue(x, TRUE)
    <3>1. birth' = [birth EXCEPT !.pc = "send", !.val = val[x]]
      BY <1>11, <2>2 DEF BirthPrep
    <3>2. birth'.pc = "send" /\ birth'.todo = birth.todo
      BY <1>1, <3>1 DEF BirthState
    <3>3. CASE d = x
      BY <2>1, <3>2, <3>3, BirthNew
    <3>4. CASE d # x
      <4>1. ~BirthAt(d)' /\ (BirthTodo(d)' <=> BirthTodo(d))
        BY <1>10, <2>1, <3>2, <3>4 DEF BirthAt, BirthTodo
      <4>2. BirthRight(d)' /\ (Heard(d)' <=> Heard(d)) /\ (BirthOwed(d)' <=> BirthOwed(d))
        BY <1>1, <1>4, <1>10, <2>1, <3>2, <4>1 DEF BirthRight, Heard, BirthOwed, Comes
      <4> QED
        BY <1>1, <1>2, <1>3, <1>5, <1>10, <2>1, <4>1, <4>2, QuietDev
    <3> QED
      BY <3>3, <3>4
  <2>3. CASE ~BirthDue(x, TRUE)
    <3>1. /\ birth'.pc \in {"prep", "init"} /\ known[x] = "down"
          /\ more # {} => birth'.pc = "prep" /\ birth'.todo = more
          /\ more = {} => birth'.pc = "init"
      BY <1>1, <1>11, <2>3 DEF BirthPrep, BirthDue, BirthNext, BirthGoto, BirthState
    <3>2. ~BirthAt(d)' /\ (BirthTodo(d)' <=> d \in more)
      BY <3>1 DEF BirthAt, BirthTodo
    <3>3. CASE d = x
      <4>1. ~BirthTodo(d)' /\ BirthTodo(d) /\ ~BirthAt(d)
        BY <1>10, <2>1, <3>2, <3>3
      <4>2. up /\ host.on => d \notin host.alive
        BY <1>4, <4>1 DEF BirthRight
      <4>3. BirthRight(d)' /\ (Heard(d)' => up /\ host.on)
        BY <1>1, <2>1, <3>2, <4>1 DEF BirthRight, Heard
      <4> QED
        BY <1>1, <1>2, <1>3, <2>1, <3>1, <3>2, <3>3, <4>1, <4>2, <4>3, QuietDev
    <3>4. CASE d # x
      <4>1. BirthTodo(d)' <=> BirthTodo(d)
        BY <1>10, <2>1, <3>2, <3>4
      <4>2. BirthRight(d)' /\ (Heard(d)' <=> Heard(d)) /\ (BirthOwed(d)' <=> BirthOwed(d))
        BY <1>1, <1>4, <1>10, <2>1, <3>1, <3>2, <4>1 DEF BirthRight, Heard, BirthOwed, Comes
      <4> QED
        BY <1>1, <1>2, <1>3, <1>5, <1>10, <2>1, <3>2, <4>2, QuietDev
    <3> QED
      BY <3>3, <3>4
  <2> QED
    BY <2>2, <2>3
<1>12. CASE BirthSend
  <2>1. /\ birth.pc = "send" /\ birth'.pc = "mark" /\ birth'.todo = birth.todo
        /\ birth.val \in {0, 1} /\ UNCHANGED <<pub, semBirth>>
    BY <1>1, <1>12 DEF BirthSend, BirthState
  <2>2. PublishDevice(x, TRUE, birth.val)
    BY <1>12 DEF BirthSend
  <2>3. /\ host'.on = host.on
        /\ d # x => (d \in host'.alive <=> d \in host.alive) /\ host'.val[d] = host.val[d]
        /\ d = x /\ up /\ host.on => d \in host'.alive /\ host'.val[d] = birth.val
    BY <1>10, <2>1, <2>2, ToldBirth
  <2>4. (BirthAt(d)' <=> BirthAt(d)) /\ (BirthTodo(d)' <=> BirthTodo(d))
    BY <2>1 DEF BirthAt, BirthTodo
  <2>5. (Heard(d)' <=> Heard(d)) /\ (BirthOwed(d)' <=> BirthOwed(d))
    BY <1>1, <2>1, <2>3, <2>4 DEF Heard, BirthOwed, Comes
  <2>6. BirthRight(d)'
    BY <1>1, <1>4, <1>10, <2>1, <2>3, <2>4 DEF BirthRight
  <2>7. Heard(d) => d # x
    BY <1>10, <2>1 DEF Heard
  <2> QED
    BY <1>1, <1>2, <1>3, <1>5, <2>1, <2>3, <2>4, <2>5, <2>6, <2>7, QuietDev
<1>13. CASE BirthMark
  <2>1. /\ birth.pc = "mark" /\ pub' = [pub EXCEPT ![x] = "up"] /\ UNCHANGED <<host, semBirth>>
        /\ birth'.pc \in {"prep", "init"}
        /\ more # {} => birth'.pc = "prep" /\ birth'.todo = more
        /\ more = {} => birth'.pc = "init"
    BY <1>1, <1>13 DEF BirthMark, SetPublished, BirthNext, BirthGoto, BirthState
  <2>2. ~BirthAt(d)' /\ (BirthTodo(d)' <=> d \in more)
    BY <2>1 DEF BirthAt, BirthTodo
  <2>3. pub \in [Devices -> Status]
    BY DEF TInv, Known
  <2>4. CASE d = x
    <3>1. pub'[d] = "up" /\ ~BirthTodo(d)' /\ BirthAt(d)
      BY <1>10, <2>1, <2>2, <2>3, <2>4
    <3>2. /\ known[d] # "down"
          /\ up /\ host.on => d \in host.alive /\ host.val[d] = val[d]
      BY <1>4, <2>1, <3>1 DEF BirthRight
    <3>3. BirthRight(d)' /\ (Heard(d)' => up /\ host.on)
      BY <1>1, <2>1, <2>2, <3>1 DEF BirthRight, Heard
    <3> QED
      BY <1>1, <1>2, <2>1, <3>1, <3>2, <3>3, QuietDev
  <2>5. CASE d # x
    <3>1. pub'[d] = pub[d] /\ (BirthTodo(d)' <=> BirthTodo(d)) /\ ~BirthAt(d)
      BY <1>10, <2>1, <2>2, <2>3, <2>5
    <3>2. BirthRight(d)' /\ (Heard(d)' <=> Heard(d)) /\ (BirthOwed(d)' <=> BirthOwed(d))
      BY <1>1, <1>4, <2>1, <2>2, <3>1 DEF BirthRight, Heard, BirthOwed, Comes
    <3> QED
      BY <1>1, <1>2, <1>3, <1>5, <2>1, <2>2, <3>1, <3>2, QuietDev
  <2> QED
    BY <2>4, <2>5
<1> QED
  BY <1>6, <1>7, <1>8, <1>9, <1>11, <1>12, <1>13 DEF BirthThread

-----------------------------------------------------------------------------
(* The internal broker is lost, or back *)

\* What the host was told of d and what the program noted stay as they are.
Fixed(d) ==
  /\ pub'[d] = pub[d] /\ known'[d] = known[d] /\ val'[d] = val[d]
  /\ host'.on = host.on /\ host'.val[d] = host.val[d] /\ (d \in host'.alive <=> d \in host.alive)

\* What a step that does not touch d keeps of its invariant.
LEMMA FixedDev ==
  ASSUME NEW d \in Devices, DevInv(d), Fixed(d), MsgSame(d), UNCHANGED <<up, birth, devs, intUp>>,
         BirthOwed(d) => BirthOwed(d)', EstOwed(d) => EstOwed(d)' \/ pub[d] = "up" \/ known[d] = "down",
         Noting(d) => Noting(d)'
  PROVE  /\ StatusTold(d)' /\ ValueTold(d)' /\ DeathTold(d)' /\ BirthTold(d)' /\ VendorTold(d)'
         /\ BirthRight(d)' /\ MsgRight(d)'
<1>1. (Heard(d)' <=> Heard(d)) /\ (BirthAt(d)' <=> BirthAt(d)) /\ (BirthTodo(d)' <=> BirthTodo(d))
  BY ThreadsKept DEF Heard, Fixed
<1>2. StatusTold(d)' /\ ValueTold(d)'
  BY <1>1 DEF DevInv, StatusTold, ValueTold, Fixed, MsgSame
<1>3. DeathTold(d)' /\ BirthTold(d)' /\ VendorTold(d)'
  BY <1>1 DEF DevInv, DeathTold, BirthTold, VendorTold, Fixed, MsgSame
<1>4. BirthRight(d)' /\ MsgRight(d)'
  BY <1>1 DEF DevInv, BirthRight, MsgRight, Fixed, MsgSame
<1> QED
  BY <1>2, <1>3, <1>4

\* A device that no message is about and that is not in the birth process.
LEMMA FreeDev ==
  ASSUME TInv, NEW d \in Devices, d \notin msg.on, birth.pc = "wait"
  PROVE  /\ \A t \in {"birth", "data", "death"} : ~Left(t, d) /\ ~NextIs(t, d)
         /\ ~Pending(d) /\ ~BirthAt(d) /\ ~BirthTodo(d) /\ BirthRight(d)
<1>1. \A t \in {"birth", "data", "death"} : ~Left(t, d) /\ ~NextIs(t, d)
  BY ActsOn
<1> QED
  BY <1>1 DEF Pending, BirthAt, BirthTodo, BirthRight

\* The thread that publishes the DDEATHs.
LEMMA LostDev ==
  ASSUME IInv, TInv, NEW d \in Devices, DevInv(d), Alone(d), LostThread
  PROVE  DevInv(d)'
<1> USE DEF LostOnly, extVars, nodeVars, devVars, pubVars
<1>1. /\ UNCHANGED <<up, callbacks, semBirth, birth, est, msg, ext, intUp, estOwed, semEst,
                     devs, known, val>>
      /\ lost \in LostState /\ pub \in [Devices -> Status]
  <2>1. UNCHANGED <<up, callbacks, semBirth, birth, est, msg, ext, intUp, estOwed, semEst,
                    devs, known, val>>
    BY DEF LostThread, LostWait, LostLink, LostInit, LostSend, LostMark, SetPublished
  <2> QED
    BY <2>1 DEF TInv, Records, Known
<1>2. /\ MsgSame(d) /\ (BirthOwed(d)' <=> BirthOwed(d)) /\ (EstOwed(d)' <=> EstOwed(d))
      /\ (EstAt(d)' <=> EstAt(d)) /\ (BirthTodo(d)' <=> BirthTodo(d)) /\ (BirthAt(d)' <=> BirthAt(d))
  BY <1>1, MsgKept, ThreadsKept DEF BirthOwed, Comes
<1> DEFINE x == First(lost.todo)
<1>3. lost.pc # "wait" => x \in devs /\ x \in Devices
  BY FirstRest DEF TInv, Records, LostState, Busy, Known
<1>4. ASSUME LostAt(d)
      PROVE  d \notin msg.on /\ birth.pc = "wait" /\ ~EstAt(d) /\ est.pc # "init"
  BY <1>4 DEF Alone, LostAt, LostDeals, EstDeals, EstAt
<1>5. EstRight(d) /\ LostRight(d)
  BY DEF DevInv
<1>6. CASE LostWait \/ LostLink \/ LostInit
  <2>1. /\ UNCHANGED <<pub, host>>
        /\ lost.pc # "mark" /\ lost'.pc # "mark"
        /\ LostAt(d)' => LostAt(d) \/ ~intUp
    BY <1>1, <1>6 DEF LostWait, LostLink, LostInit, LostNext, LostGoto, LostState, LostAt
  <2>2. Fixed(d) /\ (Noting(d)' <=> Noting(d)) /\ (Heard(d)' <=> Heard(d))
    BY <1>1, <1>2, <2>1 DEF Fixed, Noting, Heard, MsgSame
  <2>3. EstRight(d)' /\ LostRight(d)'
    BY <1>1, <1>2, <1>5, <2>1, <2>2 DEF EstRight, LostRight
  <2> QED
    BY <1>1, <1>2, <2>2, <2>3, FixedDev DEF DevInv
<1>7. CASE LostSend
  <2>1. /\ lost.pc = "send" /\ lost'.pc = "mark" /\ lost'.todo = lost.todo /\ UNCHANGED pub
        /\ PublishDevice(x, FALSE, 0)
    BY <1>1, <1>7 DEF LostSend, LostGoto, LostState
  <2>2. /\ host'.on = host.on
        /\ d # x => (d \in host'.alive <=> d \in host.alive) /\ host'.val[d] = host.val[d]
        /\ d = x /\ up /\ host.on => d \notin host'.alive
    BY <1>3, <2>1, ToldDeath
  <2>3. (LostAt(d)' <=> d = x) /\ (LostAt(d) <=> d = x)
    BY <2>1 DEF LostAt
  <2>4. Heard(d)' <=> Heard(d)
    BY <1>1, <1>2, <2>2 DEF Heard
  <2>5. CASE d # x
    <3>1. Fixed(d) /\ (Noting(d)' <=> Noting(d))
      BY <1>1, <1>2, <2>1, <2>2, <2>3, <2>5 DEF Fixed, Noting, MsgSame
    <3>2. EstRight(d)' /\ LostRight(d)'
      BY <1>1, <1>2, <1>5, <2>2, <2>3, <2>4, <2>5 DEF EstRight, LostRight
    <3> QED
      BY <1>1, <1>2, <3>1, <3>2, FixedDev DEF DevInv
  <2>6. CASE d = x
    <3>1. d \notin msg.on /\ birth.pc = "wait" /\ ~EstAt(d)
      BY <1>4, <2>3, <2>6
    <3>2. /\ \A t \in {"birth", "data", "death"} : ~Left(t, d)' /\ ~NextIs(t, d)'
          /\ ~Pending(d)' /\ ~BirthAt(d)' /\ ~BirthTodo(d)'
      BY <1>2, <3>1, FreeDev DEF MsgSame
    <3>3. Noting(d)'
      BY <2>1, <2>3, <2>6 DEF Noting
    <3>4. Heard(d)' => d \notin host'.alive
      BY <2>2, <2>4, <2>6 DEF Heard
    <3>5. StatusTold(d)' /\ ValueTold(d)'
      BY <3>3, <3>4 DEF StatusTold, ValueTold
    <3>6. DeathTold(d)' /\ BirthTold(d)' /\ VendorTold(d)'
      BY <1>1, <1>2, <2>1 DEF DevInv, DeathTold, BirthTold, VendorTold, MsgSame
    <3>7. BirthRight(d)' /\ EstRight(d)' /\ LostRight(d)'
      BY <1>1, <1>2, <1>5, <2>3, <2>6, <3>1, <3>2, <3>4 DEF BirthRight, EstRight, LostRight
    <3>8. MsgRight(d)'
      BY <1>2, <3>1, <3>2 DEF MsgRight, MsgSame
    <3> QED
      BY <3>5, <3>6, <3>7, <3>8 DEF DevInv
  <2> QED
    BY <2>5, <2>6
<1>8. CASE LostMark
  <2>1. /\ lost.pc = "mark" /\ lost'.pc \in {"wait", "link"} /\ UNCHANGED host
        /\ pub' = [pub EXCEPT ![x] = "down"]
    BY <1>1, <1>8 DEF LostMark, SetPublished, LostNext, LostGoto, LostState
  <2>2. ~LostAt(d)' /\ (LostAt(d) <=> d = x) /\ (Heard(d)' <=> Heard(d))
    BY <1>1, <1>2, <2>1 DEF LostAt, Heard
  <2>3. EstRight(d)' /\ LostRight(d)'
    BY <1>1, <1>2, <1>5, <2>1, <2>2 DEF EstRight, LostRight
  <2>4. CASE d # x
    <3>1. Fixed(d) /\ (Noting(d)' <=> Noting(d))
      BY <1>1, <1>2, <2>1, <2>2, <2>4 DEF Fixed, Noting, MsgSame
    <3> QED
      BY <1>1, <1>2, <2>3, <3>1, FixedDev DEF DevInv
  <2>5. CASE d = x
    <3>1. d \notin msg.on /\ birth.pc = "wait" /\ pub'[d] = "down"
      BY <1>1, <1>4, <2>1, <2>2, <2>5
    <3>2. /\ \A t \in {"birth", "data", "death"} : ~Left(t, d)' /\ ~NextIs(t, d)'
          /\ ~Pending(d)' /\ ~BirthAt(d)' /\ ~BirthTodo(d)'
      BY <1>2, <3>1, FreeDev DEF MsgSame
    <3>3. (Heard(d) => d \notin host.alive) /\ (~intUp \/ EstOwed(d))
      BY <1>5, <2>1, <2>2, <2>5 DEF LostRight
    <3>4. StatusTold(d)' /\ ValueTold(d)' /\ DeathTold(d)' /\ BirthTold(d)' /\ VendorTold(d)'
      BY <1>1, <1>2, <2>1, <2>2, <3>1, <3>3 DEF StatusTold, ValueTold, DeathTold, BirthTold, VendorTold
    <3>5. BirthRight(d)' /\ MsgRight(d)'
      BY <1>2, <3>1, <3>2 DEF BirthRight, MsgRight, MsgSame
    <3> QED
      BY <2>3, <3>4, <3>5 DEF DevInv
  <2> QED
    BY <2>4, <2>5
<1> QED
  BY <1>6, <1>7, <1>8 DEF LostThread

\* The thread that publishes the DBIRTHs of the devices that are back.
LEMMA EstDev ==
  ASSUME IInv, TInv, NEW d \in Devices, DevInv(d), Alone(d), EstThread
  PROVE  DevInv(d)'
<1> USE DEF EstOnly, extVars, nodeVars, devVars, pubVars
<1>1. /\ UNCHANGED <<up, callbacks, init, semBirth, birth, lost, msg, ext, intUp, estOwed,
                     devs, known, val>>
      /\ est \in EstState /\ pub \in [Devices -> Status] /\ semEst \in Nat
      /\ est.pc \in {"prep", "send", "mark"} => est.todo # {}
  <2>1. UNCHANGED <<up, callbacks, init, semBirth, birth, lost, msg, ext, intUp, estOwed,
                    devs, known, val>>
    BY DEF EstThread, EstWait, EstInit, EstPrep, EstSend, EstMark, SetPublished
  <2> QED
    BY <2>1 DEF TInv, Records, Known, Busy, Counted, IntCounts
<1>2. /\ MsgSame(d) /\ (BirthOwed(d)' <=> BirthOwed(d)) /\ (LostAt(d)' <=> LostAt(d))
      /\ (BirthTodo(d)' <=> BirthTodo(d)) /\ (BirthAt(d)' <=> BirthAt(d))
  BY <1>1, MsgKept, ThreadsKept DEF BirthOwed, Comes
<1> DEFINE x == First(est.todo)
           more == Rest(est.todo)
<1>3. est.pc \in {"prep", "send", "mark"} =>
        /\ x \in Devices /\ x \in est.todo /\ x \notin more
        /\ d \in est.todo <=> d \in more \/ d = x
        /\ EstAt(d) <=> d = x
  BY <1>1, FirstRest DEF TInv, EstState, Known, EstAt
<1>4. ASSUME EstAt(d) \/ est.pc = "init"
      PROVE  d \notin msg.on /\ birth.pc = "wait" /\ ~LostAt(d)
  <2>1. d \in EstDeals
    BY <1>4 DEF EstDeals, EstAt
  <2> QED
    BY <2>1 DEF Alone, LostAt, LostDeals
<1>5. EstRight(d) /\ LostRight(d)
  BY DEF DevInv
<1>6. CASE EstWait
  <2>1. est'.pc = "init" /\ est.pc = "wait" /\ UNCHANGED <<pub, host>>
    BY <1>1, <1>6 DEF EstWait, EstGoto, EstState
  <2>2. ~EstAt(d) /\ ~EstAt(d)' /\ EstOwed(d)'
    BY <2>1 DEF EstAt, EstOwed
  <2>3. Fixed(d) /\ (Noting(d)' <=> Noting(d)) /\ (Heard(d)' <=> Heard(d))
    BY <1>1, <1>2, <2>1, <2>2 DEF Fixed, Noting, Heard, MsgSame
  <2>4. EstRight(d)' /\ LostRight(d)'
    BY <1>1, <1>2, <1>5, <2>1, <2>2, <2>3 DEF EstRight, LostRight
  <2> QED
    BY <1>1, <1>2, <2>2, <2>3, <2>4, FixedDev DEF DevInv
<1>7. CASE EstInit
  <2>1. /\ est.pc = "init" /\ UNCHANGED <<pub, host, semEst>>
        /\ est'.pc \in {"wait", "prep"}
        /\ init /\ devs # {} => est'.pc = "prep" /\ est'.todo = devs
    BY <1>1, <1>7 DEF EstInit, EstNext, EstGoto, EstState
  <2>2. d \notin msg.on /\ birth.pc = "wait" /\ ~LostAt(d) /\ ~EstAt(d)
    BY <1>4, <2>1 DEF EstAt
  <2>3. BirthOwed(d) \/ (d \in devs => EstOwed(d)')
    <3>1. CASE init /\ d \in devs
      BY <2>1, <3>1 DEF EstOwed
    <3>2. CASE ~init
      BY <2>2, <3>2 DEF IInv, BInv, Owed, BirthOwed
    <3> QED
      BY <3>1, <3>2
  <2>4. Fixed(d) /\ (Noting(d)' <=> Noting(d)) /\ (Heard(d)' <=> Heard(d))
    BY <1>1, <1>2, <2>1, <2>2 DEF Fixed, Noting, Heard, MsgSame
  <2>5. EstRight(d)' /\ LostRight(d)'
    BY <1>2, <2>1, <2>2 DEF EstRight, LostRight, EstAt
  <2>6. BirthTold(d)'
    BY <1>1, <1>2, <2>1, <2>3 DEF BirthTold
  <2>7. StatusTold(d)' /\ ValueTold(d)'
    BY <1>1, <1>2, <2>1, <2>4 DEF DevInv, StatusTold, ValueTold, MsgSame
  <2>8. DeathTold(d)' /\ VendorTold(d)' /\ BirthRight(d)' /\ MsgRight(d)'
    BY <1>1, <1>2, <2>1, <2>4 DEF DevInv, DeathTold, VendorTold, BirthRight, MsgRight, MsgSame
  <2> QED
    BY <2>5, <2>6, <2>7, <2>8 DEF DevInv
<1>8. CASE EstPrep
  <2>1. est.pc = "prep" /\ UNCHANGED <<pub, host, semEst>>
    BY <1>8 DEF EstPrep
  <2>2. CASE BirthDue(x, FALSE)
    <3>1. est' = [est EXCEPT !.pc = "send", !.val = val[x]]
      BY <1>8, <2>2 DEF EstPrep
    <3>2. /\ est'.pc = "send" /\ est'.todo = est.todo /\ est'.val = val[x]
          /\ known[x] # "down"
      BY <1>1, <2>2, <3>1 DEF EstState, BirthDue
    <3>3. (EstAt(d)' <=> EstAt(d)) /\ (EstOwed(d)' <=> EstOwed(d))
      BY <1>1, <2>1, <3>2 DEF EstAt, EstOwed
    <3>4. Fixed(d) /\ (Noting(d)' <=> Noting(d)) /\ (Heard(d)' <=> Heard(d))
      BY <1>1, <1>2, <2>1, <3>2 DEF Fixed, Noting, Heard, MsgSame
    <3>5. EstRight(d)' /\ LostRight(d)'
      BY <1>1, <1>2, <1>3, <1>5, <2>1, <3>2, <3>3, <3>4 DEF EstRight, LostRight
    <3> QED
      BY <1>1, <1>2, <3>3, <3>4, <3>5, FixedDev DEF DevInv
  <2>3. CASE ~BirthDue(x, FALSE)
    <3>1. /\ est'.pc \in {"wait", "prep"} /\ (known[x] = "down" \/ pub[x] = "up")
          /\ more # {} => est'.pc = "prep" /\ est'.todo = more
      BY <1>1, <1>8, <2>3 DEF EstPrep, BirthDue, EstNext, EstGoto, EstState
    <3>2. EstOwed(d) => EstOwed(d)' \/ d = x
      BY <1>1, <1>3, <2>1, <3>1 DEF EstOwed
    <3>3. Fixed(d) /\ (Noting(d)' <=> Noting(d)) /\ (Heard(d)' <=> Heard(d))
      BY <1>1, <1>2, <2>1, <3>1 DEF Fixed, Noting, Heard, MsgSame
    <3>4. EstRight(d)' /\ LostRight(d)'
      <4>1. LostAt(d) => d # x
        BY <1>3, <1>4, <2>1
      <4> QED
        BY <1>1, <1>2, <1>5, <2>1, <3>1, <3>2, <3>3, <4>1 DEF EstRight, LostRight, EstAt
    <3> QED
      BY <1>1, <1>2, <3>1, <3>2, <3>3, <3>4, FixedDev DEF DevInv
  <2> QED
    BY <2>2, <2>3
<1>9. CASE EstSend
  <2>1. /\ est.pc = "send" /\ est'.pc = "mark" /\ est'.todo = est.todo
        /\ est.val \in {0, 1} /\ UNCHANGED <<pub, semEst>>
        /\ PublishDevice(x, TRUE, est.val)
    BY <1>1, <1>9 DEF EstSend, EstState
  <2>2. /\ host'.on = host.on
        /\ d # x => (d \in host'.alive <=> d \in host.alive) /\ host'.val[d] = host.val[d]
        /\ d = x /\ up /\ host.on => d \in host'.alive /\ host'.val[d] = est.val
    BY <1>3, <2>1, ToldBirth
  <2>3. /\ (EstAt(d)' <=> d = x) /\ (EstAt(d) <=> d = x) /\ (EstOwed(d)' <=> EstOwed(d))
        /\ Heard(d)' <=> Heard(d)
    BY <1>1, <1>2, <2>1, <2>2 DEF EstAt, EstOwed, Heard
  <2>4. CASE d # x
    <3>1. Fixed(d) /\ (Noting(d)' <=> Noting(d))
      BY <1>1, <1>2, <2>1, <2>2, <2>3, <2>4 DEF Fixed, Noting, MsgSame
    <3>2. EstRight(d)' /\ LostRight(d)'
      BY <1>1, <1>2, <1>5, <2>2, <2>3, <2>4 DEF EstRight, LostRight
    <3> QED
      BY <1>1, <1>2, <2>3, <3>1, <3>2, FixedDev DEF DevInv
  <2>5. CASE d = x
    <3>1. d \notin msg.on /\ birth.pc = "wait" /\ ~LostAt(d) /\ known[d] # "down" /\ est.val = val[d]
      BY <1>4, <1>5, <2>1, <2>3, <2>5 DEF EstRight
    <3>2. /\ \A t \in {"birth", "data", "death"} : ~Left(t, d)' /\ ~NextIs(t, d)'
          /\ ~Pending(d)' /\ ~BirthAt(d)' /\ ~BirthTodo(d)'
      BY <1>2, <3>1, FreeDev DEF MsgSame
    <3>3. Noting(d)'
      BY <2>1, <2>3, <2>5 DEF Noting
    <3>4. Heard(d)' => d \in host'.alive /\ host'.val[d] = val[d]
      BY <2>2, <2>3, <2>5, <3>1 DEF Heard
    <3>5. StatusTold(d)' /\ ValueTold(d)'
      BY <1>1, <3>3, <3>4 DEF StatusTold, ValueTold
    <3>6. DeathTold(d)' /\ BirthTold(d)' /\ VendorTold(d)'
      BY <1>1, <1>2, <2>1, <2>3 DEF DevInv, DeathTold, BirthTold, VendorTold, MsgSame
    <3>7. BirthRight(d)' /\ EstRight(d)' /\ LostRight(d)'
      BY <1>1, <1>2, <2>1, <3>1, <3>2, <3>4 DEF BirthRight, EstRight, LostRight
    <3>8. MsgRight(d)'
      BY <1>2, <3>1, <3>2 DEF MsgRight, MsgSame
    <3> QED
      BY <3>5, <3>6, <3>7, <3>8 DEF DevInv
  <2> QED
    BY <2>4, <2>5
<1>10. CASE EstMark
  <2>1. /\ est.pc = "mark" /\ est'.pc \in {"wait", "prep"} /\ UNCHANGED <<host, semEst>>
        /\ more # {} => est'.pc = "prep" /\ est'.todo = more
        /\ pub' = [pub EXCEPT ![x] = "up"]
    BY <1>1, <1>10 DEF EstMark, SetPublished, EstNext, EstGoto, EstState
  <2>2. Heard(d)' <=> Heard(d)
    BY <1>1, <1>2, <2>1 DEF Heard
  <2>3. CASE d # x
    <3>1. EstOwed(d) => EstOwed(d)'
      BY <1>1, <1>3, <2>1, <2>3 DEF EstOwed
    <3>2. Fixed(d) /\ (Noting(d)' <=> Noting(d))
      BY <1>1, <1>2, <1>3, <2>1, <2>3 DEF Fixed, Noting, MsgSame
    <3>3. EstRight(d)' /\ LostRight(d)'
      BY <1>1, <1>2, <1>5, <2>1, <2>2, <3>1 DEF EstRight, LostRight, EstAt
    <3> QED
      BY <1>1, <1>2, <3>1, <3>2, <3>3, FixedDev DEF DevInv
  <2>4. CASE d = x
    <3>1. d \notin msg.on /\ birth.pc = "wait" /\ ~LostAt(d) /\ pub'[d] = "up"
      BY <1>1, <1>3, <1>4, <2>1, <2>4
    <3>2. /\ \A t \in {"birth", "data", "death"} : ~Left(t, d)' /\ ~NextIs(t, d)'
          /\ ~Pending(d) /\ ~Pending(d)' /\ ~BirthAt(d)' /\ ~BirthTodo(d)'
      BY <1>2, <3>1, FreeDev DEF MsgSame
    <3>3. (Heard(d) => d \in host.alive) /\ known[d] # "down"
      BY <1>3, <1>5, <2>1, <2>4 DEF EstRight
    <3>4. ValueTold(d)'
      BY <1>1, <2>1, <2>2, <3>2 DEF DevInv, ValueTold
    <3>5. StatusTold(d)' /\ DeathTold(d)' /\ BirthTold(d)' /\ VendorTold(d)'
      BY <1>1, <2>1, <2>2, <3>1, <3>3 DEF StatusTold, DeathTold, BirthTold, VendorTold
    <3>6. BirthRight(d)' /\ EstRight(d)' /\ LostRight(d)' /\ MsgRight(d)'
      BY <1>2, <2>1, <3>1, <3>2 DEF BirthRight, EstRight, LostRight, MsgRight, MsgSame, EstAt
    <3> QED
      BY <3>4, <3>5, <3>6 DEF DevInv
  <2> QED
    BY <2>3, <2>4
<1> QED
  BY <1>6, <1>7, <1>8, <1>9, <1>10 DEF EstThread

-----------------------------------------------------------------------------
(* The messages of the internal broker *)

Kinds == {"birth", "data", "death"}

\* The next action is one that is left, and actions are about what the message is about.
Apart == \A d \in Devices, t \in Kinds :
           /\ NextIs(t, d) => Left(t, d)
           /\ Left(t, d) => d \in msg.on

\* An action about d belongs to a message about d.
LEMMA TInvApart == TInv => Apart
<1> SUFFICES ASSUME TInv, NEW d \in Devices, NEW t \in Kinds
             PROVE  /\ NextIs(t, d) => Left(t, d)
                    /\ Left(t, d) => d \in msg.on
  BY DEF Apart
<1>1. Left(t, d) => d \in msg.on
  BY ActsOn DEF Kinds
<1>2. NextIs(t, d) => Left(t, d)
  <2>1. \A a, b : /\ 1 \in DOMAIN <<a>> /\ Head(<<a>>) = <<a>>[1]
                  /\ 1 \in DOMAIN <<a, b>> /\ Head(<<a, b>>) = <<a, b>>[1]
    OBVIOUS
  <2>2. msg.acts # <<>> => 1 \in DOMAIN msg.acts /\ Head(msg.acts) = msg.acts[1]
    <3>1. CASE DeathMsg
      BY <3>1, EmptySeq, LenProperties DEF DeathMsg
    <3>2. CASE DeviceMsg
      BY <2>1, <3>2 DEF DeviceMsg
    <3>3. CASE NoMsg \/ OpenMsg \/ TypesMsg
      BY <2>1, <3>3 DEF NoMsg, OpenMsg, TypesMsg
    <3> QED
      BY <3>1, <3>2, <3>3 DEF TInv, Message
  <2> QED
    BY <2>2 DEF NextIs, Left
<1> QED
  BY <1>1, <1>2

\* ... and so it does after a step.
LEMMA TInvApartNext == TInv' => Apart'
  BY TInvApart, PTL

\* What the thread leaves alone.
LEMMA MsgKeeps ==
  ASSUME TInv, MsgThread, NEW d
  PROVE  /\ UNCHANGED <<up, birth, lost, est, intUp>>
         /\ (BirthAt(d)' <=> BirthAt(d)) /\ (BirthTodo(d)' <=> BirthTodo(d))
         /\ (EstAt(d)' <=> EstAt(d)) /\ (EstOwed(d)' <=> EstOwed(d)) /\ (LostAt(d)' <=> LostAt(d))
         /\ BirthOwed(d) => BirthOwed(d)'
<1>1. UNCHANGED <<up, callbacks, birth, lost, est, ext, intUp, estOwed, semEst>>
  BY MsgFrame DEF intVars
<1>2. semBirth \in Nat
  BY DEF TInv, Counted, ScadaCounts
<1>3. msg.pc = "post" \/ semBirth > 0 => msg'.pc = "post" \/ semBirth' > 0
  <2>1. CASE MsgPost
    BY <1>2, <2>1 DEF MsgPost
  <2>2. CASE ~MsgPost
    BY <2>2 DEF MsgThread, MsgArrives, RealUpdate, VendorBirth, VendorData, VendorDeath, TemplateDef,
       MsgTake, VendorDecide, MsgCheck, MsgAct, MsgSend, MsgMark, MsgClear
  <2> QED
    BY <2>1, <2>2
<1> QED
  BY <1>1, <1>3, ThreadsKept DEF BirthOwed, Comes

\* The members of short sequences.
LEMMA Single ==
  ASSUME NEW s, NEW a, s = <<a>>
  PROVE  /\ Head(s) = a /\ Tail(s) = <<>> /\ s # <<>>
         /\ \A x : (\E i \in DOMAIN s : s[i] = x) <=> a = x
<1>1. \A x : (\E i \in DOMAIN s : s[i] = x) <=> a = x
  <2>1. DOMAIN s = {1} /\ s[1] = a
    OBVIOUS
  <2> QED
    BY ONLY <2>1
<1>2. Head(s) = a /\ Tail(s) = <<>> /\ s # <<>>
  BY Short
<1> QED
  BY <1>1, <1>2

\* ... of two.
LEMMA Pair ==
  ASSUME NEW s, NEW a, NEW b, s = <<a, b>>
  PROVE  /\ Head(s) = a /\ Tail(s) = <<b>> /\ s # <<>>
         /\ \A x : (\E i \in DOMAIN s : s[i] = x) <=> a = x \/ b = x
<1>1. \A x : (\E i \in DOMAIN s : s[i] = x) <=> a = x \/ b = x
  <2>1. DOMAIN s = {1, 2} /\ s[1] = a /\ s[2] = b
    OBVIOUS
  <2> QED
    BY ONLY <2>1
<1>2. Head(s) = a /\ Tail(s) = <<b>> /\ s # <<>>
  BY Short
<1> QED
  BY <1>1, <1>2

\* What short messages say.
LEMMA Says ==
  ASSUME NEW d, NEW t \in Kinds
  PROVE  /\ msg'.acts = <<>> => ~Left(t, d)' /\ ~NextIs(t, d)'
         /\ \A s \in Kinds : msg'.acts = <<Action(s, d)>> =>
              (Left(t, d)' <=> t = s) /\ (NextIs(t, d)' <=> t = s)
         /\ msg'.acts = <<Action("death", d), Action("birth", d)>> =>
              (Left(t, d)' <=> t # "data") /\ (NextIs(t, d)' <=> t = "death")
<1>1. ASSUME NEW s \in Kinds, msg'.acts = <<Action(s, d)>>
      PROVE  (Left(t, d)' <=> t = s) /\ (NextIs(t, d)' <=> t = s)
  <2>1. /\ (\E i \in DOMAIN msg'.acts : msg'.acts[i] = Action(t, d)) <=> Action(s, d) = Action(t, d)
        /\ msg'.acts # <<>> /\ Head(msg'.acts) = Action(s, d)
    BY <1>1, Single
  <2>2. Action(s, d) = Action(t, d) <=> t = s
    BY DEF Action
  <2> QED
    BY <2>1, <2>2 DEF Left, NextIs
<1>2. ASSUME msg'.acts = <<Action("death", d), Action("birth", d)>>
      PROVE  (Left(t, d)' <=> t # "data") /\ (NextIs(t, d)' <=> t = "death")
  <2>1. /\ (\E i \in DOMAIN msg'.acts : msg'.acts[i] = Action(t, d))
             <=> Action("death", d) = Action(t, d) \/ Action("birth", d) = Action(t, d)
        /\ msg'.acts # <<>> /\ Head(msg'.acts) = Action("death", d)
    BY <1>2, Pair
  <2>2. /\ Action("death", d) = Action(t, d) <=> t = "death"
        /\ Action("birth", d) = Action(t, d) <=> t = "birth"
    BY DEF Action
  <2> QED
    BY <2>1, <2>2 DEF Left, NextIs, Kinds
<1>3. msg'.acts = <<>> => ~Left(t, d)' /\ ~NextIs(t, d)'
  BY DEF Left, NextIs
<1> QED
  BY <1>1, <1>2, <1>3

\* What is left of a message.
LEMMA TailSays ==
  ASSUME TInv, NEW d \in Devices, NEW t \in Kinds, msg.acts # <<>>, DeathMsg \/ DeviceMsg,
         msg'.acts = Tail(msg.acts)
  PROVE  /\ Left(t, d)' => Left(t, d)
         /\ Left(t, d) => Left(t, d)' \/ NextIs(t, d)
<1>1. CASE DeathMsg
  <2> DEFINE s == msg.acts
  <2>1. /\ Len(s) \in Nat /\ DOMAIN s = 1..Len(s) /\ Len(s) > 0 /\ Head(s) = s[1]
        /\ Len(Tail(s)) = Len(s) - 1 /\ DOMAIN Tail(s) = 1..Len(Tail(s))
        /\ \A i \in 1..Len(Tail(s)) : Tail(s)[i] = s[i + 1]
    <3>1. s \in Seq([type : {"death"}, dev : msg.on]) /\ s # <<>>
      BY <1>1 DEF DeathMsg
    <3> HIDE DEF s
    <3> QED
      BY <3>1, EmptySeq, LenProperties, HeadTailProperties
  <2> HIDE DEF s
  <2>2. ASSUME NEW i \in DOMAIN Tail(s), Tail(s)[i] = Action(t, d)
        PROVE  \E j \in DOMAIN s : s[j] = Action(t, d)
    <3>1. i + 1 \in DOMAIN s /\ s[i + 1] = Action(t, d)
      BY <2>1, <2>2
    <3> QED
      BY <3>1
  <2>3. ASSUME NEW j \in DOMAIN s, s[j] = Action(t, d), Head(s) # Action(t, d)
        PROVE  \E i \in DOMAIN Tail(s) : Tail(s)[i] = Action(t, d)
    <3>1. j - 1 \in DOMAIN Tail(s) /\ Tail(s)[j - 1] = s[j]
      <4>1. j \in 2..Len(s)
        BY <2>1, <2>3
      <4>2. j - 1 \in 1..Len(Tail(s)) /\ (j - 1) + 1 = j
        BY <2>1, <4>1
      <4> QED
        BY <2>1, <4>2
    <3> QED
      BY <2>3, <3>1
  <2> QED
    BY <2>2, <2>3, Zenon DEF Left, NextIs, s
<1>2. CASE DeviceMsg
  <2>1. PICK x \in devs : msg.acts \in {<<Action("birth", x)>>, <<Action("data", x)>>,
                                         <<Action("death", x), Action("birth", x)>>}
    BY <1>2 DEF DeviceMsg
  <2>2. CASE msg.acts \in {<<Action("birth", x)>>, <<Action("data", x)>>}
    <3>1. PICK a : msg.acts = <<a>>
      BY <2>2
    <3>2. /\ (\E i \in DOMAIN msg.acts : msg.acts[i] = Action(t, d)) <=> a = Action(t, d)
          /\ Head(msg.acts) = a /\ msg'.acts = <<>>
      BY <3>1, Single
    <3>3. ~Left(t, d)'
      <4>1. msg'.acts = <<>>
        BY <3>2
      <4> QED
        BY ONLY <4>1 DEF Left
    <3> QED
      BY <3>2, <3>3 DEF Left, NextIs
  <2>3. CASE msg.acts = <<Action("death", x), Action("birth", x)>>
    <3>1. PICK a, b : msg.acts = <<a, b>>
      BY <2>3
    <3>2. /\ (\E i \in DOMAIN msg.acts : msg.acts[i] = Action(t, d)) <=> a = Action(t, d) \/ b = Action(t, d)
          /\ Head(msg.acts) = a /\ msg'.acts = <<b>>
      BY <3>1, Pair
    <3>3. (\E i \in DOMAIN msg'.acts : msg'.acts[i] = Action(t, d)) <=> b = Action(t, d)
      <4>1. msg'.acts = <<b>>
        BY <3>2
      <4> QED
        BY ONLY <4>1, Single
    <3> QED
      BY <3>2, <3>3 DEF Left, NextIs
  <2> QED
    BY <2>1, <2>2, <2>3
<1> QED
  BY <1>1, <1>2

\* A device that the message is not about.
LEMMA MsgAside ==
  ASSUME TInv, TInv', NEW d \in Devices, DevInv(d), MsgThread, d \notin msg.on, d \notin msg'.on
  PROVE  DevInv(d)'
<1>1. /\ \A t \in Kinds : ~Left(t, d) /\ ~NextIs(t, d)
      /\ \A t \in Kinds : ~Left(t, d)' /\ ~NextIs(t, d)'
  BY TInvApart, TInvApartNext DEF Apart
<1>2. ~Pending(d) /\ ~Pending(d)'
  BY <1>1 DEF Pending, Kinds
<1>3. Fixed(d) /\ (d \in devs' <=> d \in devs)
  <2> USE DEF Fixed, MsgOnly, extVars, intVars, devVars, pubVars, MsgTake
  <2>0. /\ known \in [Devices -> Status] /\ pub \in [Devices -> Status] /\ val \in [Devices -> {0, 1}]
        /\ Vendor \subseteq Devices
    BY NodeAssumption DEF TInv, Known
  <2>1. CASE MsgArrives
    <3>1. CASE \E x \in Devices \ Vendor, v \in {0, 1}, q \in {"good", "bad", "death"} : RealUpdate(x, q, v)
      <4>1. PICK x \in Devices \ Vendor, v \in {0, 1}, q \in {"good", "bad", "death"} : RealUpdate(x, q, v)
        BY <3>1
      <4>2. d # x
        BY <4>1 DEF RealUpdate, Decided, NoMessage
      <4> QED
        BY <2>0, <4>1, <4>2 DEF RealUpdate
    <3>2. CASE \E x \in Vendor, v \in {0, 1} : VendorData(x, v) \/ \E m \in BOOLEAN : VendorBirth(x, m, v)
      <4>1. PICK x \in Vendor, v \in {0, 1} : VendorData(x, v) \/ \E m \in BOOLEAN : VendorBirth(x, m, v)
        BY <3>2
      <4>2. d # x
        <5>1. msg'.on = {x}
          BY <4>1 DEF VendorData, VendorBirth, NoMessage
        <5> QED
          BY <5>1
      <4> QED
        BY <2>0, <4>1, <4>2 DEF VendorData, VendorBirth
    <3>3. CASE VendorDeath
      <4>1. d \notin devs \cap Vendor
        BY <3>3 DEF VendorDeath, Decided, NoMessage
      <4> QED
        BY <2>0, <3>3, <4>1 DEF VendorDeath
    <3>4. CASE TemplateDef
      BY <3>4 DEF TemplateDef
    <3> QED
      BY <2>1, <3>1, <3>2, <3>3, <3>4 DEF MsgArrives
  <2>2. CASE VendorDecide
    <3>1. (CHOOSE x \in msg.on : TRUE) # d
      BY <2>2 DEF VendorDecide, TInv, Message, NoMsg, OpenMsg, DeathMsg, DeviceMsg, TypesMsg, Working
    <3>2. known' = known \/ known' = [known EXCEPT ![CHOOSE x \in msg.on : TRUE] = "up"]
      BY <2>2 DEF VendorDecide
    <3>3. UNCHANGED <<devs, pub, val, host>>
      BY <2>2 DEF VendorDecide
    <3> QED
      BY <2>0, <3>1, <3>2, <3>3
  <2>3. CASE MsgCheck \/ MsgAct \/ MsgClear \/ MsgPost
    BY <2>3 DEF MsgCheck, MsgAct, MsgClear, MsgPost
  <2>4. CASE MsgSend \/ MsgMark
    <3>1. /\ Head(msg.acts).dev # d /\ Head(msg.acts).dev \in Devices
      BY <2>4, Acting, MsgKinds DEF MsgSend, MsgMark, TInv, Known
    <3>2. CASE MsgMark
      BY <2>0, <3>1, <3>2 DEF MsgMark, SetPublished
    <3>3. CASE MsgSend
      <4>1. UNCHANGED devVars /\ msg.val \in {0, 1}
        BY <3>3 DEF MsgSend, TInv, Message
      <4>2. \/ PublishData(Head(msg.acts).dev, msg.val)
            \/ PublishDevice(Head(msg.acts).dev, TRUE, msg.val)
            \/ PublishDevice(Head(msg.acts).dev, FALSE, msg.val)
        <5>1. CASE Head(msg.acts).type = "data"
          BY <3>3, <5>1 DEF MsgSend
        <5>2. CASE Head(msg.acts).type # "data"
          <6>1. PublishDevice(Head(msg.acts).dev, Head(msg.acts).type = "birth", msg.val)
            BY <3>3, <5>2 DEF MsgSend
          <6> QED
            BY <6>1 DEF PublishDevice
        <5> QED
          BY <5>1, <5>2
      <4>3. CASE PublishData(Head(msg.acts).dev, msg.val)
        BY <3>1, <4>1, <4>3, ToldData
      <4>4. CASE PublishDevice(Head(msg.acts).dev, TRUE, msg.val)
        BY <3>1, <4>1, <4>4, ToldBirth
      <4>5. CASE PublishDevice(Head(msg.acts).dev, FALSE, msg.val)
        BY <3>1, <4>1, <4>5, ToldDeath
      <4> QED
        BY <4>2, <4>3, <4>4, <4>5
    <3> QED
      BY <2>4, <3>2, <3>3
  <2> QED
    BY <2>1, <2>2, <2>3, <2>4 DEF MsgThread
<1>4. (Heard(d)' <=> Heard(d)) /\ (Noting(d)' <=> Noting(d))
  BY <1>1, <1>3, MsgKeeps DEF Heard, Fixed, Noting, Kinds
<1>5. StatusTold(d)' /\ ValueTold(d)'
  BY <1>2, <1>3, <1>4 DEF DevInv, StatusTold, ValueTold, Fixed
<1>6. DeathTold(d)' /\ BirthTold(d)' /\ VendorTold(d)'
  BY <1>1, <1>3, MsgKeeps DEF DevInv, DeathTold, BirthTold, VendorTold, Fixed, Kinds
<1>7. BirthRight(d)' /\ EstRight(d)' /\ LostRight(d)'
  BY <1>3, <1>4, MsgKeeps DEF DevInv, BirthRight, EstRight, LostRight, Fixed
<1>8. MsgRight(d)'
  BY <1>1 DEF MsgRight, Kinds
<1> QED
  BY <1>5, <1>6, <1>7, <1>8 DEF DevInv

\* Only the message deals with d.
Lone(d) == birth.pc = "wait" /\ est.pc # "init" /\ ~EstAt(d) /\ ~LostAt(d)

\* A message about d keeps the other threads away from d.
LEMMA MsgLone ==
  ASSUME TInv, NEW d \in Devices, MsgThread, (Alone(d) /\ d \in msg.on) \/ (Alone(d)' /\ d \in msg'.on)
  PROVE  Lone(d) /\ Lone(d)' /\ ~BirthTodo(d) /\ ~BirthTodo(d)' /\ ~BirthAt(d) /\ ~BirthAt(d)'
<1>1. /\ UNCHANGED <<birth, est, lost>>
      /\ (EstAt(d)' <=> EstAt(d)) /\ (LostAt(d)' <=> LostAt(d))
  BY MsgFrame, MsgKeeps
<1>2. CASE Alone(d) /\ d \in msg.on
  BY <1>1, <1>2 DEF Alone, EstDeals, LostDeals, Lone, EstAt, LostAt, BirthTodo, BirthAt
<1>3. CASE Alone(d)' /\ d \in msg'.on
  BY <1>1, <1>3 DEF Alone, EstDeals, LostDeals, Lone, EstAt, LostAt, BirthTodo, BirthAt
<1> QED
  BY <1>2, <1>3

\* What there is to show then.
LEMMA LoneDev ==
  ASSUME NEW d, Lone(d)', StatusTold(d)', ValueTold(d)', DeathTold(d)', BirthTold(d)', VendorTold(d)',
         MsgRight(d)'
  PROVE  DevInv(d)'
  BY DEF Lone, DevInv, BirthRight, EstRight, LostRight, BirthAt, BirthTodo

\* A message about d arrives.
LEMMA ArriveDev ==
  ASSUME TInv, TInv', NEW d \in Devices, DevInv(d), Alone(d)', MsgThread, MsgArrives, d \in msg'.on
  PROVE  DevInv(d)'
<1> USE DEF MsgOnly, extVars, intVars, devVars, pubVars, MsgTake
<1>1. Lone(d) /\ Lone(d)' /\ ~BirthTodo(d) /\ ~BirthTodo(d)' /\ ~BirthAt(d)
  BY MsgLone
<1>2. /\ msg.pc = "wait" /\ UNCHANGED <<pub, host>> /\ msg'.pc \in {"decide", "check"}
  <2>1. msg.pc = "wait" /\ UNCHANGED <<pub, host>>
    BY DEF MsgArrives, RealUpdate, VendorBirth, VendorData, VendorDeath, TemplateDef
  <2>2. \A on, acts : Decided(on, acts).pc = "check"
    BY DEF Decided, NoMessage
  <2>3. \A on, c : [NoMessage EXCEPT !.pc = "decide", !.on = on, !.changes = c].pc = "decide"
    BY DEF NoMessage
  <2>4. msg'.pc \in {"decide", "check"}
    <3>1. CASE \E x, v, q : RealUpdate(x, q, v)
      BY <2>2, <3>1 DEF RealUpdate
    <3>2. CASE \E x, v : VendorData(x, v)
      BY <2>3, <3>2 DEF VendorData
    <3>3. CASE \E x, v, m : VendorBirth(x, m, v)
      BY <2>3, <3>3 DEF VendorBirth
    <3>4. CASE VendorDeath \/ TemplateDef
      BY <2>2, <3>4 DEF VendorDeath, TemplateDef
    <3> QED
      BY <3>1, <3>2, <3>3, <3>4 DEF MsgArrives
  <2> QED
    BY <2>1, <2>4
<1>3. d \notin msg.on
  BY <1>2 DEF TInv, Message, NoMsg, OpenMsg, DeathMsg, DeviceMsg, TypesMsg, Working
<1>4. /\ \A t \in Kinds : ~Left(t, d) /\ ~NextIs(t, d)
      /\ ~Pending(d) /\ ~Noting(d) /\ ~Noting(d)'
  BY <1>1, <1>2, <1>3, TInvApart DEF Apart, Pending, Kinds, Lone, Noting
<1>5. /\ Heard(d)' <=> Heard(d)
      /\ BirthOwed(d) \/ EstOwed(d) => BirthOwed(d)' \/ EstOwed(d)'
      /\ UNCHANGED intUp
  BY <1>1, <1>2, MsgKeeps DEF Heard
<1>6. /\ Heard(d) => (pub[d] = "up" <=> d \in host.alive)
      /\ Heard(d) /\ d \in host.alive => host.val[d] = val[d]
      /\ known[d] = "down" => pub[d] # "up"
      /\ d \in devs /\ intUp /\ known[d] # "down" => pub[d] = "up" \/ BirthOwed(d) \/ EstOwed(d)
      /\ d \in Vendor \cap devs => pub[d] # "none"
  BY <1>1, <1>2, <1>4 DEF DevInv, StatusTold, ValueTold, DeathTold, BirthTold, VendorTold, Kinds
<1>7. /\ known \in [Devices -> Status] /\ pub \in [Devices -> Status] /\ val \in [Devices -> {0, 1}]
      /\ d \notin devs => pub[d] = "none"
  BY DEF TInv, Known
<1>8. StatusTold(d)'
  BY <1>2, <1>5, <1>6 DEF StatusTold
<1>9. CASE \E x \in Devices \ Vendor, v \in {0, 1}, q \in {"good", "bad", "death"} : RealUpdate(x, q, v)
  <2>1. PICK x \in Devices \ Vendor, v \in {0, 1}, q \in {"good", "bad", "death"} : RealUpdate(x, q, v)
    BY <1>9
  <2>2. d = x
    BY <2>1 DEF RealUpdate, Decided, NoMessage
  <2>3. /\ UNCHANGED devs /\ d \notin Vendor
        /\ val' = IF pub[d] = "none" THEN val ELSE [val EXCEPT ![d] = v]
    BY <2>1, <2>2 DEF RealUpdate
  <2>4. \E types \in {<<>>, <<"birth">>, <<"data">>, <<"death">>} :
          /\ msg' = Decided({d}, Actions(types, d))
          /\ types = <<>> => known' = known /\ (pub[d] = "up" => v = val[d])
          /\ types = <<"birth">> => pub[d] = "down" /\ known' = [known EXCEPT ![d] = "up"]
          /\ types = <<"data">> => pub[d] = "up" /\ known' = [known EXCEPT ![d] = "up"]
          /\ types = <<"death">> => pub[d] = "up" /\ known' = [known EXCEPT ![d] = "down"]
    <3> DEFINE Why(types) ==
          /\ msg' = Decided({d}, Actions(types, d))
          /\ known' = IF types = <<>> THEN known
                        ELSE [known EXCEPT ![d] = IF q = "death" THEN "down" ELSE "up"]
    <3>1. CASE pub[d] = "down" /\ q = "good"
      <4>1. Why(<<"birth">>)
        BY <2>1, <2>2, <3>1 DEF RealUpdate
      <4> QED
        BY <3>1, <4>1
    <3>2. CASE pub[d] = "up" /\ q = "death"
      <4>1. Why(<<"death">>)
        BY <2>1, <2>2, <3>2 DEF RealUpdate
      <4> QED
        BY <3>2, <4>1
    <3>3. CASE pub[d] = "up" /\ q # "death" /\ v # val[d]
      <4>1. Why(<<"data">>)
        BY <2>1, <2>2, <3>3 DEF RealUpdate
      <4> QED
        BY <3>3, <4>1
    <3>4. CASE /\ ~(pub[d] = "down" /\ q = "good") /\ ~(pub[d] = "up" /\ q = "death")
               /\ ~(pub[d] = "up" /\ q # "death" /\ v # val[d])
      <4>1. Why(<<>>)
        BY <2>1, <2>2, <3>4 DEF RealUpdate
      <4> QED
        BY <3>4, <4>1
    <3> QED
      BY <3>1, <3>2, <3>3, <3>4
  <2>5. PICK types \in {<<>>, <<"birth">>, <<"data">>, <<"death">>} :
          /\ msg' = Decided({d}, Actions(types, d))
          /\ types = <<>> => known' = known /\ (pub[d] = "up" => v = val[d])
          /\ types = <<"birth">> => pub[d] = "down" /\ known' = [known EXCEPT ![d] = "up"]
          /\ types = <<"data">> => pub[d] = "up" /\ known' = [known EXCEPT ![d] = "up"]
          /\ types = <<"death">> => pub[d] = "up" /\ known' = [known EXCEPT ![d] = "down"]
    BY <2>4
  <2>6. msg'.acts = Actions(types, d) /\ msg'.pc = "check"
    BY <2>5 DEF Decided, NoMessage
  <2>7. CASE types = <<>>
    <3>1. \A t \in Kinds : ~Left(t, d)' /\ ~NextIs(t, d)'
      BY <2>6, <2>7, ActionsAre, Says
    <3>2. known' = known /\ (pub[d] = "up" => val'[d] = val[d])
      BY <1>7, <2>3, <2>5, <2>7
    <3>3. ValueTold(d)'
      BY <1>2, <1>5, <1>6, <3>2 DEF ValueTold
    <3>4. DeathTold(d)' /\ BirthTold(d)' /\ VendorTold(d)'
      BY <1>2, <1>5, <1>6, <2>3, <3>2 DEF DeathTold, BirthTold, VendorTold
    <3>5. MsgRight(d)'
      BY <2>6, <3>1 DEF MsgRight, Kinds
    <3> QED
      BY <1>1, <1>8, <3>3, <3>4, <3>5, LoneDev
  <2>8. CASE types = <<"birth">>
    <3>1. \A t \in Kinds : (Left(t, d)' <=> t = "birth") /\ (NextIs(t, d)' <=> t = "birth")
      BY <2>6, <2>8, ActionsAre, Says DEF Kinds
    <3>2. known'[d] = "up" /\ pub[d] = "down"
      BY <1>7, <2>5, <2>8
    <3>3. ValueTold(d)'
      BY <1>2, <1>5, <1>6, <3>2 DEF ValueTold
    <3>4. DeathTold(d)' /\ BirthTold(d)' /\ VendorTold(d)'
      BY <1>2, <2>3, <3>1, <3>2 DEF DeathTold, BirthTold, VendorTold, Kinds
    <3>5. MsgRight(d)'
      BY <1>2, <2>6, <3>1, <3>2 DEF MsgRight, Kinds
    <3> QED
      BY <1>1, <1>8, <3>3, <3>4, <3>5, LoneDev
  <2>9. CASE types = <<"data">>
    <3>1. \A t \in Kinds : (Left(t, d)' <=> t = "data") /\ (NextIs(t, d)' <=> t = "data")
      BY <2>6, <2>9, ActionsAre, Says DEF Kinds
    <3>2. known'[d] = "up" /\ pub[d] = "up"
      BY <1>7, <2>5, <2>9
    <3>3. ValueTold(d)'
      BY <3>1 DEF ValueTold, Pending, Kinds
    <3>4. DeathTold(d)' /\ BirthTold(d)' /\ VendorTold(d)'
      BY <1>2, <2>3, <3>1, <3>2 DEF DeathTold, BirthTold, VendorTold, Kinds
    <3>5. MsgRight(d)'
      BY <1>2, <2>6, <3>1, <3>2 DEF MsgRight, Kinds
    <3> QED
      BY <1>1, <1>8, <3>3, <3>4, <3>5, LoneDev
  <2>10. CASE types = <<"death">>
    <3>1. \A t \in Kinds : (Left(t, d)' <=> t = "death") /\ (NextIs(t, d)' <=> t = "death")
      BY <2>6, <2>10, ActionsAre, Says DEF Kinds
    <3>2. known'[d] = "down" /\ pub[d] = "up"
      BY <1>7, <2>5, <2>10
    <3>3. ValueTold(d)'
      BY <3>1 DEF ValueTold, Pending, Kinds
    <3>4. DeathTold(d)' /\ BirthTold(d)' /\ VendorTold(d)'
      BY <1>2, <2>3, <3>1, <3>2 DEF DeathTold, BirthTold, VendorTold, Kinds
    <3>5. MsgRight(d)'
      BY <1>2, <2>6, <3>1, <3>2 DEF MsgRight, Kinds
    <3> QED
      BY <1>1, <1>8, <3>3, <3>4, <3>5, LoneDev
  <2> QED
    BY <2>7, <2>8, <2>9, <2>10
<1>10. CASE \E x \in Vendor, v \in {0, 1} : VendorData(x, v) \/ \E m \in BOOLEAN : VendorBirth(x, m, v)
  <2>1. PICK x \in Vendor, v \in {0, 1} : VendorData(x, v) \/ \E m \in BOOLEAN : VendorBirth(x, m, v)
    BY <1>10
  <2>2. PICK c \in {"device", "metrics", "values", "none"} :
          /\ msg' = [NoMessage EXCEPT !.pc = "decide", !.on = {x}, !.changes = c]
          /\ c = "device" <=> x \notin devs
          /\ c = "none" => v = val[x]
    BY <2>1 DEF VendorData, VendorBirth, Change
  <2>3. msg'.pc = "decide" /\ msg'.on = {x} /\ msg'.changes = c /\ msg'.acts = <<>>
    BY <2>2 DEF NoMessage
  <2>4. d = x
    BY <2>3
  <2>5. /\ val' = [val EXCEPT ![d] = v] /\ UNCHANGED known
        /\ d \notin devs => c = "device"
    BY <2>1, <2>2, <2>4 DEF VendorData, VendorBirth
  <2>6. \A t \in Kinds : ~Left(t, d)' /\ ~NextIs(t, d)'
    BY <2>3, Says
  <2>7. ValueTold(d)'
    <3>1. CASE c = "none"
      <4>1. val'[d] = val[d]
        BY <1>7, <2>2, <2>4, <2>5, <3>1
      <4> QED
        BY <1>2, <1>5, <1>6, <4>1 DEF ValueTold
    <3>2. CASE c # "none"
      BY <2>3, <2>4, <3>2 DEF ValueTold, Pending
    <3> QED
      BY <3>1, <3>2
  <2>8. DeathTold(d)' /\ BirthTold(d)'
    BY <1>2, <1>6, <2>3, <2>4, <2>5 DEF DeathTold, BirthTold
  <2>9. VendorTold(d)'
    BY <1>2, <1>6, <2>3, <2>4, <2>5 DEF VendorTold
  <2>10. MsgRight(d)'
    BY <1>2, <1>7, <2>2, <2>3, <2>4, <2>6 DEF MsgRight, Kinds
  <2> QED
    BY <1>1, <1>8, <2>7, <2>8, <2>9, <2>10, LoneDev
<1>11. CASE VendorDeath
  <2> DEFINE dead == devs \cap Vendor
             s == SetToSeq(dead)
             acts == [i \in DOMAIN s |-> Action("death", s[i])]
  <2>1. /\ UNCHANGED <<devs, val>> /\ msg' = Decided(dead, acts)
        /\ known' = [x \in Devices |-> IF x \in dead THEN "down" ELSE known[x]]
    BY <1>11 DEF VendorDeath
  <2>2. IsFiniteSet(dead)
    BY NodeAssumption, FS_Subset DEF TInv, Known
  <2>3. \A x \in dead : \E i \in DOMAIN s : s[i] = x
    BY <2>2, Listed
  <2>4. DOMAIN acts = DOMAIN s /\ \A i \in DOMAIN s : acts[i] = Action("death", s[i])
    OBVIOUS
  <2> HIDE DEF s, acts
  <2>5. msg'.on = dead /\ msg'.acts = acts /\ msg'.pc = "check"
    BY <2>1 DEF Decided, NoMessage
  <2>6. d \in dead /\ known'[d] = "down"
    BY <2>1, <2>5
  <2>7. Left("death", d)'
    BY <2>3, <2>4, <2>5, <2>6 DEF Left
  <2>8. ~Left("birth", d)' /\ ~Left("data", d)' /\ ~NextIs("birth", d)' /\ ~NextIs("data", d)'
    <3>1. ~Left("birth", d)' /\ ~Left("data", d)'
      BY <2>4, <2>5 DEF Left, Action
    <3> QED
      BY <3>1, TInvApartNext DEF Apart, Kinds
  <2>9. ValueTold(d)'
    BY <2>7 DEF ValueTold, Pending
  <2>10. DeathTold(d)' /\ BirthTold(d)' /\ VendorTold(d)'
    BY <1>2, <1>6, <2>1, <2>6, <2>7 DEF DeathTold, BirthTold, VendorTold
  <2>11. MsgRight(d)'
    BY <2>5, <2>6, <2>8 DEF MsgRight
  <2> QED
    BY <1>1, <1>8, <2>9, <2>10, <2>11, LoneDev
<1>12. CASE TemplateDef
  <2>1. msg'.on = {"udt"}
    BY <1>12 DEF TemplateDef, Decided, NoMessage
  <2> QED
    BY <2>1, NodeAssumption
<1> QED
  BY <1>9, <1>10, <1>11, <1>12 DEF MsgArrives

\* The next action of a message about d.
LEMMA HeadOf ==
  ASSUME TInv, NEW d \in Devices, d \in msg.on, msg.acts # <<>>
  PROVE  LET a == Head(msg.acts) IN
         /\ a = Action(a.type, a.dev) /\ a.type \in Kinds /\ a.dev \in devs
         /\ a.type # "death" => a.dev = d /\ Tail(msg.acts) = <<>> /\ ~Left("death", d)
         /\ a.type = "death" => ~Left("data", d)
         /\ a.dev # d => a.type = "death" /\ ~Left("birth", d)
         /\ \A t \in Kinds : NextIs(t, d) <=> a.type = t /\ a.dev = d
         /\ DeathMsg \/ DeviceMsg
<1> DEFINE a == Head(msg.acts)
<1>1. DeathMsg \/ DeviceMsg
  <2>1. ~TypesMsg
    BY NodeAssumption DEF TypesMsg
  <2> QED
    BY <2>1 DEF TInv, Message, NoMsg, OpenMsg
<1>2. /\ a = Action(a.type, a.dev) /\ a.type \in Kinds /\ a.dev \in msg.on /\ a.dev \in devs
  BY <1>1, Acting DEF Kinds
<1>3. \A t \in Kinds : NextIs(t, d) <=> a.type = t /\ a.dev = d
  BY <1>2 DEF NextIs, Action
<1>4. CASE DeathMsg
  <2>1. \A i \in DOMAIN msg.acts : msg.acts[i] \in [type : {"death"}, dev : msg.on]
    <3>1. msg.acts \in Seq([type : {"death"}, dev : msg.on])
      BY <1>4 DEF DeathMsg
    <3> QED
      BY <3>1, LenProperties, ElementOfSeq
  <2>2. ~Left("birth", d) /\ ~Left("data", d)
    BY <2>1 DEF Left, Action
  <2>3. a.type = "death"
    <3>1. msg.acts \in Seq([type : {"death"}, dev : msg.on])
      BY <1>4 DEF DeathMsg
    <3>2. a \in [type : {"death"}, dev : msg.on]
      BY <3>1, HeadTailProperties
    <3> QED
      BY <3>2
  <2> QED
    BY <1>1, <1>2, <1>3, <2>2, <2>3
<1>5. CASE DeviceMsg
  <2>1. PICK x \in devs : /\ msg.on = {x}
                          /\ msg.acts \in {<<Action("birth", x)>>, <<Action("data", x)>>,
                                           <<Action("death", x), Action("birth", x)>>}
    BY <1>5 DEF DeviceMsg
  <2>2. x = d /\ a.dev = d
    BY <1>2, <2>1
  <2>3. \A s, t : Action(s, d) = Action(t, d) <=> s = t
    BY DEF Action
  <2>4. ASSUME NEW s \in {"birth", "data"}, msg.acts = <<Action(s, d)>>
        PROVE  a.type = s /\ Tail(msg.acts) = <<>> /\ ~Left("death", d)
    <3>1. /\ a = Action(s, d) /\ Tail(msg.acts) = <<>>
          /\ (\E i \in DOMAIN msg.acts : msg.acts[i] = Action("death", d))
               <=> Action(s, d) = Action("death", d)
      BY <2>4, Single
    <3> QED
      BY <2>3, <3>1 DEF Left, Action
  <2>5. ASSUME msg.acts = <<Action("death", d), Action("birth", d)>>
        PROVE  a.type = "death" /\ ~Left("data", d)
    <3>1. /\ a = Action("death", d)
          /\ (\E i \in DOMAIN msg.acts : msg.acts[i] = Action("data", d))
               <=> Action("death", d) = Action("data", d) \/ Action("birth", d) = Action("data", d)
      BY <2>5, Pair
    <3> QED
      BY <2>3, <3>1 DEF Left, Action
  <2> QED
    BY <1>1, <1>2, <1>3, <2>1, <2>2, <2>4, <2>5
<1> QED
  BY <1>1, <1>4, <1>5

\* The actions stay as they are.
LEMMA ActsKept ==
  ASSUME NEW d, msg'.acts = msg.acts
  PROVE  \A t \in Kinds : (Left(t, d)' <=> Left(t, d)) /\ (NextIs(t, d)' <=> NextIs(t, d))
  BY DEF Left, NextIs

\* It is decided what the host is to be told of d.
LEMMA DecideDev ==
  ASSUME TInv, NEW d \in Devices, DevInv(d), Alone(d), MsgThread, VendorDecide, d \in msg.on
  PROVE  DevInv(d)'
<1>1. Lone(d) /\ Lone(d)' /\ ~BirthTodo(d) /\ ~BirthTodo(d)' /\ ~BirthAt(d)
  BY MsgLone
<1>2. /\ UNCHANGED <<up, intUp, devs, pub, val, host>>
      /\ Heard(d)' <=> Heard(d)
  <2>1. UNCHANGED <<devs, pub, val, host>>
    BY DEF VendorDecide, pubVars
  <2> QED
    BY <1>1, <2>1, MsgKeeps DEF Heard
<1>3. /\ msg.pc = "decide" /\ msg.on = {d} /\ msg.acts = <<>> /\ d \in Vendor \cap devs
      /\ msg.changes \in {"device", "metrics", "values", "none"}
  BY DEF VendorDecide, TInv, Message, NoMsg, OpenMsg, DeathMsg, DeviceMsg, TypesMsg, Working
<1>4. (CHOOSE x \in msg.on : TRUE) = d
  BY <1>3
<1>5. /\ \A t \in Kinds : ~Left(t, d) /\ ~NextIs(t, d)
      /\ ~Noting(d)
      /\ Pending(d) <=> msg.changes # "none"
  BY <1>1, <1>3 DEF Left, NextIs, Noting, Pending, Kinds, Lone
<1>6. /\ Heard(d) => (pub[d] = "up" <=> d \in host.alive)
      /\ Heard(d) /\ d \in host.alive /\ msg.changes = "none" => host.val[d] = val[d]
      /\ known[d] = "down" => pub[d] # "up"
      /\ pub[d] # "none" \/ msg.changes = "device"
      /\ msg.changes = "device" => pub[d] # "up"
  BY <1>1, <1>3, <1>5 DEF DevInv, StatusTold, ValueTold, DeathTold, VendorTold, MsgRight, Kinds
<1>7. known \in [Devices -> Status] /\ pub[d] \in {"none", "up", "down"}
  BY DEF TInv, Known, Status
<1>8. \E types \in {<<>>, <<"birth">>, <<"data">>, <<"death", "birth">>} :
        /\ msg' = Decided({d}, Actions(types, d))
        /\ known' = IF types = <<>> THEN known ELSE [known EXCEPT ![d] = "up"]
        /\ types = <<>> => pub[d] # "down" /\ msg.changes = "none"
        /\ types = <<"birth">> => pub[d] = "down" \/ msg.changes = "device"
        /\ types = <<"data">> => pub[d] # "down" /\ msg.changes = "values"
        /\ types = <<"death", "birth">> => pub[d] # "down" /\ msg.changes = "metrics"
  <2> DEFINE Why(types) ==
        /\ msg' = Decided({d}, Actions(types, d))
        /\ known' = IF types = <<>> THEN known ELSE [known EXCEPT ![d] = "up"]
  <2>1. CASE pub[d] = "down" \/ msg.changes = "device"
    <3>1. Why(<<"birth">>)
      BY <1>4, <2>1 DEF VendorDecide
    <3> QED
      BY <2>1, <3>1
  <2>2. CASE pub[d] # "down" /\ msg.changes = "metrics"
    <3>1. Why(<<"death", "birth">>)
      BY <1>4, <2>2 DEF VendorDecide
    <3> QED
      BY <2>2, <3>1
  <2>3. CASE pub[d] # "down" /\ msg.changes = "values"
    <3>1. Why(<<"data">>)
      BY <1>4, <2>3 DEF VendorDecide
    <3> QED
      BY <2>3, <3>1
  <2>4. CASE pub[d] # "down" /\ msg.changes = "none"
    <3>1. Why(<<>>)
      BY <1>4, <2>4 DEF VendorDecide
    <3> QED
      BY <2>4, <3>1
  <2> QED
    BY <1>3, <2>1, <2>2, <2>3, <2>4
<1>9. PICK types \in {<<>>, <<"birth">>, <<"data">>, <<"death", "birth">>} :
        /\ msg' = Decided({d}, Actions(types, d))
        /\ known' = IF types = <<>> THEN known ELSE [known EXCEPT ![d] = "up"]
        /\ types = <<>> => pub[d] # "down" /\ msg.changes = "none"
        /\ types = <<"birth">> => pub[d] = "down" \/ msg.changes = "device"
        /\ types = <<"data">> => pub[d] # "down" /\ msg.changes = "values"
        /\ types = <<"death", "birth">> => pub[d] # "down" /\ msg.changes = "metrics"
  BY <1>8
<1>10. msg'.acts = Actions(types, d) /\ msg'.pc = "check"
  BY <1>9 DEF Decided, NoMessage
<1>11. StatusTold(d)'
  BY <1>2, <1>6 DEF StatusTold
<1>12. CASE types = <<>>
  <2>1. \A t \in Kinds : ~Left(t, d)' /\ ~NextIs(t, d)'
    BY <1>10, <1>12, ActionsAre, Says
  <2>2. known' = known /\ msg.changes = "none" /\ pub[d] = "up"
    BY <1>6, <1>7, <1>9, <1>12
  <2>3. ValueTold(d)'
    BY <1>2, <1>6, <2>2 DEF ValueTold
  <2>4. DeathTold(d)' /\ BirthTold(d)' /\ VendorTold(d)'
    BY <1>2, <1>6, <2>2 DEF DeathTold, BirthTold, VendorTold
  <2>5. MsgRight(d)'
    BY <1>10, <2>1 DEF MsgRight, Kinds
  <2> QED
    BY <1>1, <1>11, <2>3, <2>4, <2>5, LoneDev
<1>13. CASE types # <<>>
  <2>1. known'[d] = "up"
    BY <1>7, <1>9, <1>13
  <2>2. \/ Left("birth", d)' /\ (NextIs("birth", d)' => pub[d] # "up") /\ ~NextIs("data", d)'
        \/ Left("data", d)' /\ NextIs("data", d)' /\ pub[d] = "up" /\ ~NextIs("birth", d)' /\ ~Left("death", d)'
    <3>1. CASE types = <<"birth">>
      <4>1. \A t \in Kinds : (Left(t, d)' <=> t = "birth") /\ (NextIs(t, d)' <=> t = "birth")
        BY <1>10, <3>1, ActionsAre, Says DEF Kinds
      <4> QED
        BY <1>6, <1>9, <3>1, <4>1 DEF Kinds
    <3>2. CASE types = <<"data">>
      <4>1. \A t \in Kinds : (Left(t, d)' <=> t = "data") /\ (NextIs(t, d)' <=> t = "data")
        BY <1>10, <3>2, ActionsAre, Says DEF Kinds
      <4> QED
        BY <1>6, <1>7, <1>9, <3>2, <4>1 DEF Kinds
    <3>3. CASE types = <<"death", "birth">>
      <4>1. \A t \in Kinds : (Left(t, d)' <=> t # "data") /\ (NextIs(t, d)' <=> t = "death")
        BY <1>10, <3>3, ActionsAre, Says
      <4> QED
        BY <4>1 DEF Kinds
    <3> QED
      BY <1>13, <3>1, <3>2, <3>3
  <2>3. ValueTold(d)'
    BY <2>2 DEF ValueTold, Pending
  <2>4. DeathTold(d)' /\ BirthTold(d)'
    BY <1>2, <2>1, <2>2 DEF DeathTold, BirthTold
  <2>5. VendorTold(d)'
    BY <1>2, <2>2 DEF VendorTold
  <2>6. MsgRight(d)'
    BY <1>2, <1>10, <2>1, <2>2 DEF MsgRight
  <2> QED
    BY <1>1, <1>11, <2>3, <2>4, <2>5, <2>6, LoneDev
<1> QED
  BY <1>12, <1>13

\* The message is about to be worked on: only its state changes.
LEMMA ActDev ==
  ASSUME TInv, NEW d \in Devices, DevInv(d), Alone(d), MsgThread, MsgCheck \/ MsgAct, d \in msg.on,
         ~(msg.pc = "check" /\ msg'.pc = "wait" /\ msg.acts # <<>>)
  PROVE  DevInv(d)'
<1>1. Lone(d) /\ Lone(d)' /\ ~BirthTodo(d) /\ ~BirthTodo(d)' /\ ~BirthAt(d)
  BY MsgLone
<1>2. UNCHANGED <<up, intUp, devs, known, pub, val, host>> /\ (Heard(d)' <=> Heard(d))
  <2>1. UNCHANGED <<devs, known, pub, val, host>>
    BY DEF MsgCheck, MsgAct, devVars, pubVars
  <2> QED
    BY <1>1, <2>1, MsgKeeps DEF Heard
<1>3. msg.pc \in {"check", "act"} /\ DOMAIN msg = {"pc", "on", "changes", "acts", "val"}
  BY DEF MsgCheck, MsgAct, TInv, Message
<1>4. /\ msg'.acts = msg.acts /\ msg'.pc \in {"wait", "check", "act", "send"}
      /\ msg'.pc = "send" /\ (NextIs("birth", d) \/ NextIs("data", d)) => msg'.val = val[d]
  <2>1. CASE MsgCheck
    <3>1. CASE msg.acts = <<>>
      BY <2>1, <3>1 DEF MsgCheck, MsgNext, NoMessage
    <3>2. CASE msg.acts # <<>>
      <4>1. init
        BY <1>3, <2>1, <3>2 DEF MsgCheck, NoMessage
      <4> QED
        BY <1>3, <2>1, <3>2, <4>1 DEF MsgCheck, MsgNext
    <3> QED
      BY <3>1, <3>2
  <2>2. CASE MsgAct
    <3>1. msg.pc = "act" /\ msg.acts # <<>>
      BY <2>2 DEF MsgAct, TInv, Message
    <3> DEFINE a == Head(msg.acts)
    <3>2. /\ a.type \in Kinds /\ (a.type # "death" => a.dev = d)
          /\ \A t \in Kinds : NextIs(t, d) <=> a.type = t /\ a.dev = d
      BY <3>1, HeadOf
    <3>3. CASE a.type = "birth"
      <4>1. NextIs("birth", d) /\ Left("birth", d)
        BY <3>2, <3>3, TInvApart DEF Kinds, Apart
      <4>2. known[d] # "down" /\ pub[d] # "up"
        BY <4>1 DEF DevInv, MsgRight
      <4>3. BirthDue(a.dev, FALSE)
        BY <3>2, <3>3, <4>2 DEF BirthDue
      <4>4. msg' = [msg EXCEPT !.pc = "send", !.val = val[a.dev]]
        BY <2>2, <3>3, <4>3 DEF MsgAct
      <4> QED
        BY <1>3, <3>2, <3>3, <4>4
    <3>4. CASE a.type = "data"
      <4>1. msg' = [msg EXCEPT !.pc = "send", !.val = val[a.dev]]
        BY <2>2, <3>4 DEF MsgAct
      <4> QED
        BY <1>3, <3>2, <3>4, <4>1
    <3>5. CASE a.type = "death"
      <4>1. msg' = [msg EXCEPT !.pc = "send"]
        BY <2>2, <3>5 DEF MsgAct, MsgGoto
      <4> QED
        BY <1>3, <3>2, <3>5, <4>1 DEF Kinds
    <3> QED
      BY <3>2, <3>3, <3>4, <3>5 DEF Kinds
  <2> QED
    BY <2>1, <2>2
<1>5. \A t \in Kinds : (Left(t, d)' <=> Left(t, d)) /\ (NextIs(t, d)' <=> NextIs(t, d))
  BY <1>4, ActsKept
<1>6. ~Noting(d) /\ ~Noting(d)' /\ (Pending(d)' <=> Pending(d))
  BY <1>1, <1>3, <1>4, <1>5 DEF Noting, Pending, Kinds, Lone
<1>7. StatusTold(d)' /\ ValueTold(d)'
  BY <1>2, <1>6 DEF DevInv, StatusTold, ValueTold
<1>8. DeathTold(d)' /\ BirthTold(d)' /\ VendorTold(d)'
  BY <1>1, <1>2, <1>3, <1>5, MsgKeeps DEF DevInv, DeathTold, BirthTold, VendorTold, Kinds
<1>9. MsgRight(d)'
  BY <1>2, <1>3, <1>4, <1>5 DEF DevInv, MsgRight, Kinds
<1> QED
  BY <1>1, <1>7, <1>8, <1>9, LoneDev

\* The host is told of d, or of another device of the message.
LEMMA SendDev ==
  ASSUME TInv, NEW d \in Devices, DevInv(d), Alone(d), MsgThread, MsgSend, d \in msg.on
  PROVE  DevInv(d)'
<1> DEFINE a == Head(msg.acts)
<1>1. Lone(d) /\ Lone(d)' /\ ~BirthTodo(d) /\ ~BirthTodo(d)' /\ ~BirthAt(d)
  BY MsgLone
<1>2. /\ UNCHANGED <<up, intUp, devs, known, pub, val>>
      /\ msg.pc = "send" /\ msg'.pc = "mark" /\ msg'.acts = msg.acts
      /\ msg.val \in {0, 1} /\ msg.acts # <<>>
  <2>1. DOMAIN msg = {"pc", "on", "changes", "acts", "val"} /\ msg.val \in {0, 1}
        /\ (msg.pc = "send" => msg.acts # <<>>)
    BY DEF TInv, Message
  <2>2. UNCHANGED <<devs, known, pub, val>>
    BY DEF MsgSend, devVars
  <2> QED
    BY <2>1, <2>2, MsgKeeps DEF MsgSend
<1>3. \A t \in Kinds : (Left(t, d)' <=> Left(t, d)) /\ (NextIs(t, d)' <=> NextIs(t, d))
  BY <1>2, ActsKept
<1>4. /\ a.type \in Kinds /\ a.dev \in Devices
      /\ \A t \in Kinds : NextIs(t, d) <=> a.type = t /\ a.dev = d
  BY <1>2, HeadOf DEF TInv, Known
<1>5. \A t \in Kinds : NextIs(t, d) => Left(t, d)
  BY TInvApart DEF Apart
<1>6. /\ host'.on = host.on
      /\ a.dev # d => (d \in host'.alive <=> d \in host.alive) /\ host'.val[d] = host.val[d]
      /\ a.dev = d /\ up /\ host.on =>
           /\ a.type = "birth" => d \in host'.alive /\ host'.val[d] = msg.val
           /\ a.type = "death" => d \notin host'.alive
      /\ a.dev = d /\ a.type = "data" =>
           /\ d \in host'.alive <=> d \in host.alive
           /\ up /\ host.on /\ d \in host.alive => host'.val[d] = msg.val
  <2>1. CASE a.type = "data"
    <3>1. PublishData(a.dev, msg.val)
      BY <2>1 DEF MsgSend
    <3> QED
      BY <1>2, <1>4, <2>1, <3>1, ToldData
  <2>2. CASE a.type = "birth"
    <3>1. PublishDevice(a.dev, a.type = "birth", msg.val)
      BY <2>2 DEF MsgSend
    <3>2. PublishDevice(a.dev, TRUE, msg.val)
      BY <2>2, <3>1 DEF PublishDevice
    <3> QED
      BY <1>2, <1>4, <2>2, <3>2, ToldBirth
  <2>3. CASE a.type = "death"
    <3>1. PublishDevice(a.dev, a.type = "birth", msg.val)
      BY <2>3 DEF MsgSend
    <3>2. PublishDevice(a.dev, FALSE, msg.val)
      BY <2>3, <3>1 DEF PublishDevice
    <3> QED
      BY <1>2, <1>4, <2>3, <3>2, ToldDeath
  <2> QED
    BY <1>4, <2>1, <2>2, <2>3 DEF Kinds
<1>7. (Heard(d)' <=> Heard(d)) /\ (Heard(d) => up /\ host.on)
  BY <1>1, <1>2, <1>6 DEF Heard
<1>8. ~Noting(d) /\ (Pending(d)' <=> Pending(d)) /\ (~Pending(d) => a.dev # d)
      /\ (Noting(d)' <=> a.dev = d /\ a.type # "data")
  BY <1>1, <1>2, <1>3, <1>4, <1>5 DEF Noting, Pending, Kinds, Lone
<1>9. StatusTold(d)' /\ ValueTold(d)'
  BY <1>2, <1>4, <1>6, <1>7, <1>8 DEF DevInv, StatusTold, ValueTold
<1>10. DeathTold(d)' /\ BirthTold(d)' /\ VendorTold(d)'
  BY <1>1, <1>2, <1>3, MsgKeeps DEF DevInv, DeathTold, BirthTold, VendorTold, Kinds
<1>11. MsgRight(d)'
  <2>1. NextIs("birth", d) \/ NextIs("data", d) => msg.val = val[d]
    BY <1>2 DEF DevInv, MsgRight
  <2>2. Heard(d)' =>
          /\ NextIs("birth", d)' => d \in host'.alive /\ host'.val[d] = val'[d]
          /\ NextIs("data", d)' /\ d \in host'.alive => host'.val[d] = val'[d]
          /\ NextIs("death", d)' => d \notin host'.alive
    BY <1>2, <1>3, <1>4, <1>6, <1>7, <2>1 DEF Kinds
  <2> QED
    BY <1>2, <1>3, <2>2 DEF DevInv, MsgRight, Kinds
<1> QED
  BY <1>1, <1>9, <1>10, <1>11, LoneDev

\* What the host was told is noted.
LEMMA MarkDev ==
  ASSUME TInv, TInv', NEW d \in Devices, DevInv(d), Alone(d), MsgThread, MsgMark, d \in msg.on
  PROVE  DevInv(d)'
<1> DEFINE a == Head(msg.acts)
<1>1. Lone(d) /\ Lone(d)' /\ ~BirthTodo(d) /\ ~BirthTodo(d)' /\ ~BirthAt(d)
  BY MsgLone
<1>2. /\ UNCHANGED <<up, intUp, devs, known, val, host>> /\ (Heard(d)' <=> Heard(d))
      /\ pub' = [pub EXCEPT ![a.dev] = IF a.type = "death" THEN "down" ELSE "up"]
      /\ pub \in [Devices -> Status]
      /\ msg.pc = "mark" /\ msg.acts # <<>>
  <2>1. UNCHANGED <<devs, known, val, host>>
    BY DEF MsgMark, SetPublished, pubVars
  <2> QED
    BY <1>1, <2>1, MsgKeeps DEF Heard, MsgMark, SetPublished, TInv, Message, Known
<1>3. msg'.acts = Tail(msg.acts) /\ msg'.pc \in {"wait", "act"}
  <2>1. DOMAIN msg = {"pc", "on", "changes", "acts", "val"}
    BY DEF TInv, Message
  <2>2. msg' = MsgNext(Tail(msg.acts))
    BY DEF MsgMark
  <2> QED
    BY <2>1, <2>2 DEF MsgNext, NoMessage
<1>4. /\ a.type \in Kinds /\ a.dev \in Devices
      /\ a.type # "death" => a.dev = d /\ Tail(msg.acts) = <<>>
      /\ a.type = "death" => ~Left("data", d)
      /\ a.dev # d => a.type = "death" /\ ~Left("birth", d)
      /\ \A t \in Kinds : NextIs(t, d) <=> a.type = t /\ a.dev = d
      /\ DeathMsg \/ DeviceMsg
  BY <1>2, HeadOf DEF TInv, Known
<1>5. \A t \in Kinds : /\ Left(t, d)' => Left(t, d)
                       /\ Left(t, d) => Left(t, d)' \/ NextIs(t, d)
                       /\ NextIs(t, d) => Left(t, d)
                       /\ NextIs(t, d)' => Left(t, d)'
  BY <1>2, <1>3, <1>4, TailSays, TInvApart, TInvApartNext DEF Apart
<1>6. ~Noting(d)' /\ (Noting(d) <=> NextIs("birth", d) \/ NextIs("death", d))
  BY <1>1, <1>2, <1>3 DEF Noting, Lone
<1>7. DeathTold(d) /\ MsgRight(d) /\ StatusTold(d) /\ ValueTold(d) /\ BirthTold(d) /\ VendorTold(d)
  BY DEF DevInv
<1>8. BirthOwed(d) \/ EstOwed(d) => BirthOwed(d)' \/ EstOwed(d)'
  BY MsgKeeps
<1>9. CASE a.dev # d
  <2>1. pub'[d] = pub[d]
    BY <1>2, <1>9
  <2>2. /\ \A t \in Kinds : (Left(t, d)' <=> Left(t, d)) /\ ~NextIs(t, d)
        /\ ~Left("birth", d) /\ ~Left("data", d) /\ (Pending(d)' <=> Pending(d)) /\ ~Noting(d)
    BY <1>2, <1>3, <1>4, <1>5, <1>6, <1>9 DEF Kinds, Pending
  <2>3. StatusTold(d)' /\ ValueTold(d)'
    BY <1>2, <1>7, <2>1, <2>2 DEF StatusTold, ValueTold
  <2>4. DeathTold(d)' /\ BirthTold(d)' /\ VendorTold(d)'
    BY <1>1, <1>2, <1>7, <1>8, <2>1, <2>2 DEF DeathTold, BirthTold, VendorTold, Kinds
  <2>5. MsgRight(d)'
    BY <1>2, <1>3, <1>5, <1>7, <2>2 DEF MsgRight, Kinds
  <2> QED
    BY <1>1, <2>3, <2>4, <2>5, LoneDev
<1>10. CASE a.dev = d /\ a.type # "death"
  <2>1. pub'[d] = "up" /\ (a.type = "birth" \/ a.type = "data")
    BY <1>2, <1>4, <1>10 DEF Kinds
  <2>2. \A t \in Kinds : ~Left(t, d)' /\ ~NextIs(t, d)'
    BY <1>3, <1>4, <1>10, Says
  <2>3. /\ known[d] # "down"
        /\ Heard(d) /\ d \in host.alive => host.val[d] = val[d]
        /\ Heard(d) => d \in host.alive
    <3>1. CASE a.type = "birth"
      <4>1. NextIs("birth", d) /\ Left("birth", d)
        BY <1>4, <1>5, <1>10, <3>1 DEF Kinds
      <4> QED
        BY <1>2, <1>7, <4>1 DEF MsgRight
    <3>2. CASE a.type = "data"
      <4>1. NextIs("data", d) /\ Left("data", d) /\ ~Noting(d)
        BY <1>4, <1>5, <1>6, <1>10, <3>2 DEF Kinds
      <4> QED
        BY <1>2, <1>7, <4>1 DEF MsgRight, StatusTold
    <3> QED
      BY <2>1, <3>1, <3>2
  <2>4. StatusTold(d)' /\ ValueTold(d)'
    BY <1>2, <2>1, <2>3 DEF StatusTold, ValueTold
  <2>5. DeathTold(d)' /\ BirthTold(d)' /\ VendorTold(d)'
    BY <1>2, <2>1, <2>3 DEF DeathTold, BirthTold, VendorTold
  <2>6. MsgRight(d)'
    BY <1>3, <2>2 DEF MsgRight, Kinds
  <2> QED
    BY <1>1, <2>4, <2>5, <2>6, LoneDev
<1>11. CASE a.dev = d /\ a.type = "death"
  <2>1. pub'[d] = "down" /\ NextIs("death", d) /\ Left("death", d) /\ ~NextIs("birth", d)
        /\ ~Left("data", d)' /\ ~NextIs("data", d)'
    BY <1>2, <1>4, <1>5, <1>11 DEF Kinds
  <2>2. /\ Left("birth", d) \/ known[d] = "down"
        /\ Heard(d) => d \notin host.alive
        /\ Left("birth", d)' <=> Left("birth", d)
    BY <1>2, <1>5, <1>7, <2>1 DEF MsgRight, Kinds
  <2>3. StatusTold(d)' /\ ValueTold(d)'
    BY <1>2, <2>1, <2>2 DEF StatusTold, ValueTold
  <2>4. DeathTold(d)' /\ BirthTold(d)' /\ VendorTold(d)'
    BY <1>2, <2>1, <2>2 DEF DeathTold, BirthTold, VendorTold
  <2>5. MsgRight(d)'
    BY <1>2, <1>3, <1>5, <1>7, <2>1, <2>2 DEF MsgRight, Kinds
  <2> QED
    BY <1>1, <2>3, <2>4, <2>5, LoneDev
<1> QED
  BY <1>9, <1>10, <1>11

\* Every step of the thread.
LEMMA MsgDev ==
  ASSUME TInv, TInv', NEW d \in Devices, DevInv(d), Alone(d), Alone(d)', MsgThread,
         ~(msg.pc = "check" /\ msg'.pc = "wait" /\ msg.acts # <<>> /\ d \in msg.on)
  PROVE  DevInv(d)'
<1>1. CASE d \notin msg.on /\ d \notin msg'.on
  BY <1>1, MsgAside
<1>2. CASE d \notin msg.on /\ d \in msg'.on
  <2>1. MsgArrives
    <3>1. DOMAIN msg = {"pc", "on", "changes", "acts", "val"}
      BY DEF TInv, Message
    <3>2. ~VendorDecide
      <4>1. VendorDecide => msg'.on \subseteq msg.on
        <5> SUFFICES ASSUME VendorDecide PROVE msg'.on \subseteq msg.on
          OBVIOUS
        <5>1. PICK x : msg.on = {x}
          BY DEF VendorDecide, TInv, Message, NoMsg, OpenMsg, DeathMsg, DeviceMsg, TypesMsg, Working
        <5>2. (CHOOSE y \in msg.on : TRUE) = x
          BY <5>1
        <5> QED
          BY <5>1, <5>2 DEF VendorDecide, Decided, NoMessage
      <4> QED
        BY <1>2, <4>1
    <3>3. \A acts : MsgNext(acts).on \in {{}, msg.on}
      BY <3>1 DEF MsgNext, NoMessage
    <3>5. NoMessage.on = {}
      BY DEF NoMessage
    <3>6. ~MsgCheck
      BY <1>2, <3>3, <3>5 DEF MsgCheck
    <3>7. ~MsgAct
      <4>1. MsgAct => \/ msg' = [msg EXCEPT !.pc = "send", !.val = val[Head(msg.acts).dev]]
                      \/ msg' = [msg EXCEPT !.pc = "clear"] \/ msg' = [msg EXCEPT !.pc = "send"]
                      \/ msg' = MsgNext(Tail(msg.acts))
        BY Zenon DEF MsgAct, MsgGoto
      <4>2. MsgAct => msg'.on \in {{}, msg.on}
        BY <3>1, <3>3, <4>1
      <4> QED
        BY <1>2, <4>2
    <3>8. ~MsgSend /\ ~MsgMark /\ ~MsgClear /\ ~MsgPost
      <4>1. MsgSend \/ MsgClear => msg'.on = msg.on
        BY <3>1 DEF MsgSend, MsgClear, MsgGoto
      <4>2. MsgMark \/ MsgPost => msg'.on \in {{}, msg.on}
        BY <3>3 DEF MsgMark, MsgPost
      <4> QED
        BY <1>2, <4>1, <4>2
    <3> QED
      BY <3>2, <3>6, <3>7, <3>8 DEF MsgThread
  <2> QED
    BY <1>2, <2>1, ArriveDev
<1>3. CASE d \in msg.on
  <2>1. ~MsgArrives
    <3>1. msg.pc # "wait"
      BY <1>3 DEF TInv, Message, NoMsg, OpenMsg, DeathMsg, DeviceMsg, TypesMsg, Working
    <3> QED
      BY <3>1 DEF MsgArrives, RealUpdate, VendorBirth, VendorData, VendorDeath, TemplateDef, MsgTake
  <2>2. ~MsgClear /\ ~MsgPost
    <3>1. ~TypesMsg
      BY <1>3, NodeAssumption DEF TypesMsg
    <3> QED
      BY <3>1, MsgKinds DEF MsgClear, MsgPost
  <2> QED
    BY <1>3, <2>1, <2>2, DecideDev, ActDev, SendDev, MarkDev DEF MsgThread
<1> QED
  BY <1>1, <1>2, <1>3

-----------------------------------------------------------------------------
(* Every step, and the theorems *)

\* A device that is not crossed.
LEMMA NotCrossed ==
  ASSUME HInv, NEW d \in Devices, d \notin crossed
  PROVE  Alone(d) /\ DevInv(d)
<1>1. d \in Subjects /\ d \notin Overlap /\ DevInv(d)
  BY DEF HInv, Subjects
<1> QED
  BY <1>1 DEF Overlap, Alone, BirthDeals, MsgDeals

\* Nothing happens.
LEMMA StutterDev ==
  ASSUME NEW d \in Devices, DevInv(d), UNCHANGED vars
  PROVE  DevInv(d)'
<1> USE DEF vars, extVars, nodeVars, intVars, devVars, pubVars, threads
<1>1. /\ MsgSame(d) /\ (EstAt(d)' <=> EstAt(d)) /\ (LostAt(d)' <=> LostAt(d))
      /\ (EstOwed(d)' <=> EstOwed(d)) /\ (BirthTodo(d)' <=> BirthTodo(d))
      /\ BirthAt(d)' <=> BirthAt(d)
  BY MsgKept, ThreadsKept
<1>2. /\ BirthOwed(d)' <=> BirthOwed(d)
      /\ Noting(d)' <=> Noting(d)
      /\ Heard(d)' <=> Heard(d)
      /\ Fixed(d)
  BY <1>1 DEF BirthOwed, Comes, Noting, Heard, Fixed, MsgSame
<1>3. EstRight(d)' /\ LostRight(d)'
  BY <1>1, <1>2 DEF DevInv, EstRight, LostRight
<1> QED
  BY <1>1, <1>2, <1>3, FixedDev DEF DevInv

\* The devices start with nothing told and a birth process owed.
LEMMA InitHInv == Init => HInv
<1> SUFFICES ASSUME Init PROVE HInv
  OBVIOUS
<1> USE DEF Init, StartUp
<1>1. Overlap \subseteq crossed
  BY DEF Overlap, BirthDeals, EstDeals, LostDeals, MsgDeals, NoBirth, Idle, NoMessage
<1>2. ASSUME NEW d \in Devices
      PROVE  DevInv(d)
  <2>1. /\ birth.pc = "wait" /\ est.pc = "wait" /\ lost.pc = "wait" /\ msg.pc = "wait"
        /\ msg.acts = <<>> /\ msg.on = {} /\ ~up /\ pub[d] = "none" /\ known[d] = "none"
        /\ devs = Devices \ Vendor
    BY <1>2 DEF NoBirth, Idle, NoMessage
  <2>2. \A t \in Kinds : ~Left(t, d) /\ ~NextIs(t, d)
    BY <2>1 DEF Left, NextIs
  <2>3. ~Heard(d) /\ BirthOwed(d) /\ ~BirthAt(d) /\ ~BirthTodo(d) /\ ~EstAt(d) /\ ~LostAt(d)
    BY <2>1 DEF Heard, BirthOwed, BirthAt, BirthTodo, EstAt, LostAt
  <2>4. StatusTold(d) /\ ValueTold(d) /\ DeathTold(d) /\ BirthTold(d) /\ VendorTold(d)
    BY <2>1, <2>3 DEF StatusTold, ValueTold, DeathTold, BirthTold, VendorTold
  <2>5. BirthRight(d) /\ EstRight(d) /\ LostRight(d) /\ MsgRight(d)
    BY <2>1, <2>2, <2>3 DEF BirthRight, EstRight, LostRight, MsgRight, Kinds
  <2> QED
    BY <2>4, <2>5 DEF DevInv
<1> QED
  BY <1>1, <1>2 DEF HInv

\* Every step keeps what is owed for each device that is not crossed.
LEMMA NextHInv == IInv /\ TInv /\ HInv /\ TInv' /\ [Next]_vars => HInv'
<1> SUFFICES ASSUME IInv, TInv, HInv, TInv', [Next]_vars PROVE HInv'
  OBVIOUS
<1>1. CASE UNCHANGED vars
  <2>1. (Overlap \subseteq crossed)'
    BY <1>1 DEF HInv, vars, threads, Overlap, BirthDeals, EstDeals, LostDeals, MsgDeals
  <2>2. crossed' = crossed
    BY <1>1 DEF vars
  <2>3. \A d \in Devices \ crossed : DevInv(d)'
    BY <1>1, StutterDev DEF HInv
  <2> QED
    BY <2>1, <2>2, <2>3 DEF HInv
<1>2. CASE Next
  <2>1. (Overlap \subseteq crossed)'
    BY <1>2 DEF Next, Observe
  <2>2. ASSUME NEW d \in Devices, d \notin crossed'
        PROVE  DevInv(d)'
    <3>1. /\ Alone(d)'
          /\ \/ /\ d \notin crossed /\ Alone(d) /\ DevInv(d)
                /\ ~(msg.pc = "check" /\ msg'.pc = "wait" /\ msg.acts # <<>> /\ d \in msg.on)
             \/ birth.pc = "prep" /\ birth'.pc = "send" /\ d = First(birth.todo)
      BY <1>2, <2>2, Uncrossed DEF Next
    <3>2. CASE birth.pc = "prep" /\ birth'.pc = "send" /\ d = First(birth.todo)
      <4>1. ~UNCHANGED birth
        BY <3>2
      <4>2. UNCHANGED birth \/ BirthThread
        <5>1. LinkUp \/ LinkFails \/ LinkLost \/ Connected \/ Disconnected \/ IntLinkStep => UNCHANGED birth
          BY DEF LinkUp, LinkFails, LinkLost, Connected, Disconnected, IntLinkStep, threads
        <5>2. LostThread => UNCHANGED birth
          BY DEF LostThread, LostWait, LostLink, LostInit, LostSend, LostMark, LostOnly
        <5>3. EstThread => UNCHANGED birth
          BY DEF EstThread, EstWait, EstInit, EstPrep, EstSend, EstMark, EstOnly
        <5>4. ExtThread => UNCHANGED birth
          BY DEF ExtThread, Rebirth, ExtClear, ExtPost, ExtOnly
        <5>5. MsgThread => UNCHANGED birth
          BY MsgFrame
        <5> QED
          BY <1>2, <5>1, <5>2, <5>3, <5>4, <5>5 DEF Next
      <4> QED
        BY <3>1, <3>2, <4>1, <4>2, BirthNew
    <3>3. CASE /\ d \notin crossed /\ Alone(d) /\ DevInv(d)
               /\ ~(msg.pc = "check" /\ msg'.pc = "wait" /\ msg.acts # <<>> /\ d \in msg.on)
      <4>1. CASE LinkUp \/ LinkFails \/ LinkLost \/ Connected \/ Disconnected
        BY <3>3, <4>1, LinkDev
      <4>2. CASE IntLinkStep
        BY <3>3, <4>2, IntDev
      <4>3. CASE BirthThread
        BY <3>1, <3>3, <4>3, BirthDev
      <4>4. CASE LostThread
        BY <3>3, <4>4, LostDev
      <4>5. CASE EstThread
        BY <3>3, <4>5, EstDev
      <4>6. CASE MsgThread
        BY <3>1, <3>3, <4>6, MsgDev
      <4>7. CASE ExtThread
        BY <3>3, <4>7, ExtDev
      <4> QED
        BY <1>2, <4>1, <4>2, <4>3, <4>4, <4>5, <4>6, <4>7 DEF Next
    <3> QED
      BY <3>1, <3>2, <3>3
  <2> QED
    BY <2>1, <2>2 DEF HInv
<1> QED
  BY <1>1, <1>2

\* The whole inductive invariant.
LEMMA Devs == Spec => [](IInv /\ TInv /\ HInv)
<1> QED
  BY InitIInv, NextIInv, InitTInv, NextTInv, InitHInv, NextHInv, PTL DEF Spec

(* The host never has a reason to ask for a rebirth: the five threads send it   *)
(* its numbers without a gap, and DDATA only of a device whose DBIRTH it has    *)
(* had since its last NBIRTH -- unless two of them dealt with the device at     *)
(* once (crossed), for which the code has no lock.                              *)
THEOREM HostCanFollowCorrect == Spec => []HostCanFollow
<1>1. IInv /\ TInv /\ HInv => HostCanFollow
  <2> SUFFICES ASSUME IInv, TInv, HInv PROVE HostCanFollow
    OBVIOUS
  <2>1. InSequence
    BY DEF IInv, Numbered, InSequence
  <2>2. ASSUME msg.pc = "send", up, host.on, Head(msg.acts).type = "data",
               Head(msg.acts).dev \notin crossed
        PROVE  Head(msg.acts).dev \in host.alive
    <3> DEFINE d == Head(msg.acts).dev
    <3>1. msg.acts # <<>> /\ (DeathMsg \/ DeviceMsg)
      BY <2>2, MsgKinds
    <3>2. d \in Devices /\ d \in msg.on
      BY <3>1, Acting DEF TInv, Known
    <3>3. NextIs("data", d)
      BY <2>2, <3>1, <3>2, HeadOf DEF Kinds
    <3>4. Alone(d) /\ DevInv(d)
      BY <2>2, <3>2, NotCrossed
    <3>5. birth.pc = "wait" /\ ~EstAt(d) /\ ~LostAt(d)
      BY <3>2, <3>4 DEF Alone, EstDeals, LostDeals, EstAt, LostAt
    <3>6. Heard(d) /\ ~Noting(d)
      BY <2>2, <3>5 DEF Heard, BirthTodo, Noting
    <3>7. pub[d] = "up"
      BY <3>3, <3>4 DEF DevInv, MsgRight
    <3> QED
      BY <3>4, <3>6, <3>7 DEF DevInv, StatusTold
  <2>3. DataAfterBirth
    BY <2>2 DEF DataAfterBirth
  <2> QED
    BY <2>1, <2>3 DEF HostCanFollow
<1> QED
  BY <1>1, Devs, PTL

(* Once nothing is left to do, host and program agree on every device that is   *)
(* not crossed: what the program noted as published is what the host was told,  *)
(* the values are the last ones, no device is alive that is known to be down,   *)
(* and none is missing while the internal broker can be reached.                *)
THEOREM HostAgreesCorrect == Spec => []HostAgrees
<1>1. IInv /\ TInv /\ HInv => HostAgrees
  <2> SUFFICES ASSUME IInv, TInv, HInv PROVE HostAgrees
    OBVIOUS
  <2> SUFFICES ASSUME Online, NEW d \in Devices, d \notin crossed
               PROVE  /\ pub[d] = "up" <=> d \in host.alive
                      /\ d \in devs =>
                           /\ d \in host.alive => known[d] # "down" /\ host.val[d] = val[d]
                           /\ intUp /\ known[d] # "down" => d \in host.alive
    <3>1. devs \subseteq Devices
      BY DEF TInv, Known
    <3> QED
      BY <3>1 DEF HostAgrees, PublishedIsTold, HostMatchesDevices
  <2>1. /\ callbacks = <<>> /\ semBirth = 0 /\ estOwed = 0 /\ semEst = 0 /\ ext = "wait" /\ up
        /\ birth.pc = "wait" /\ lost.pc = "wait" /\ est.pc = "wait" /\ msg.pc = "wait"
    BY DEF Online, Settled
  <2>2. host.on
    BY <2>1 DEF IInv, BInv, Born, Comes
  <2>3. msg.acts = <<>>
    BY <2>1 DEF TInv, Message, NoMsg, OpenMsg, DeathMsg, DeviceMsg, TypesMsg, Working
  <2>4. DevInv(d)
    BY NotCrossed
  <2>5. ~Left("birth", d) /\ ~Left("data", d) /\ ~Left("death", d)
    BY <2>3 DEF Left
  <2>6. /\ Heard(d) /\ ~Noting(d) /\ ~Pending(d)
        /\ ~BirthOwed(d) /\ ~EstOwed(d)
    BY <2>1, <2>2, <2>5 DEF Heard, BirthTodo, Noting, Pending, BirthOwed, EstOwed, Comes
  <2>7. pub[d] = "up" <=> d \in host.alive
    BY <2>4, <2>6 DEF DevInv, StatusTold
  <2>8. d \in host.alive => known[d] # "down" /\ host.val[d] = val[d]
    BY <2>4, <2>5, <2>6, <2>7 DEF DevInv, ValueTold, DeathTold
  <2>9. d \in devs /\ intUp /\ known[d] # "down" => d \in host.alive
    BY <2>1, <2>4, <2>5, <2>6, <2>7 DEF DevInv, BirthTold
  <2> QED
    BY <2>7, <2>8, <2>9
<1> QED
  BY <1>1, Devs, PTL
=============================================================================
