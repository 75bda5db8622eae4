---------------------------- MODULE IntMqttMonitor ----------------------------
(***************************************************************************)
(* The monitor of the connection to the internal MQTT broker               *)
(* (sparkplug-bridge, InternalMQTTSubscriber.cpp: CIntMqttHandler).  The   *)
(* callbacks of the MQTT library, which are external and run one after     *)
(* the other on a thread of its own, hand over to two threads: one waits   *)
(* RECONN_TIMEOUT_SEC for a lost connection to come back, the other reacts *)
(* to connections.                                                         *)
(*                                                                         *)
(* The library reconnects by itself.  Its connection may change again      *)
(* before a callback or a thread has dealt with the last change.           *)
(***************************************************************************)
EXTENDS Naturals, Sequences, FiniteSets

CONSTANTS
  MaxLosses,   \* bound: connections that are lost
  MaxFails     \* bound: attempts to connect that fail

ASSUME MonitorAssumption == MaxLosses \in Nat /\ MaxFails \in Nat

VARIABLES
  up,           \* m_MQTTClient.isConnected()
  callbacks,    \* callbacks the library has yet to make, in order
  losses, fails,
  lastStatus,   \* m_enLastConStatus
  semConnSuccess, semConnLost, semToTimeOut, \* semToTimeOut: m_semConnSuccessToTimeOut
  timeoutState, \* m_bIsInTimeoutState
  monPc, rc,    \* handleConnMonitoringThread; rc: how its timed wait ended
  sucPc,        \* handleConnSuccessThread
  firstConnect, \* m_bIsFirstConnectDone: START_BIRTH_PROCESS is still to be sent
  semLost, semEst, \* the semaphores of CSCADAHandler, here never waited for
  \* history
  reported,     \* a loss was signalled since the connection was last lost
  overdue       \* when it was last lost, the wake-up of an earlier connection was
                \* left over or still to come

linkVars   == <<up, callbacks, losses, fails>>
statusVars == <<lastStatus, semConnSuccess, semConnLost>>
monVars    == <<monPc, rc>>
sucVars    == <<sucPc, firstConnect>>
outVars    == <<semLost, semEst>>
vars == <<linkVars, statusVars, semToTimeOut, timeoutState, monVars, sucVars, outVars,
          reported, overdue>>

Callback == {"connected", "lost", "failed"}
Posts    == 0..(MaxLosses + 1)  \* one for every connection, or for every loss and the first failure

\* The variables keep their types; a semaphore is posted at most once for every
\* connection or loss, however many attempts to reconnect fail.
TypeOK ==
  /\ up \in BOOLEAN /\ callbacks \in Seq(Callback)
  /\ losses \in 0..MaxLosses /\ fails \in 0..MaxFails
  /\ lastStatus \in {"none", "up", "down"}
  /\ semConnSuccess \in Posts /\ semConnLost \in Posts /\ semToTimeOut \in Posts
  /\ timeoutState \in BOOLEAN
  /\ monPc \in {"wait", "arm", "timed", "disarm", "check", "signal"}
  /\ rc \in {"none", "posted", "timeout"}
  /\ sucPc \in {"wait", "check", "state", "post", "signal"}
  /\ firstConnect \in BOOLEAN
  /\ semLost \in Posts /\ semEst \in Posts
  /\ reported \in BOOLEAN /\ overdue \in BOOLEAN

Init ==
  /\ up = FALSE /\ callbacks = <<>> /\ losses = 0 /\ fails = 0
  /\ lastStatus = "none" /\ semConnSuccess = 0 /\ semConnLost = 0
  /\ semToTimeOut = 0 /\ timeoutState = FALSE
  /\ monPc = "wait" /\ rc = "none"
  /\ sucPc = "wait" /\ firstConnect = TRUE
  /\ semLost = 0 /\ semEst = 0
  /\ reported = FALSE /\ overdue = FALSE

-----------------------------------------------------------------------------
(* The MQTT library *)

LinkUp ==
  /\ ~up
  /\ up' = TRUE
  /\ callbacks' = Append(callbacks, "connected")
  /\ UNCHANGED <<losses, fails, statusVars, semToTimeOut, timeoutState, monVars, sucVars, outVars,
                 reported, overdue>>

LinkLost ==
  /\ up /\ losses < MaxLosses
  /\ up' = FALSE
  /\ losses' = losses + 1
  /\ callbacks' = Append(callbacks, "lost")
  /\ reported' = FALSE
  /\ overdue' = (semToTimeOut > 0 \/ sucPc \in {"state", "post"})
  /\ UNCHANGED <<fails, statusVars, semToTimeOut, timeoutState, monVars, sucVars, outVars>>

LinkFails ==
  /\ ~up /\ fails < MaxFails
  /\ fails' = fails + 1
  /\ callbacks' = Append(callbacks, "failed")
  /\ UNCHANGED <<up, losses, statusVars, semToTimeOut, timeoutState, monVars, sucVars, outVars,
                 reported, overdue>>

-----------------------------------------------------------------------------
(* Callbacks.  connected posts the semaphore and sets the status; nothing  *)
(* but these callbacks reads the status, so that each is one step.         *)

CallbackDone ==
  /\ callbacks' = Tail(callbacks)
  /\ UNCHANGED <<up, losses, fails, semToTimeOut, timeoutState, monVars, sucVars, outVars,
                 reported, overdue>>

\* Fault: the status stays that of the loss.
ConnectedStatusKept ==
  /\ callbacks # <<>> /\ Head(callbacks) = "connected"
  /\ semConnSuccess' = semConnSuccess + 1
  /\ UNCHANGED <<lastStatus, semConnLost>>
  /\ CallbackDone

Connected ==
  /\ callbacks # <<>> /\ Head(callbacks) = "connected"
  /\ semConnSuccess' = semConnSuccess + 1
  /\ lastStatus' = "up"
  /\ UNCHANGED semConnLost
  /\ CallbackDone

\* Fault: every failed attempt to reconnect counts as a loss.
DisconnectedAlways ==
  /\ callbacks # <<>> /\ Head(callbacks) \in {"lost", "failed"}
  /\ semConnLost' = semConnLost + 1
  /\ lastStatus' = "down"
  /\ UNCHANGED semConnSuccess
  /\ CallbackDone

Disconnected ==  \* called from connection_lost and from on_failure(CONNECT)
  /\ callbacks # <<>> /\ Head(callbacks) \in {"lost", "failed"}
  /\ semConnLost' = IF lastStatus # "down" THEN semConnLost + 1 ELSE semConnLost
  /\ lastStatus' = "down"
  /\ UNCHANGED semConnSuccess
  /\ CallbackDone

-----------------------------------------------------------------------------
(* handleConnMonitoringThread *)

MonOnly == UNCHANGED <<linkVars, lastStatus, semConnSuccess, sucVars, semEst, overdue>>

MonWait ==
  /\ monPc = "wait" /\ semConnLost > 0
  /\ semConnLost' = semConnLost - 1
  /\ monPc' = "arm"
  /\ MonOnly /\ UNCHANGED <<semToTimeOut, timeoutState, rc, semLost, reported>>

MonArm ==
  /\ monPc = "arm"
  /\ timeoutState' = TRUE
  /\ monPc' = "timed"
  /\ MonOnly /\ UNCHANGED <<semConnLost, semToTimeOut, rc, semLost, reported>>

MonPosted ==
  /\ monPc = "timed" /\ semToTimeOut > 0
  /\ semToTimeOut' = semToTimeOut - 1
  /\ rc' = "posted"
  /\ monPc' = "disarm"
  /\ MonOnly /\ UNCHANGED <<semConnLost, timeoutState, semLost, reported>>

MonTimeout ==
  /\ monPc = "timed" /\ semToTimeOut = 0
  /\ rc' = "timeout"
  /\ monPc' = "disarm"
  /\ MonOnly /\ UNCHANGED <<semConnLost, semToTimeOut, timeoutState, semLost, reported>>

MonDisarm ==
  /\ monPc = "disarm"
  /\ timeoutState' = FALSE
  /\ monPc' = "check"
  /\ MonOnly /\ UNCHANGED <<semConnLost, semToTimeOut, rc, semLost, reported>>

MonCheck ==
  /\ monPc = "check"
  /\ monPc' = IF ~up /\ rc = "timeout" THEN "signal" ELSE "wait"
  /\ MonOnly /\ UNCHANGED <<semConnLost, semToTimeOut, timeoutState, rc, semLost, reported>>

MonSignal ==
  /\ monPc = "signal"
  /\ semLost' = semLost + 1
  /\ reported' = TRUE
  /\ monPc' = "wait"
  /\ MonOnly /\ UNCHANGED <<semConnLost, semToTimeOut, timeoutState, rc>>

MonThread ==
  \/ MonWait \/ MonArm \/ MonPosted \/ MonTimeout \/ MonDisarm \/ MonCheck \/ MonSignal

-----------------------------------------------------------------------------
(* handleConnSuccessThread *)

SucOnly == UNCHANGED <<linkVars, lastStatus, semConnLost, timeoutState, monVars, semLost,
                     reported, overdue>>

SucWait ==
  /\ sucPc = "wait" /\ semConnSuccess > 0
  /\ semConnSuccess' = semConnSuccess - 1
  /\ sucPc' = "check"
  /\ SucOnly /\ UNCHANGED <<firstConnect, semToTimeOut, semEst>>

SucCheck ==    \* subscribes, if the client is still connected
  /\ sucPc = "check"
  /\ sucPc' = IF up THEN "state" ELSE "signal"
  /\ SucOnly /\ UNCHANGED <<semConnSuccess, firstConnect, semToTimeOut, semEst>>

SucState ==
  /\ sucPc = "state"
  /\ sucPc' = IF timeoutState THEN "post" ELSE "signal"
  /\ SucOnly /\ UNCHANGED <<semConnSuccess, firstConnect, semToTimeOut, semEst>>

SucPost ==
  /\ sucPc = "post"
  /\ semToTimeOut' = semToTimeOut + 1
  /\ sucPc' = "signal"
  /\ SucOnly /\ UNCHANGED <<semConnSuccess, firstConnect, semEst>>

\* Fault: the connection is not signalled if it is lost again.
SucSignalIfUp ==
  /\ sucPc = "signal"
  /\ semEst' = IF up THEN semEst + 1 ELSE semEst
  /\ firstConnect' = FALSE
  /\ sucPc' = "wait"
  /\ SucOnly /\ UNCHANGED <<semConnSuccess, semToTimeOut>>

\* Signals the connection and, the first time, publishes START_BIRTH_PROCESS,
\* whether or not there is a connection.
SucSignal ==
  /\ sucPc = "signal"
  /\ semEst' = semEst + 1
  /\ firstConnect' = FALSE
  /\ sucPc' = "wait"
  /\ SucOnly /\ UNCHANGED <<semConnSuccess, semToTimeOut>>

SucThread == SucWait \/ SucCheck \/ SucState \/ SucPost \/ SucSignal

-----------------------------------------------------------------------------
\* The connection is up for good and everything is dealt with.
Rest ==
  /\ up /\ losses = MaxLosses /\ callbacks = <<>>
  /\ monPc = "wait" /\ semConnLost = 0
  /\ sucPc = "wait" /\ semConnSuccess = 0
  /\ UNCHANGED vars

Next ==
  \/ LinkUp \/ LinkLost \/ LinkFails
  \/ Connected \/ Disconnected
  \/ MonThread \/ SucThread
  \/ Rest

Spec == Init /\ [][Next]_vars

\* The library makes its callbacks, and the threads block on nothing but their
\* semaphores; a timed wait ends at the latest with its time-out.  Nothing is
\* assumed of the connection.
FairSpec == /\ Spec
            /\ WF_vars(Connected \/ Disconnected)
            /\ WF_vars(MonThread) /\ WF_vars(SucThread)

-----------------------------------------------------------------------------
Occurs(s, c) == Cardinality({i \in DOMAIN s : s[i] = c})
Count(c) == Occurs(callbacks, c)
One(b) == IF b THEN 1 ELSE 0

Link == INSTANCE IntLink WITH
  fresh    <- lastStatus = "none" /\ callbacks = <<>>,
  lossOwed <- semConnLost + Count("lost")
                + One(lastStatus = "none" /\ callbacks # <<>> /\ Head(callbacks) = "failed")
                + One(monPc # "wait"),
  estOwed  <- Count("connected") + semConnSuccess + One(sucPc # "wait")

\* Every connection is signalled once, and no loss more than once: a failed
\* attempt to reconnect is not taken for another loss (the status test in
\* disconnected), and no round of the monitor serves two losses.
LinkSpec == Link!Spec

\* A loss that lasts is signalled to the SCADA side, unless the
\* success thread's wake-up for an earlier connection was overdue when it began.
LastingLossReported ==
  (<>[]~up) => <>[](losses = 0 \/ reported \/ overdue)

\* Every connection is signalled, even one that is lost again before the thread
\* has seen it.
ConnectionsSignalled == <>[](semEst = losses + One(up))

(* What a comment of InternalMQTTSubscriber.cpp says *)

\* "timeout occurred and connection is not yet established": whenever a loss
\* lasts, the SCADA side is informed.
LossReported == (<>[]~up) => <>[](losses = 0 \/ reported)
=============================================================================
