-------------------------------- MODULE IntLink --------------------------------
(***************************************************************************)
(* What the SCADA side of the sparkplug-bridge is told about the           *)
(* connection to the internal MQTT broker: every connection is signalled   *)
(* once, and every loss once or, if the connection came back in time, not  *)
(* at all.  IntMqttMonitor shows how CIntMqttHandler keeps this promise;   *)
(* SparkplugNode relies on it.                                             *)
(***************************************************************************)
EXTENDS Naturals

CONSTANT MaxLosses   \* bound: connections that are lost

VARIABLES
  up,        \* the client is connected (CMQTTBaseHandler::isConnected)
  fresh,     \* no attempt to connect has ended yet
  losses,    \* connections lost so far
  lossOwed,  \* losses that may still be signalled
  estOwed,   \* connections that are still to be signalled
  semLost,   \* CSCADAHandler::m_semIntMQTTConnLost
  semEst     \* CSCADAHandler::m_semIntMQTTConnEstablished

vars == <<up, fresh, losses, lossOwed, estOwed, semLost, semEst>>

Init ==
  /\ up = FALSE /\ fresh = TRUE
  /\ losses = 0 /\ lossOwed = 0 /\ estOwed = 0
  /\ semLost = 0 /\ semEst = 0

Establish ==
  /\ ~up
  /\ up' = TRUE /\ fresh' = FALSE
  /\ estOwed' = estOwed + 1
  /\ UNCHANGED <<losses, lossOwed, semLost, semEst>>

\* The first attempt to connect fails: it counts as a loss.
FirstFails ==
  /\ ~up /\ fresh
  /\ fresh' = FALSE
  /\ lossOwed' = lossOwed + 1
  /\ UNCHANGED <<up, losses, estOwed, semLost, semEst>>

Lose ==
  /\ up /\ losses < MaxLosses
  /\ up' = FALSE
  /\ losses' = losses + 1
  /\ lossOwed' = lossOwed + 1
  /\ UNCHANGED <<fresh, estOwed, semLost, semEst>>

SignalEstablished ==
  /\ estOwed > 0
  /\ estOwed' = estOwed - 1
  /\ semEst' = semEst + 1
  /\ UNCHANGED <<up, fresh, losses, lossOwed, semLost>>

SignalLost ==
  /\ lossOwed > 0
  /\ lossOwed' = lossOwed - 1
  /\ semLost' = semLost + 1
  /\ UNCHANGED <<up, fresh, losses, estOwed, semEst>>

KeepQuiet ==  \* the connection came back before the time-out
  /\ lossOwed > 0
  /\ lossOwed' = lossOwed - 1
  /\ UNCHANGED <<up, fresh, losses, estOwed, semLost, semEst>>

Next ==
  \/ Establish \/ FirstFails \/ Lose
  \/ SignalEstablished \/ SignalLost \/ KeepQuiet

Spec == Init /\ [][Next]_vars
=============================================================================
