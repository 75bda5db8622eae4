---------------------------- MODULE MCSparkplugNode ----------------------------
(***************************************************************************)
(* A Modbus device and a device of the vendor application.  The bounds     *)
(* apply to all of a behaviour; a scenario gives each kind of event its    *)
(* share of them, from the start of the program or from a node in service. *)
(***************************************************************************)
EXTENDS SparkplugNode

mcDevices == {"modbus", "vendor"}
mcVendor == {"vendor"}

\* A node in service: born with the devices S, both connections up, all idle.
InService(S) ==
  /\ up = TRUE /\ callbacks = <<>>
  /\ bdSeq = 0 /\ init = TRUE /\ semBirth = 0
  /\ intUp = TRUE /\ intFresh = FALSE
  /\ lossOwed = 0 /\ estOwed = 0 /\ semLost = 0 /\ semEst = 0
  /\ devs = S
  /\ known = [d \in Devices |-> IF d \in S \cap Vendor THEN "up" ELSE "none"]
  /\ pub = [d \in Devices |-> IF d \in S THEN "up" ELSE "none"]
  /\ val = [d \in Devices |-> 0] /\ udts = 0
  /\ seq = Cardinality(S) % Numbers
  /\ host = [NoNode EXCEPT !.on = TRUE, !.seq = seq, !.alive = S]
  /\ birth = NoBirth /\ lost = Idle /\ est = Idle /\ msg = NoMessage /\ ext = "wait"
  /\ crossed = {}

\* Devices in service ({}: the start of the program), then how many connections
\* are lost, fail, and are lost to the internal broker, messages, rebirths.
Scenarios ==
  { <<{},                   1, 0, 0, 1, 0>>,
    <<{},                   0, 0, 1, 1, 0>>,
    <<{},                   0, 0, 0, 1, 1>>,
    <<{"modbus"},           1, 0, 0, 3, 0>>,
    <<{"modbus"},           0, 0, 1, 3, 0>>,
    <<{"modbus"},           0, 0, 0, 3, 1>>,
    <<{"modbus"},           1, 0, 1, 1, 0>>,
    <<{"modbus"},           1, 0, 1, 0, 1>>,
    <<{"modbus"},           2, 1, 0, 1, 0>>,
    <<{"modbus"},           0, 0, 2, 1, 0>>,
    <<{"modbus", "vendor"}, 0, 0, 1, 2, 0>>,
    <<{"modbus", "vendor"}, 1, 0, 0, 2, 0>> }

MCInit ==
  \E s \in Scenarios :
    /\ IF s[1] = {} THEN StartUp ELSE InService(s[1])
    /\ losses = MaxLosses - s[2] /\ fails = MaxFails - s[3]
    /\ intLosses = MaxIntLosses - s[4]
    /\ msgs = MaxMsgs - s[5] /\ rebirths = MaxRebirths - s[6]

MCSpec == MCInit /\ [][Next]_vars
=============================================================================
