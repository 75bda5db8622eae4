-------------------------------- MODULE MCBridge --------------------------------
(* Instances of Bridge for TLC. *)
EXTENDS Bridge

CONSTANTS p1, t1, t2

OneRT == [op \in {"read", "write"} |-> op = "read"]
TwoTopics == <<t1, t2>>

C(o, r, b) == [op |-> o, point |-> p1, realtime |-> r, body |-> b]
\* Two queues are used, one of them by commands that name their class and by
\* commands that do not.
MixedCommands == {C("read", "1", "good"), C("read", "none", "nested"), C("read", "0", "good"),
                  C("write", "none", "invalid"), C("other", "0", "good")}
===============================================================================
