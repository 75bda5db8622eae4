------------------------------ MODULE MCOnDemand ------------------------------
\* Two operations that share the TxIDs, two commands for one and one for the
\* other.
EXTENDS OnDemand, TLC

CONSTANTS read, write, r1, r2, r3

mcOpOf == (r1 :> read) @@ (r2 :> write) @@ (r3 :> write)

Valid == [complete |-> TRUE, matches |-> TRUE, path |-> "own", writable |-> TRUE, value |-> "good"]

\* One message for each way through the parser.  The last one is dropped as a
\* write; a read needs no value, and so comes to the unknown topic.
mcMessages ==
  {Valid, [Valid EXCEPT !.matches = FALSE], [Valid EXCEPT !.path = "noSlash", !.value = "absent"]}

=============================================================================
