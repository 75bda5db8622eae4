------------------------------ MODULE MCPointValue ------------------------------
\* Bytes of two bits: points of 4, 8 and 16 bits.
EXTENDS PointValue

Plain == [type |-> "int", width |-> 1, coil |-> FALSE, writable |-> TRUE,
          byteSwap |-> FALSE, wordSwap |-> FALSE, scale |-> <<1, 1>>]

Types == {<<"int", 1>>, <<"int", 2>>, <<"int", 4>>, <<"uint", 1>>, <<"uint", 2>>,
          <<"uint", 4>>, <<"float", 2>>, <<"double", 4>>, <<"string", 1>>, <<"uint", 3>>}

\* Scale factors: none, a fraction, one that makes every product overflow its
\* range, and a negative one.
Scales == {<<1, 1>>, <<1, 2>>, <<3, 1>>, <<-5, 2>>}

Registers ==
  {[Plain EXCEPT !.type = t[1], !.width = t[2], !.byteSwap = b, !.wordSwap = w, !.scale = s] :
     t \in Types, b \in BOOLEAN, w \in BOOLEAN, s \in Scales}

Coils == {[Plain EXCEPT !.type = "boolean", !.coil = TRUE, !.byteSwap = b, !.wordSwap = w] :
            b \in BOOLEAN, w \in BOOLEAN}

Others == {[Plain EXCEPT !.type = "boolean"], [Plain EXCEPT !.writable = FALSE]}

mcPoints == Registers \cup Coils \cup Others

\* Four values of a byte for one register, and few for longer points: the ends
\* and bytes that differ.
mcDeviceData ==
  {<<0>>, <<1>>} \cup [1..2 -> Byte] \cup
  {<<1, 2, 3, 0>>, <<3, 3, 3, 3>>, <<3, 3, 3, 1>>, <<2, 0, 1, 0>>, <<0, 2, 0, 0>>,
   <<0, 1, 2, 3, 1, 1>>,
   <<1, 2, 3, 0, 0, 3, 2, 1>>, <<3, 3, 3, 3, 3, 3, 3, 3>>, <<0, 2, 0, 0, 0, 0, 0, 0>>,
   <<3, 1, 3, 3, 3, 3, 3, 3>>, <<1, 0, 0, 0, 0, 0, 0, 0>>}

mcCommands ==
  {[kind |-> "value", bytes |-> bs] :
     bs \in {<<0>>, <<1>>, <<2>>, <<1, 2>>, <<0, 1, 2, 3>>, <<0, 1, 2, 3, 3, 1, 2, 0>>}}
  \cup {[kind |-> "integer", n |-> n] : n \in {-9, -8, -5, 0, 1, 7, 40, 30000}}
  \cup {[kind |-> "real", n |-> n] : n \in {-3, 25, 1000}}
  \cup {[kind |-> "bool", b |-> TRUE], [kind |-> "string", bytes |-> <<1, 3>>]}
=============================================================================
