------------------------------- MODULE PointValue -------------------------------
(***************************************************************************)
(* The values of data points (modbus-master): how the registers of a       *)
(* device become the "value" and "scaledValue" of a response               *)
(* (swapConversion and setScaledValue), and how those of a write command   *)
(* become registers (reverseScaledValueToHex and hex2bin).                 *)
(*                                                                         *)
(* A hexadecimal string is the sequence of its bytes.  Scale factors and   *)
(* real numbers are exact fractions <<numerator, denominator>>: the        *)
(* rounding errors of double, its infinities and NaN are left out.  A      *)
(* float of n bits is a multiple of 1/(2*Hundred), in a range symmetric    *)
(* around zero.                                                            *)
(***************************************************************************)
EXTENDS Integers, Sequences

CONSTANTS
  Half,       \* half of the values of a byte: 128 in the code
  Hundred,    \* reals are rounded to multiples of 1/Hundred: 100 in the code
  Points,     \* configurations of a data point
  DeviceData, \* bound: what a device may hold in so many bytes
  Commands    \* bound: what an application may command

\* The configuration of a point: CDataPoint::build refuses a width of zero and (in the
\* assumption below) a coil wider than one, and replaces a scale factor of zero.
PointConfig == [type : STRING, width : Nat \ {0}, coil : BOOLEAN, writable : BOOLEAN,
                byteSwap : BOOLEAN, wordSwap : BOOLEAN, scale : (Int \ {0}) \X (Nat \ {0})]

Base == 2 * Half
Byte == 0..(Base - 1)

\* A value in hexadecimal, or a scaled value: an integer, a number of units of
\* 1/Hundred, a Boolean or a string.
Command == [kind : {"value", "string"}, bytes : Seq(Byte)]
             \cup [kind : {"integer", "real"}, n : Int] \cup [kind : {"bool"}, b : BOOLEAN]

ASSUME ValuesAssumption ==
  /\ Half \in Nat \ {0} /\ Hundred \in Nat \ {0}
  /\ Points \subseteq {p \in PointConfig : p.coil => p.width = 1}
  /\ DeviceData \subseteq Seq(Byte)
  /\ Commands \subseteq Command

VARIABLES
  point,      \* the data point: CDataPoint
  regs,       \* external: its registers in the device, in the byte order of the stack
  wire,       \* m_pu8Data of the last command
  done,       \* the last command that the device executed and has not overwritten
  published   \* the last response, if the registers have not changed since

vars == <<point, regs, wire, done, published>>

Nothing == [kind |-> "nothing"]

\* How many values so many bytes have, and the value of the sign bit.
Pow[bytes \in Nat] == IF bytes = 0 THEN 1 ELSE Base * Pow[bytes - 1]
SignBit(bytes) == Half * Pow[bytes - 1]

\* The least and the greatest number of an integer type of so many bytes.
Low(type, bytes)  == IF type = "int" THEN -SignBit(bytes) ELSE 0
High(type, bytes) == IF type = "int" THEN SignBit(bytes) - 1 ELSE Pow[bytes] - 1
\* The greatest real number of so many bytes, in units of 1/(2*Hundred).
HighReal(bytes) == SignBit(bytes) - 2

Clamp(x, lo, hi) == IF x < lo THEN lo ELSE IF x > hi THEN hi ELSE x
Abs(x) == IF x < 0 THEN -x ELSE x
Sign(x) == IF x < 0 THEN -1 ELSE 1

Times(x, q) == <<x * q[1], q[2]>>
Over(x, q)  == <<x * q[2] * Sign(q[1]), Abs(q[1])>>
Trunc(q) == Sign(q[1]) * (Abs(q[1]) \div q[2])
\* round: halfway cases away from zero.
Round(q) == Sign(q[1]) * ((2 * Abs(q[1]) + q[2]) \div (2 * q[2]))

\* A real number converted to an integer type.  C++ leaves the result open when
\* the number is out of range; the builds truncate to the type's bits or give
\* its least signed number.
Cast(q, type, bytes) ==
  LET x == Trunc(q)
      wrapped == x % Pow[bytes] IN
  IF Low(type, bytes) <= x /\ x <= High(type, bytes) THEN {x}
  ELSE {IF wrapped > High(type, bytes) THEN wrapped - Pow[bytes] ELSE wrapped,
        IF type = "int" THEN Low(type, bytes) ELSE SignBit(bytes)}

-----------------------------------------------------------------------------
(* Bytes and numbers. *)

\* swapConversion: byte k of n, counted from zero, comes from there.  Four bytes at a
\* time are taken, then two, then one.  Without a byte swap the bytes of a register
\* are exchanged, for the stack has the low one first.
Source(n, k, byteSwap, wordSwap) ==
  LET inPair(b) == IF byteSwap THEN b ELSE 1 - b
      four == (k \div 4) * 4
      two  == (k \div 2) * 2
      word == (two - four) \div 2 IN
  CASE four + 4 <= n -> four + 2 * (IF wordSwap THEN 1 - word ELSE word) + inPair(k - two)
    [] four + 4 > n /\ two + 2 <= n -> two + inPair(k - two)
    [] OTHER -> k

Swap(bs, byteSwap, wordSwap) ==
  [i \in 1..Len(bs) |-> bs[Source(Len(bs), i - 1, byteSwap, wordSwap) + 1]]

\* hex2bin: the stack's byte order; Nothing if the width is not the one expected.
HexToBin(bs, bytes) ==
  IF Len(bs) # bytes THEN Nothing
  ELSE [kind |-> "data",
        bytes |-> [i \in 1..Len(bs) |->
                     IF i % 2 = 0 THEN bs[i - 1] ELSE IF i < Len(bs) THEN bs[i + 1] ELSE bs[i]]]

\* stoi, stol, stoull: the first byte is the most significant one.
Unsigned(bs) ==
  LET upTo[i \in 0..Len(bs)] == IF i = 0 THEN 0 ELSE upTo[i - 1] * Base + bs[i]
  IN upTo[Len(bs)]

\* Fault: the sign bit is lost.
HexWithoutSign(bs, type, bytes) == Unsigned(bs) % Pow[bytes]

\* hexBytesToShortInt, -ToInt, -ToLongLongInt, -ToUShortInt, -ToUnsignedInt and
\* -ToUnsignedLongLongInt: the bits of the string as a number of the type.
HexToInteger(bs, type, bytes) ==
  LET n == Unsigned(bs) % Pow[bytes]
  IN IF n > High(type, bytes) THEN n - Pow[bytes] ELSE n

\* hexBytesToFloat and hexBytesToDouble.
HexToReal(bs) == HexToInteger(bs, "int", Len(bs))

\* hexBytesToBool
HexToBool(bs) == Unsigned(bs) # 0

\* convertToHexString: padded to the width of the point.
IntegerToHex(x, bytes) ==
  LET n == x % Pow[bytes]
  IN [i \in 1..bytes |-> (n \div Pow[bytes - i]) % Base]

\* Fault: a number that the point's type cannot hold is left as it is.
NotClamped(x, p) == x

\* Both ways a number is cut off at the ends of the type of the point.
InRange(x, p) == Clamp(x, Low(p.type, 2 * p.width), High(p.type, 2 * p.width))

\* External: the integer of a message is an int64_t, whatever it is made from
\* (msgbus_msg_envelope_new_integer); a command's is one as well (var_hex).
Envelope(n) == IF n > High("int", 8) THEN n - Pow[8] ELSE n

-----------------------------------------------------------------------------
(* Registers to a response: setScaledValue. *)

\* The width in bytes of the type that holds the product before it is compared
\* with the range of the point: int and unsigned int for 2 bytes, long long for
\* the others.
ProductBytes(bytes) == IF bytes = 2 THEN 4 ELSE 8

ScaledInteger(bs, p) ==
  LET bytes == 2 * p.width
      product == Times(HexToInteger(bs, p.type, bytes), p.scale)
  IN {[kind |-> "integer", n |-> Envelope(InRange(x, p))] :
        x \in Cast(product, p.type, ProductBytes(bytes))}

\* In units of 1/Hundred.
ScaledReal(bs, p) ==
  LET max == HighReal(2 * p.width)
      q == Times(HexToReal(bs), p.scale)
      c == <<Clamp(q[1], -max * q[2], max * q[2]), 2 * q[2]>>
  IN {[kind |-> "real", n |-> Round(c)]}

\* A point without a known type and width gets the text "Empty Data".
SetScaled(bs, p) ==
  CASE p.type \in {"int", "uint"} /\ p.width \in {1, 2, 4} -> ScaledInteger(bs, p)
    [] (p.type = "float" /\ p.width = 2) \/ (p.type = "double" /\ p.width = 4) ->
         ScaledReal(bs, p)
    [] p.type = "boolean" /\ p.width = 1 -> {[kind |-> "bool", b |-> HexToBool(bs)]}
    [] p.type = "string" -> {[kind |-> "string", bytes |-> bs]}
    [] OTHER -> {[kind |-> "empty"]}

-----------------------------------------------------------------------------
(* A scaled value to registers: reverseScaledValueToHex. *)

Quotient(sv, p) == Over(sv.n, p.scale)

\* The quotient is an int64_t, for unsigned points of eight bytes a uint64_t,
\* before it is clamped.
ReverseInteger(sv, p) ==
  LET bytes == 2 * p.width
      type == IF p.type = "uint" /\ bytes = 8 THEN "uint" ELSE "int"
  IN {[kind |-> "data", bytes |->
         IntegerToHex(InRange(x, p), bytes)] : x \in Cast(Quotient(sv, p), type, 8)}

\* sv.n is a number of units of 1/Hundred for a real, of ones for an integer.
ReverseReal(sv, p) ==
  LET max == HighReal(2 * p.width)
      n == IF sv.kind = "integer" THEN sv.n * Hundred ELSE sv.n
      q == Over(2 * n, p.scale)
      c == <<Clamp(q[1], -max * q[2], max * q[2]), 2 * q[2]>>
  IN {[kind |-> "data", bytes |-> IntegerToHex(2 * Round(c), 2 * p.width)]}

\* Nothing: the kind of the value does not fit the type, or the type the width.
ReverseScaled(sv, p) ==
  CASE p.type = "string" ->
         {[kind |-> "data", bytes |-> IF sv.kind = "string" THEN sv.bytes ELSE <<>>]}
    [] p.type = "boolean" /\ p.width = 1 /\ sv.kind = "bool" ->
         {[kind |-> "data", bytes |-> <<IF sv.b THEN 1 ELSE 0>>]}
    [] p.type \in {"int", "uint"} /\ p.width \in {1, 2, 4} /\ sv.kind = "integer" ->
         ReverseInteger(sv, p)
    [] (p.type = "float" /\ p.width = 2) \/ (p.type = "double" /\ p.width = 4) ->
         IF sv.kind \in {"integer", "real"} THEN ReverseReal(sv, p) ELSE {Nothing}
    [] OTHER -> {Nothing}

\* The value of the command is a hexadecimal string, or is made one.
HexOf(c, p) == IF c.kind = "value" THEN {[kind |-> "data", bytes |-> c.bytes]}
               ELSE ReverseScaled(c, p)

\* A coil takes 0x0000 or 0xFF00.
CoilData(bs) == CASE bs = <<0>> -> [kind |-> "data", bytes |-> <<0, 0>>]
                  [] bs = <<1>> -> [kind |-> "data", bytes |-> <<Base - 1, 0>>]
                  [] OTHER -> Nothing

\* Fault: swapped as in a response.
SwapAsRead(bs, p) == Swap(bs, p.byteSwap, p.wordSwap)

\* hex2bin exchanges the bytes once more: the byte swap is the opposite of that of
\* a response.
SwapForWrite(bs, p) ==
  IF p.byteSwap \/ p.wordSwap THEN Swap(bs, ~p.byteSwap, p.wordSwap) ELSE bs

\* jsonParserForOnDemandRequest: the bytes that go to the stack, Nothing if the
\* command is refused.
WriteData(hex, p) ==
  LET h == IF hex.kind = "data" /\ p.coil THEN CoilData(hex.bytes) ELSE hex
  IN IF ~p.writable \/ h.kind # "data" THEN Nothing
     ELSE HexToBin(SwapForWrite(h.bytes, p), 2 * p.width)

-----------------------------------------------------------------------------
(* External: a coil is one byte, and the device refuses other data for it. *)
Stored(data, p) == IF p.coil THEN <<IF data[2] = 0 THEN 0 ELSE 1>> ELSE data
Executes(data, p) == p.coil => data \in {<<0, 0>>, <<0, Base - 1>>}

Blank(p) == IF p.coil THEN <<0>> ELSE [i \in 1..(2 * p.width) |-> 0]

Init ==
  /\ point \in Points
  /\ regs = Blank(point)
  /\ wire = Nothing
  /\ done = Nothing
  /\ published = Nothing

\* A command: refused by the parser or the device, or executed.
Write(c) ==
  \E hex \in HexOf(c, point) :
    LET w == WriteData(hex, point) IN
    /\ wire' = w
    /\ IF w.kind = "data" /\ Executes(w.bytes, point)
       THEN /\ regs' = Stored(w.bytes, point)
            /\ done' = c
            /\ published' = Nothing
       ELSE UNCHANGED <<regs, done, published>>
    /\ UNCHANGED point

\* External: the value changes by itself.
DeviceSets(bs) ==
  /\ Len(bs) = Len(regs)
  /\ regs' = bs
  /\ done' = Nothing
  /\ published' = Nothing
  /\ UNCHANGED <<point, wire>>

\* prepareResponseJson
Poll ==
  LET hex == Swap(regs, point.byteSwap, point.wordSwap) IN
  /\ \E s \in SetScaled(hex, point) :
       published' = [kind |-> "response", value |-> hex, scaled |-> s]
  /\ UNCHANGED <<point, regs, wire, done>>

Next ==
  \/ \E c \in Commands : Write(c)
  \/ \E bs \in DeviceData : DeviceSets(bs)
  \/ Poll

Spec == Init /\ [][Next]_vars

-----------------------------------------------------------------------------
(* Correctness. *)

\* An unsigned number of eight bytes is published as a signed one.
PublishedType(p) == IF p.type = "uint" /\ p.width = 4 THEN "int" ELSE p.type

\* A scaled integer is a number of the type that it is published in:
\* setScaledValue, whatever the scale factor.
TypeOK ==
  /\ point \in Points
  /\ regs \in Seq(Byte)
  /\ wire.kind = "data" => Len(wire.bytes) = 2 * point.width
  /\ published.kind = "response" =>
       /\ Len(published.value) = Len(regs)
       /\ published.scaled.kind = "integer" =>
            /\ published.scaled.n >= Low(PublishedType(point), 2 * point.width)
            /\ published.scaled.n <= High(PublishedType(point), 2 * point.width)
       /\ published.scaled.kind = "real" =>
            2 * Abs(published.scaled.n) <= HighReal(2 * point.width)

\* The number in the device, from the documentation of the two flags: a register
\* is 16 bits, byteSwap exchanges its bytes, wordSwap the registers of each pair,
\* and the first register is the most significant.
Register(i) == LET lo == regs[2 * i - 1]  hi == regs[2 * i]
               IN IF point.byteSwap THEN lo * Base + hi ELSE hi * Base + lo
Significance(i) ==
  LET n == point.width
      k == IF ~point.wordSwap \/ (i = n /\ n % 2 = 1) THEN i
           ELSE IF i % 2 = 1 THEN i + 1 ELSE i - 1
  IN Pow[2 * (n - k)]
InDevice ==
  IF point.coil THEN regs[1]
  ELSE LET sum[i \in 0..point.width] ==
             IF i = 0 THEN 0 ELSE sum[i - 1] + Register(i) * Significance(i)
           n == sum[point.width]
       IN IF point.type # "uint" /\ n > High("int", 2 * point.width)
          THEN n - Pow[2 * point.width] ELSE n

\* What is published is the number in the device times the scale factor, cut off
\* at the ends of the type's range, for every byte and word order (swapConversion,
\* setScaledValue), as long as the product fits the type that it is computed in.
\* The upper half of the unsigned numbers of eight bytes is published 2^64 too low.
PublishedIsScaledValue ==
  published.kind = "response" /\ published.scaled.kind = "integer" =>
    LET bytes == 2 * point.width
        x == Trunc(Times(InDevice, point.scale))
        y == Clamp(x, Low(point.type, bytes), High(point.type, bytes)) IN
    x \in Low(point.type, ProductBytes(bytes))..High(point.type, ProductBytes(bytes)) =>
      published.scaled.n = IF y > High(PublishedType(point), bytes) THEN y - Pow[bytes] ELSE y

\* A real that fits the type is published to the nearest hundredth.
PublishedIsNearest ==
  published.kind = "response" /\ published.scaled.kind = "real" =>
    LET q == Times(InDevice, point.scale) IN
    Abs(q[1]) <= HighReal(2 * point.width) * q[2] =>
      Abs(2 * published.scaled.n * q[2] - q[1]) <= q[2]

\* Both kinds of numbers.
PublishedIsRight == PublishedIsScaledValue /\ PublishedIsNearest

\* A value that was commanded is the value that is read (jsonParserForOnDemandRequest
\* against prepareResponseJson), for every type and byte order.
ValueReadsBack ==
  done.kind = "value" /\ published.kind = "response" => published.value = done.bytes

\* A scaled value that was commanded is read again to less than one step of the
\* scale and one of the integers: reverseScaledValueToHex and setScaledValue are
\* inverses, where neither has cut off the number, which a message can hold.
ScaledReadsBack ==
  done.kind = "integer" /\ published.kind = "response" /\ published.scaled.kind = "integer" =>
    LET bytes == 2 * point.width
        range == Low(point.type, bytes)..High(point.type, bytes) IN
    done.n \in range /\ done.n <= High("int", 8) /\ Trunc(Over(done.n, point.scale)) \in range =>
      point.scale[2] * Abs(published.scaled.n - done.n)
        < Abs(point.scale[1]) + point.scale[2]

\* What is read is what was commanded, by value and by scaled value.
ReadsBack == ValueReadsBack /\ ScaledReadsBack

\* Violated.  "If value is 0x01, then write 0xFF00" (ModbusOnDemandHandler.cpp):
\* a point that swaps bytes exchanges those of 0xFF00 as well.
CoilIsFF00 ==
  point.coil /\ wire.kind = "data" => wire.bytes \in {<<0, 0>>, <<0, Base - 1>>}

\* Violated.  "It represents uint64_t" and "checks scaledValue is less than min
\* value of uint64_t" (setScaledValue): the scaled value of an unsigned point is
\* no negative number.  The message holds an int64_t.
UnsignedIsUnsigned ==
  published.kind = "response" /\ published.scaled.kind = "integer" /\ point.type = "uint" =>
    published.scaled.n >= 0
=============================================================================
