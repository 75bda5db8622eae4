------------------------- MODULE IntMqttMonitor_proofs -------------------------
(***************************************************************************)
(* Theorems about IntMqttMonitor: it implements IntLink, and its type      *)
(* invariant, whose bounds on the semaphores follow from what IntLink      *)
(* counts.                                                                 *)
(***************************************************************************)
EXTENDS IntMqttMonitor, FiniteSetTheorems, SequenceTheorems, TLAPS

-----------------------------------------------------------------------------
(* Counting the members of a sequence *)

\* What Append adds is counted.
LEMMA OccursAppend ==
  ASSUME NEW S, NEW s \in Seq(S), NEW x \in S, NEW c
  PROVE  /\ Occurs(s, c) \in Nat
         /\ Occurs(Append(s, x), c) = Occurs(s, c) + One(x = c)
<1> DEFINE t == Append(s, x)
           A == {i \in DOMAIN s : s[i] = c}
           B == {i \in DOMAIN t : t[i] = c}
           n == Len(s) + 1
<1>1. /\ DOMAIN s = 1..Len(s) /\ DOMAIN t = 1..n /\ Len(s) \in Nat
      /\ t[n] = x /\ \A i \in 1..Len(s) : t[i] = s[i]
  OBVIOUS
<1>2. IsFiniteSet(A) /\ Cardinality(A) \in Nat
  <2>1. IsFiniteSet(1..Len(s)) /\ A \in SUBSET (1..Len(s))
    BY <1>1, FS_Interval
  <2> QED
    BY ONLY <2>1, FS_Subset, FS_CardinalityType
<1>5. Occurs(s, c) = Cardinality(A) /\ Occurs(t, c) = Cardinality(B)
  BY DEF Occurs
<1>3. CASE x = c
  <2>1. B = A \cup {n} /\ n \notin A
    BY <1>1, <1>3
  <2>2. Cardinality(B) = Cardinality(A) + 1
    BY ONLY <2>1, <1>2, FS_AddElement
  <2> HIDE DEF A, B, t
  <2> QED
    BY <2>2, <1>2, <1>3, <1>5 DEF One, t
<1>4. CASE x # c
  <2>1. B = A
    BY <1>1, <1>4
  <2> HIDE DEF A, B, t
  <2> QED
    BY <2>1, <1>2, <1>4, <1>5 DEF One, t
<1> QED
  BY <1>3, <1>4

\* What Tail takes away is not counted any more.
LEMMA OccursTail ==
  ASSUME NEW S, NEW s \in Seq(S), s # <<>>, NEW c
  PROVE  /\ Occurs(s, c) \in Nat /\ Occurs(Tail(s), c) \in Nat
         /\ Occurs(s, c) = Occurs(Tail(s), c) + One(Head(s) = c)
<1> DEFINE t == Tail(s)
           A == {i \in DOMAIN s : s[i] = c}
           B == {i \in DOMAIN t : t[i] = c}
           f == [i \in B |-> i + 1]
<1>1. /\ DOMAIN s = 1..Len(s) /\ DOMAIN t = 1..(Len(s) - 1) /\ Len(s) \in Nat \ {0}
      /\ Head(s) = s[1] /\ \A i \in 1..(Len(s) - 1) : t[i] = s[i + 1]
  OBVIOUS
<1>2. /\ IsFiniteSet(A) /\ Cardinality(A) \in Nat
      /\ IsFiniteSet(B) /\ Cardinality(B) \in Nat
      /\ IsFiniteSet(A \ {1})
  <2>1. /\ IsFiniteSet(1..Len(s)) /\ A \in SUBSET (1..Len(s))
        /\ B \in SUBSET (1..Len(s))
    BY <1>1, FS_Interval
  <2> QED
    BY ONLY <2>1, FS_Subset, FS_CardinalityType, FS_RemoveElement
<1>7. Occurs(s, c) = Cardinality(A) /\ Occurs(t, c) = Cardinality(B)
  BY DEF Occurs
<1>3. f \in Bijection(B, A \ {1})
  <2>1. f \in [B -> A \ {1}]
    BY <1>1
  <2>2. \A i, j \in B : f[i] = f[j] => i = j
    BY <1>1
  <2>3. \A k \in A \ {1} : \E i \in B : f[i] = k
    <3> SUFFICES ASSUME NEW k \in A \ {1} PROVE \E i \in B : f[i] = k
      OBVIOUS
    <3>1. k - 1 \in B /\ f[k - 1] = k
      BY <1>1
    <3> QED
      BY <3>1
  <2> QED
    BY <2>1, <2>2, <2>3 DEF Bijection, Injection, Surjection, IsInjective
<1>4. Cardinality(B) = Cardinality(A \ {1})
  BY <1>2, <1>3, FS_Bijection, ZenonT(60) DEF ExistsBijection
<1>5. CASE Head(s) = c
  <2>1. 1 \in A
    BY <1>1, <1>5
  <2>2. Cardinality(A \ {1}) = Cardinality(A) - 1
    BY ONLY <2>1, <1>2, FS_RemoveElement
  <2> HIDE DEF A, B, t, f
  <2> QED
    BY <2>2, <1>2, <1>4, <1>5, <1>7 DEF One, t
<1>6. CASE Head(s) # c
  <2>1. A \ {1} = A
    BY <1>1, <1>6
  <2> HIDE DEF A, B, t, f
  <2>2. Cardinality(B) = Cardinality(A)
    BY ONLY <2>1, <1>4
  <2> QED
    BY <2>2, <1>2, <1>6, <1>7 DEF One, t
<1> QED
  BY <1>5, <1>6

-----------------------------------------------------------------------------
(* Types *)

TInv ==
  /\ up \in BOOLEAN /\ callbacks \in Seq(Callback)
  /\ losses \in 0..MaxLosses /\ fails \in 0..MaxFails
  /\ lastStatus \in {"none", "up", "down"}
  /\ semConnSuccess \in Nat /\ semConnLost \in Nat /\ semToTimeOut \in Nat
  /\ timeoutState \in BOOLEAN
  /\ monPc \in {"wait", "arm", "timed", "disarm", "check", "signal"}
  /\ rc \in {"none", "posted", "timeout"}
  /\ sucPc \in {"wait", "check", "state", "post", "signal"}
  /\ firstConnect \in BOOLEAN
  /\ semLost \in Nat /\ semEst \in Nat
  /\ reported \in BOOLEAN /\ overdue \in BOOLEAN

\* TypeOK without the bounds on the semaphores is inductive.
LEMMA TypeStep == TInv /\ [Next]_vars => TInv'
<1> SUFFICES ASSUME TInv, [Next]_vars PROVE TInv'
  OBVIOUS
<1> USE MonitorAssumption DEF TInv, Callback
<1>1. CASE LinkUp
  BY <1>1, AppendProperties DEF LinkUp, statusVars, monVars, sucVars, outVars
<1>2. CASE LinkLost
  <2>1. overdue' \in BOOLEAN
    BY <1>2, Zenon DEF LinkLost
  <2>2. callbacks' \in Seq(Callback) /\ losses' \in 0..MaxLosses
    BY <1>2, AppendProperties DEF LinkLost
  <2> QED
    BY <1>2, <2>1, <2>2 DEF LinkLost, statusVars, monVars, sucVars, outVars
<1>3. CASE LinkFails
  BY <1>3, AppendProperties DEF LinkFails, statusVars, monVars, sucVars, outVars
<1>4. CASE Connected
  BY <1>4, HeadTailProperties DEF Connected, CallbackDone, monVars, sucVars, outVars
<1>5. CASE Disconnected
  BY <1>5, HeadTailProperties DEF Disconnected, CallbackDone, monVars, sucVars, outVars
<1>6. CASE MonThread
  <2> USE DEF MonOnly, linkVars, sucVars
  <2>1. CASE MonWait
    BY <2>1 DEF MonWait
  <2>2. CASE MonArm \/ MonDisarm \/ MonCheck
    BY <2>2, ZenonT(60) DEF MonArm, MonDisarm, MonCheck
  <2>3. CASE MonPosted
    BY <2>3 DEF MonPosted
  <2>4. CASE MonTimeout
    BY <2>4 DEF MonTimeout
  <2>5. CASE MonSignal
    BY <2>5 DEF MonSignal
  <2> QED
    BY <1>6, <2>1, <2>2, <2>3, <2>4, <2>5 DEF MonThread
<1>7. CASE SucThread
  <2> USE DEF SucOnly, linkVars, monVars
  <2>1. CASE SucWait
    BY <2>1 DEF SucWait
  <2>2. CASE SucCheck \/ SucState
    BY <2>2 DEF SucCheck, SucState
  <2>3. CASE SucPost
    BY <2>3 DEF SucPost
  <2>4. CASE SucSignal
    <3>1. semEst' = semEst + 1 /\ sucPc' = "wait"
      BY <2>4, Zenon DEF SucSignal
    <3>2. firstConnect' \in BOOLEAN
      BY <2>4, Zenon DEF SucSignal
    <3> QED
      BY <2>4, <3>1, <3>2 DEF SucSignal
  <2> QED
    BY <1>7, <2>1, <2>2, <2>3, <2>4 DEF SucThread
<1>8. CASE Rest \/ UNCHANGED vars
  BY <1>8 DEF Rest, vars, linkVars, statusVars, monVars, sucVars, outVars
<1> QED
  BY <1>1, <1>2, <1>3, <1>4, <1>5, <1>6, <1>7, <1>8 DEF Next

-----------------------------------------------------------------------------
(* The callbacks to come tell a possible history of the connection: losses   *)
(* follow connections, failed attempts do not.                               *)

InTurn == \A i \in 1..(Len(callbacks) - 1) :
            callbacks[i] = "connected" <=> callbacks[i + 1] = "lost"
Ends   == callbacks # <<>> => (up <=> callbacks[Len(callbacks)] = "connected")
Begins == callbacks # <<>> => (lastStatus = "up" <=> callbacks[1] = "lost")
Quiet  == callbacks = <<>> => (up <=> lastStatus = "up")
Order  == InTurn /\ Ends /\ Begins /\ Quiet

\* A callback at the end that fits the connection keeps the order.
LEMMA OrderAppend ==
  ASSUME TInv, Order, NEW x \in Callback, callbacks' = Append(callbacks, x),
         UNCHANGED lastStatus, up' = (x = "connected"), up <=> x = "lost"
  PROVE  Order'
<1> DEFINE n == Len(callbacks)
<1>1. /\ n \in Nat /\ Len(callbacks') = n + 1 /\ callbacks' # <<>>
      /\ callbacks'[n + 1] = x /\ \A i \in 1..n : callbacks'[i] = callbacks[i]
  BY DEF TInv
<1>2. n = 0 <=> callbacks = <<>>
  BY DEF TInv
<1>3. InTurn'
  <2> SUFFICES ASSUME NEW i \in 1..n
               PROVE  callbacks'[i] = "connected" <=> callbacks'[i + 1] = "lost"
    BY <1>1 DEF InTurn
  <2>1. CASE i = n
    BY <2>1, <1>1, <1>2 DEF Order, Ends
  <2>2. CASE i # n
    <3>1. i \in 1..(n - 1) /\ i + 1 \in 1..n
      BY <2>2, <1>1
    <3> QED
      BY <3>1, <1>1 DEF Order, InTurn
  <2> QED
    BY <2>1, <2>2
<1>4. Ends'
  BY <1>1 DEF Ends
<1>5. Begins'
  <2>1. CASE n = 0
    BY <2>1, <1>1, <1>2 DEF Begins, Order, Quiet
  <2>2. CASE n # 0
    <3>1. 1 \in 1..n /\ callbacks'[1] = callbacks[1]
      BY <2>2, <1>1
    <3> QED
      BY <3>1, <2>2, <1>2 DEF Order, Begins
  <2> QED
    BY <2>1, <2>2
<1> QED
  BY <1>1, <1>3, <1>4, <1>5 DEF Order, Quiet

\* A callback that is made keeps the order, if the status follows it.
LEMMA OrderTail ==
  ASSUME TInv, Order, callbacks # <<>>, callbacks' = Tail(callbacks), UNCHANGED up,
         lastStatus' = IF Head(callbacks) = "connected" THEN "up" ELSE "down"
  PROVE  Order'
<1> DEFINE n == Len(callbacks)
<1>1. /\ n \in Nat \ {0} /\ Len(callbacks') = n - 1 /\ Head(callbacks) = callbacks[1]
      /\ \A i \in 1..(n - 1) : callbacks'[i] = callbacks[i + 1]
      /\ n = 1 <=> callbacks' = <<>>
  <2>1. callbacks \in Seq(Callback)
    BY DEF TInv
  <2>2. /\ callbacks' \in Seq(Callback) /\ n \in Nat /\ Len(callbacks') = n - 1
        /\ Head(callbacks) = callbacks[1]
        /\ \A i \in 1..(n - 1) : callbacks'[i] = callbacks[i + 1]
    BY <2>1
  <2>3. n # 0 /\ (Len(callbacks') = 0 <=> callbacks' = <<>>)
    BY <2>1, <2>2, EmptySeq
  <2> QED
    BY <2>2, <2>3
<1>2. InTurn'
  <2> SUFFICES ASSUME NEW i \in 1..(n - 2)
               PROVE  callbacks'[i] = "connected" <=> callbacks'[i + 1] = "lost"
    BY <1>1 DEF InTurn
  <2>1. i \in 1..(n - 1) /\ i + 1 \in 1..(n - 1)
    BY <1>1
  <2> QED
    BY <2>1, <1>1 DEF Order, InTurn
<1>3. Ends'
  <2> SUFFICES ASSUME n # 1 PROVE up' <=> callbacks'[n - 1] = "connected"
    BY <1>1 DEF Ends
  <2>1. n - 1 \in 1..(n - 1) /\ (n - 1) + 1 = n
    BY <1>1
  <2> QED
    BY <2>1, <1>1 DEF Order, Ends
<1>4. Begins'
  <2> SUFFICES ASSUME n # 1 PROVE lastStatus' = "up" <=> callbacks'[1] = "lost"
    BY <1>1 DEF Begins
  <2>1. 1 \in 1..(n - 1) /\ callbacks'[1] = callbacks[2]
    BY <1>1
  <2> QED
    BY <2>1, <1>1 DEF Order, InTurn
<1>5. Quiet'
  BY <1>1 DEF Quiet, Order, Ends
<1> QED
  BY <1>2, <1>3, <1>4, <1>5 DEF Order

\* Every step keeps the order of the callbacks.
LEMMA OrderStep == TInv /\ Order /\ [Next]_vars => Order'
<1> SUFFICES ASSUME TInv, Order, [Next]_vars PROVE Order'
  OBVIOUS
<1>1. CASE LinkUp
  BY <1>1, OrderAppend DEF LinkUp, statusVars, Callback
<1>2. CASE LinkLost
  BY <1>2, OrderAppend DEF LinkLost, statusVars, Callback
<1>3. CASE LinkFails
  BY <1>3, OrderAppend DEF LinkFails, statusVars, Callback, TInv
<1>4. CASE Connected
  BY <1>4, OrderTail DEF Connected, CallbackDone
<1>5. CASE Disconnected
  BY <1>5, OrderTail DEF Disconnected, CallbackDone
<1>6. UNCHANGED <<up, callbacks, lastStatus>> => Order'
  BY DEF Order, InTurn, Ends, Begins, Quiet
<1>7. CASE MonThread
  BY <1>7, <1>6 DEF MonThread, MonWait, MonArm, MonPosted, MonTimeout, MonDisarm, MonCheck,
     MonSignal, MonOnly, linkVars
<1>8. CASE SucThread
  BY <1>8, <1>6 DEF SucThread, SucWait, SucCheck, SucState, SucPost, SucSignal, SucOnly,
     linkVars
<1>9. CASE Rest \/ UNCHANGED vars
  BY <1>9, <1>6 DEF Rest, vars, linkVars, statusVars
<1> QED
  BY <1>1, <1>2, <1>3, <1>4, <1>5, <1>7, <1>8, <1>9 DEF Next
-----------------------------------------------------------------------------
(* The refinement *)

Fresh    == lastStatus = "none" /\ callbacks = <<>>
FirstOwed == lastStatus = "none" /\ callbacks # <<>> /\ Head(callbacks) = "failed"
LossOwed == semConnLost + Count("lost") + One(FirstOwed) + One(monPc # "wait")
EstOwed  == Count("connected") + semConnSuccess + One(sucPc # "wait")

\* What Append to the callbacks, or their Tail, does to the counts.
LEMMA CountAppend ==
  ASSUME TInv, NEW x \in Callback, callbacks' = Append(callbacks, x)
  PROVE  /\ Count("lost") \in Nat /\ Count("lost")' = Count("lost") + One(x = "lost")
         /\ Count("connected") \in Nat
         /\ Count("connected")' = Count("connected") + One(x = "connected")
         /\ callbacks' # <<>>
         /\ callbacks # <<>> => Head(callbacks') = Head(callbacks)
         /\ callbacks = <<>> => Head(callbacks') = x
<1>1. callbacks \in Seq(Callback)
  BY DEF TInv
<1>2. /\ Count("lost") \in Nat /\ Count("lost")' = Count("lost") + One(x = "lost")
      /\ Count("connected") \in Nat
      /\ Count("connected")' = Count("connected") + One(x = "connected")
  BY <1>1, OccursAppend DEF Count
<1> QED
  BY <1>1, <1>2, AppendProperties

\* The same for Tail.
LEMMA CountTail ==
  ASSUME TInv, callbacks # <<>>, callbacks' = Tail(callbacks)
  PROVE  /\ Count("lost")' \in Nat
         /\ Count("lost") = Count("lost")' + One(Head(callbacks) = "lost")
         /\ Count("connected")' \in Nat
         /\ Count("connected") = Count("connected")' + One(Head(callbacks) = "connected")
         /\ Head(callbacks) = callbacks[1]
<1>1. callbacks \in Seq(Callback)
  BY DEF TInv
<1> QED
  BY <1>1, OccursTail DEF Count

\* The same for no change.
LEMMA CountSame ==
  ASSUME TInv, UNCHANGED callbacks
  PROVE  /\ Count("lost") \in Nat /\ Count("lost")' = Count("lost")
         /\ Count("connected") \in Nat /\ Count("connected")' = Count("connected")
<1>1. callbacks \in Seq(Callback) /\ "lost" \in Callback
  BY DEF TInv, Callback
<1> QED
  BY <1>1, OccursAppend DEF Count

\* Every step of the library, of a callback or of a thread is a step of IntLink
\* or leaves what it speaks of unchanged.
LEMMA LinkStep == TInv /\ Order /\ [Next]_vars => [Link!Next]_(Link!vars)
<1> SUFFICES ASSUME TInv, Order, [Next]_vars PROVE Link!Next \/ UNCHANGED Link!vars
  OBVIOUS
<1> USE DEF Link!vars, Link!Next
<1>1. CASE LinkUp
  <2>1. EstOwed' = EstOwed + 1 /\ LossOwed' = LossOwed
    <3>1. FirstOwed' <=> FirstOwed
      BY <1>1, CountAppend DEF LinkUp, FirstOwed, statusVars, Callback
    <3>2. EstOwed' = EstOwed + 1
      BY <1>1, CountAppend DEF LinkUp, EstOwed, statusVars, sucVars, One, Callback, TInv
    <3>3. Count("lost")' = Count("lost")
      BY <1>1, CountAppend DEF LinkUp, One, Callback
    <3> QED
      BY <1>1, <3>1, <3>2, <3>3 DEF LinkUp, LossOwed, statusVars, monVars, One
  <2>2. Fresh' = FALSE
    BY <1>1, CountAppend, Zenon DEF LinkUp, Fresh, Callback
  <2>3. Link!Establish
    BY <1>1, <2>1, <2>2 DEF LinkUp, Link!Establish, EstOwed, LossOwed, FirstOwed, Fresh, outVars
  <2> QED
    BY <2>3
<1>2. CASE LinkLost
  <2>1. ~Fresh
    BY <1>2 DEF LinkLost, Order, Quiet, Fresh
  <2>2. EstOwed' = EstOwed /\ LossOwed' = LossOwed + 1
    BY <1>2, CountAppend, SMTT(60) DEF LinkLost, EstOwed, LossOwed, FirstOwed, statusVars, monVars,
       sucVars, One, Callback, TInv
  <2>3. Fresh' = FALSE /\ Fresh = FALSE
    BY <1>2, <2>1, CountAppend, Zenon DEF LinkLost, Fresh, Callback
  <2>4. Link!Lose
    BY <1>2, <2>2, <2>3 DEF LinkLost, Link!Lose, EstOwed, LossOwed, FirstOwed, Fresh, outVars
  <2> QED
    BY <2>4
<1>3. CASE LinkFails
  <2>1. CASE Fresh
    <3>1. EstOwed' = EstOwed /\ LossOwed' = LossOwed + 1
      BY <1>3, <2>1, CountAppend DEF LinkFails, Fresh, EstOwed, LossOwed, FirstOwed, statusVars,
         monVars, sucVars, One, Callback, TInv
    <3>2. Fresh' = FALSE /\ Fresh = TRUE
      BY <1>3, <2>1, CountAppend, Zenon DEF LinkFails, Fresh, Callback
    <3>3. Link!FirstFails
      BY <1>3, <3>1, <3>2 DEF LinkFails, Link!FirstFails, EstOwed, LossOwed, FirstOwed, Fresh,
         outVars
    <3> QED
      BY <3>3
  <2>2. CASE ~Fresh
    BY <1>3, <2>2, CountAppend DEF LinkFails, Fresh, statusVars, monVars,
       sucVars, outVars, One, Callback
  <2> QED
    BY <2>1, <2>2
<1>4. CASE Connected
  BY <1>4, CountTail, SMTT(60) DEF Connected, CallbackDone, monVars, sucVars, outVars, One, TInv
<1>5. CASE Disconnected
  <2>1. CASE lastStatus = "down"
    BY <1>5, <2>1, CountTail DEF Disconnected, CallbackDone, monVars, sucVars,
       outVars, One, TInv, Link!KeepQuiet
  <2>2. CASE lastStatus = "up"
    <3>1. Head(callbacks) = "lost"
      BY <1>5, <2>2, CountTail DEF Disconnected, CallbackDone, Order, Begins
    <3> QED
      BY <1>5, <2>2, <3>1, CountTail DEF Disconnected, CallbackDone, monVars, sucVars,
         outVars, One, TInv
  <2>3. CASE lastStatus = "none"
    BY <1>5, <2>3, CountTail DEF Disconnected, CallbackDone, monVars, sucVars,
       outVars, One, TInv
  <2> QED
    BY <2>1, <2>2, <2>3 DEF TInv
<1>6. CASE MonThread
  <2> USE CountSame DEF MonOnly, linkVars, sucVars, One, TInv
  <2>1. CASE MonWait
    BY <2>1 DEF MonWait
  <2>2. CASE MonArm \/ MonDisarm
    BY <2>2 DEF MonArm, MonDisarm
  <2>3. CASE MonPosted \/ MonTimeout
    BY <2>3 DEF MonPosted, MonTimeout
  <2>4. CASE MonCheck
    BY <2>4 DEF MonCheck, Link!KeepQuiet
  <2>5. CASE MonSignal
    BY <2>5 DEF MonSignal, Link!SignalLost
  <2> QED
    BY <1>6, <2>1, <2>2, <2>3, <2>4, <2>5 DEF MonThread
<1>7. CASE SucThread
  <2> USE CountSame DEF SucOnly, linkVars, monVars, One, TInv
  <2>1. CASE SucWait
    BY <2>1 DEF SucWait
  <2>2. CASE SucCheck \/ SucState
    BY <2>2 DEF SucCheck, SucState
  <2>3. CASE SucPost
    BY <2>3 DEF SucPost
  <2>4. CASE SucSignal
    BY <2>4 DEF SucSignal, Link!SignalEstablished
  <2> QED
    BY <1>7, <2>1, <2>2, <2>3, <2>4 DEF SucThread
<1>8. CASE Rest \/ UNCHANGED vars
  BY <1>8, CountSame DEF Rest, vars, linkVars, statusVars, monVars, sucVars, outVars
<1> QED
  BY <1>1, <1>2, <1>3, <1>4, <1>5, <1>6, <1>7, <1>8 DEF Next
-----------------------------------------------------------------------------
(* What IntLink counts bounds the semaphores *)

Counted ==
  /\ EstOwed + semEst = losses + One(up)
  /\ LossOwed + semLost <= losses + One(~Fresh)

\* Each connection and each loss is signalled once at most: so it is in IntLink,
\* and each step is one of its steps.
LEMMA CountedStep == TInv /\ Order /\ Counted /\ [Next]_vars => Counted'
<1> SUFFICES ASSUME TInv, Order, Counted, [Next]_vars PROVE Counted'
  OBVIOUS
<1>1. /\ Count("lost") \in Nat /\ Count("connected") \in Nat
      /\ LossOwed \in Nat /\ EstOwed \in Nat
  <2>1. /\ callbacks \in Seq(Callback) /\ "lost" \in Callback
        /\ Count("lost") \in Nat /\ Count("connected") \in Nat
    BY OccursAppend DEF TInv, Callback, Count
  <2> QED
    BY <2>1 DEF LossOwed, EstOwed, One, TInv
<1>2. Link!Next \/ UNCHANGED Link!vars
  BY LinkStep
<1> USE <1>1 DEF Counted, TInv, One
<1>3. CASE UNCHANGED Link!vars
  BY <1>3 DEF Link!vars, LossOwed, EstOwed, FirstOwed, Fresh
<1>4. CASE Link!Establish
  <2>1. /\ ~up /\ up' = TRUE /\ ~Fresh'
        /\ EstOwed' = EstOwed + 1 /\ semEst' = semEst
        /\ LossOwed' = LossOwed /\ semLost' = semLost /\ losses' = losses
    BY <1>4, Zenon DEF Link!Establish, LossOwed, EstOwed, FirstOwed, Fresh
  <2> QED
    BY <2>1
<1>5. CASE Link!FirstFails
  BY <1>5 DEF Link!FirstFails, LossOwed, EstOwed, FirstOwed, Fresh
<1>6. CASE Link!Lose
  BY <1>6, SMTT(60) DEF Link!Lose, LossOwed, EstOwed, FirstOwed, Fresh
<1>7. CASE Link!SignalEstablished
  <2>1. /\ up' = up /\ Fresh' = Fresh
        /\ EstOwed > 0 /\ EstOwed' = EstOwed - 1 /\ semEst' = semEst + 1
        /\ LossOwed' = LossOwed /\ semLost' = semLost /\ losses' = losses
    BY <1>7, Zenon DEF Link!SignalEstablished, LossOwed, EstOwed, FirstOwed, Fresh
  <2> QED
    BY <2>1
<1>8. CASE Link!SignalLost
  BY <1>8, SMTT(60) DEF Link!SignalLost, LossOwed, EstOwed, FirstOwed, Fresh
<1>9. CASE Link!KeepQuiet
  BY <1>9, SMTT(60) DEF Link!KeepQuiet, LossOwed, EstOwed, FirstOwed, Fresh
<1> QED
  BY <1>2, <1>3, <1>4, <1>5, <1>6, <1>7, <1>8, <1>9 DEF Link!Next

Woken ==
  semToTimeOut + One(sucPc \in {"check", "state", "post"}) + semConnSuccess
    + Count("connected") <= losses + One(up)

\* The monitor is woken once at most for a connection.
LEMMA WokenStep == TInv /\ Woken /\ [Next]_vars => Woken'
<1> SUFFICES ASSUME TInv, Woken, [Next]_vars PROVE Woken'
  OBVIOUS
<1> USE DEF Woken, One, TInv
<1>1. CASE LinkUp
  BY <1>1, CountAppend DEF LinkUp, statusVars, sucVars, Callback
<1>2. CASE LinkLost
  BY <1>2, CountAppend DEF LinkLost, statusVars, sucVars, Callback
<1>3. CASE LinkFails
  BY <1>3, CountAppend DEF LinkFails, statusVars, sucVars, Callback
<1>4. CASE Connected
  BY <1>4, CountTail DEF Connected, CallbackDone, sucVars
<1>5. CASE Disconnected
  BY <1>5, CountTail DEF Disconnected, CallbackDone, sucVars
<1>6. CASE MonThread
  <2>1. UNCHANGED <<callbacks, losses, up, sucPc, semConnSuccess>>
    BY <1>6 DEF MonThread, MonWait, MonArm, MonPosted, MonTimeout, MonDisarm, MonCheck,
       MonSignal, MonOnly, linkVars, sucVars
  <2>2. CASE MonPosted
    BY <2>1, <2>2, CountSame DEF MonPosted
  <2>3. CASE UNCHANGED semToTimeOut
    BY <2>1, <2>3, CountSame
  <2> QED
    BY <1>6, <2>2, <2>3 DEF MonThread, MonWait, MonArm, MonTimeout, MonDisarm, MonCheck, MonSignal
<1>7. CASE SucThread
  <2> USE CountSame DEF SucOnly, linkVars
  <2>1. CASE SucWait
    BY <2>1 DEF SucWait
  <2>2. CASE SucCheck \/ SucState
    BY <2>2 DEF SucCheck, SucState
  <2>3. CASE SucPost
    BY <2>3 DEF SucPost
  <2>4. CASE SucSignal
    BY <2>4 DEF SucSignal
  <2> QED
    BY <1>7, <2>1, <2>2, <2>3, <2>4 DEF SucThread
<1>8. CASE Rest \/ UNCHANGED vars
  BY <1>8, CountSame DEF Rest, vars, linkVars, statusVars, sucVars
<1> QED
  BY <1>1, <1>2, <1>3, <1>4, <1>5, <1>6, <1>7, <1>8 DEF Next

-----------------------------------------------------------------------------
(* Theorems *)

IInv == TInv /\ Order /\ Counted /\ Woken

\* The invariant holds at the start.
LEMMA InitIInv == Init => IInv
<1> SUFFICES ASSUME Init PROVE IInv
  OBVIOUS
<1>1. callbacks = <<>> /\ Count("lost") = 0 /\ Count("connected") = 0
  <2>1. \A c : {i \in DOMAIN <<>> : <<>>[i] = c} = {}
    OBVIOUS
  <2> QED
    BY <2>1, FS_EmptySet DEF Init, Count, Occurs
<1>2. TInv
  <2>1. <<>> \in Seq(Callback) /\ 0 \in 0..MaxLosses /\ 0 \in 0..MaxFails
    BY MonitorAssumption
  <2> QED
    BY <2>1 DEF Init, TInv
<1>3. Order
  BY <1>1 DEF Init, Order, InTurn, Ends, Begins, Quiet
<1>4. Counted /\ Woken
  BY <1>1 DEF Init, Counted, Woken, EstOwed, LossOwed, FirstOwed, Fresh, One
<1> QED
  BY <1>2, <1>3, <1>4 DEF IInv

\* It bounds the semaphores.
LEMMA IInvTypeOK == IInv => TypeOK
<1> SUFFICES ASSUME IInv PROVE TypeOK
  OBVIOUS
<1>1. Count("lost") \in Nat /\ Count("connected") \in Nat
  <2>1. callbacks \in Seq(Callback) /\ "lost" \in Callback
    BY DEF IInv, TInv, Callback
  <2> QED
    BY <2>1, OccursAppend DEF Count
<1>2. EstOwed + semEst <= MaxLosses + 1 /\ LossOwed + semLost <= MaxLosses + 1
  <2>1. EstOwed \in Nat /\ LossOwed \in Nat
    BY <1>1 DEF IInv, TInv, One, LossOwed, EstOwed
  <2> QED
    BY <2>1, MonitorAssumption DEF IInv, Counted, TInv, One
<1>3. semToTimeOut <= MaxLosses + 1
  BY <1>1, MonitorAssumption DEF IInv, Woken, TInv, One
<1>4. /\ semConnSuccess \in Posts /\ semConnLost \in Posts /\ semToTimeOut \in Posts
      /\ semLost \in Posts /\ semEst \in Posts
  BY <1>1, <1>2, <1>3, MonitorAssumption DEF IInv, TInv, One, LossOwed, EstOwed, Posts
<1> QED
  BY <1>4 DEF IInv, TInv, TypeOK

\* The variables keep their types, and no semaphore is posted more often than
\* there were connections or losses (with the first failure), whatever the
\* library and the two threads interleave.
THEOREM TypeCorrect == Spec => []TypeOK
<1>1. IInv /\ [Next]_vars => IInv'
  BY TypeStep, OrderStep, CountedStep, WokenStep DEF IInv
<1> QED
  BY <1>1, InitIInv, IInvTypeOK, PTL DEF Spec

\* CIntMqttHandler does what SparkplugNode relies on: every connection is
\* signalled once, every loss once at most.
THEOREM LinkCorrect == Spec => LinkSpec
<1>1. IInv /\ [Next]_vars => IInv'
  BY TypeStep, OrderStep, CountedStep, WokenStep DEF IInv
<1>2. Init => Link!Init
  <2> SUFFICES ASSUME Init PROVE Link!Init
    OBVIOUS
  <2>1. Count("lost") = 0 /\ Count("connected") = 0
    <3>1. \A c : {i \in DOMAIN <<>> : <<>>[i] = c} = {}
      OBVIOUS
    <3> QED
      BY <3>1, FS_EmptySet DEF Init, Count, Occurs
  <2>2. (lastStatus = "none" /\ callbacks = <<>>) = TRUE
    BY Zenon DEF Init
  <2> QED
    BY <2>1, <2>2 DEF Init, Link!Init, One
<1>3. IInv /\ [Next]_vars => [Link!Next]_(Link!vars)
  BY LinkStep DEF IInv
<1> QED
  BY <1>1, <1>2, <1>3, InitIInv, PTL DEF Spec, LinkSpec, Link!Spec
=============================================================================
