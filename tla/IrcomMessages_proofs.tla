------------------------ MODULE IrcomMessages_proofs ------------------------
(***************************************************************************)
(* The ring of messages, with pushes anywhere in a pop or a flush: its     *)
(* indexes never leave the array, and it is a queue as long as no push     *)
(* collides with the thread, whatever its capacity and its messages.       *)
(***************************************************************************)
EXTENDS IrcomMessages, SequenceTheorems, TLAPS

(* The wrap around at the end of the array.                                *)
LEMMA SuccLemma ==
    ASSUME NEW i \in Slots
    PROVE  /\ Succ(i) \in Slots
           /\ Succ(i) = IF i = Capacity - 1 THEN 0 ELSE i + 1
BY SMT, CapacityAssumption DEF Succ, Slots

(* The inductive invariant: CountInv keeps the count from wrapping, RingInv *)
(* relates the three indexes also while a pop has stored its new beginning *)
(* and not yet its new count.                                              *)
Inv == TypeOK /\ CountInv /\ RingInv

LEMMA InitInv == Init => Inv
<1> SUFFICES ASSUME Init PROVE Inv
  OBVIOUS
<1>1. TypeOK
  <2>1. pc \in {"idle"} \union Popping \union Flushing /\ raced \in BOOLEAN
    BY DEF Init
  <2>2. messages \in [Slots -> Messages \union {NoMessage}]
    BY DEF Init
  <2> QED BY SMT, <2>1, <2>2, CapacityAssumption DEF Init, TypeOK, Slots
<1>2. CountInv
  BY DEF Init, CountInv, Popping
<1>3. RingInv
  BY SMT, CapacityAssumption DEF Init, RingInv, Begin, Popping, Flushing
<1> QED BY <1>1, <1>2, <1>3 DEF Inv

LEMMA NextInv == Inv /\ [Next]_vars => Inv'
<1> SUFFICES ASSUME Inv, [Next]_vars PROVE Inv'
  OBVIOUS
<1> USE CapacityAssumption DEF Inv, TypeOK, CountInv, Popping, Flushing
<1>1. ASSUME NEW m \in Messages, Push(m) PROVE Inv'
  <2>1. /\ Succ(messagesEnd) \in Slots
        /\ Succ(messagesEnd) = IF messagesEnd = Capacity - 1 THEN 0 ELSE messagesEnd + 1
        /\ Succ(messagesBegin) \in Slots
        /\ Succ(messagesBegin) = IF messagesBegin = Capacity - 1 THEN 0 ELSE messagesBegin + 1
    BY SuccLemma
  <2>2. TypeOK' /\ CountInv'
    BY SMT, <1>1, <2>1 DEF Push, Slots, Collides
  <2>3. RingInv'
    <3> SUFFICES ASSUME ~raced' PROVE RingInv'
      BY DEF RingInv
    <3>1. ~raced /\ ~Collides
      BY <1>1 DEF Push
    <3>2. /\ messagesEnd = Begin + messagesCount \/ messagesEnd = Begin + messagesCount - Capacity
          /\ Begin \in Slots /\ Begin' \in Slots
      BY SMT, <1>1, <2>1, <3>1 DEF Push, RingInv, Begin, Slots, Collides
    <3>3. pc \in Popping => messagesCount < Capacity /\ Begin' = Begin /\ messagesBegin' = messagesBegin
      BY SMT, <1>1, <3>1 DEF Push, Begin, Slots, Collides
    <3>4. \/ messagesEnd' = Begin' + messagesCount'
          \/ messagesEnd' = Begin' + messagesCount' - Capacity
      BY SMT, <1>1, <2>1, <3>1, <3>2 DEF Push, Begin, Slots, Collides
    <3>5. pc \in Popping => messages'[Begin'] = messages[Begin]
      <4>1. pc \in Popping => Begin # messagesEnd
        BY SMT, <3>2, <3>3 DEF Slots
      <4> QED BY <1>1, <3>2, <3>3, <4>1 DEF Push
    <3>6. pc' = pc /\ copy' = copy /\ load' = load /\ pc # "storeCount" /\ pc \notin Flushing
      BY <1>1, <3>1 DEF Push, Collides
    <3> QED BY <3>1, <3>3, <3>4, <3>5, <3>6 DEF RingInv
  <2> QED BY <2>2, <2>3
<1>2. ASSUME PopEmpty PROVE Inv'
  BY SMT, <1>2 DEF PopEmpty, RingInv, Begin, ring, Slots
<1>3. ASSUME PopBegins PROVE Inv'
  BY SMT, <1>3 DEF PopBegins, Goto, RingInv, Begin, ring, Slots
<1>4. ASSUME PopCopy PROVE Inv'
  BY SMT, <1>4 DEF PopCopy, Goto, RingInv, Begin, ring, Slots
<1>5. ASSUME PopLoadBegin PROVE Inv'
  BY SMT, <1>5 DEF PopLoadBegin, Goto, RingInv, Begin, ring, Slots
<1>6. ASSUME PopStoreBegin PROVE Inv'
  <2>1. load \in Slots /\ (~raced => load = messagesBegin)
    BY SMT, <1>6 DEF PopStoreBegin, Goto, RingInv
  <2>2. /\ messagesBegin' \in Slots
        /\ messagesBegin' = IF load = Capacity - 1 THEN 0 ELSE load + 1
    BY <1>6, <2>1, SuccLemma DEF PopStoreBegin
  <2> QED BY SMT, <1>6, <2>1, <2>2 DEF PopStoreBegin, Goto, RingInv, Begin, Slots
<1>7. ASSUME PopLoadCount PROVE Inv'
  BY SMT, <1>7 DEF PopLoadCount, Goto, RingInv, Begin, ring, Slots
<1>8. ASSUME PopStoreCount PROVE Inv'
  BY SMT, <1>8 DEF PopStoreCount, Goto, RingInv, Begin, Slots
<1>9. CASE Flush
  <2>1. CASE FlushCount
    <3>1. messagesCount' = 0 /\ pc' = "flushBegin" /\ raced' = FALSE
      BY <2>1 DEF FlushCount, Goto
    <3>2. TypeOK' /\ CountInv'
      <4>1. 0 \in 0..Capacity
        OBVIOUS
      <4>2. pc' \in Flushing /\ pc' \notin Popping /\ pc' # "storeBegin" /\ pc' # "storeCount"
        BY <3>1
      <4> HIDE DEF Popping, Flushing
      <4>3. /\ messages' = messages /\ messagesBegin' = messagesBegin /\ messagesEnd' = messagesEnd
            /\ copy' = copy /\ load' = load /\ msg' = msg
        BY <2>1 DEF FlushCount
      <4> QED BY Zenon, <3>1, <4>1, <4>2, <4>3
    <3>3. RingInv'
      BY <3>1 DEF RingInv
    <3> QED BY <3>2, <3>3
  <2>2. CASE FlushBegin
    BY SMT, <2>2 DEF FlushBegin, Goto, RingInv, Begin, Slots
  <2>3. CASE FlushEnd
    BY SMT, <2>3 DEF FlushEnd, Goto, RingInv, Begin, Slots
  <2> QED BY <1>9, <2>1, <2>2, <2>3 DEF Flush
<1>10. CASE UNCHANGED vars
  BY SMT, <1>10 DEF vars, ring, RingInv, Begin, Slots
<1> HIDE DEF Inv, TypeOK, CountInv, Popping, Flushing
<1> QED BY <1>1, <1>2, <1>3, <1>4, <1>5, <1>6, <1>7, <1>8, <1>9, <1>10 DEF Next, PopStep

(* ircomMessages.c: wherever in a pop or a flush the interrupt pushes, the *)
(* indexes stay in the array and the count neither wraps nor overflows.    *)
THEOREM RingTypeOK == Spec => []TypeOK
<1>1. Inv => TypeOK
  BY DEF Inv
<1> QED BY InitInv, NextInv, <1>1, PTL DEF Spec

(* ... and the indexes agree as long as no push fell between a load and    *)
(* the store that belongs to it, or on a full ring inside a pop.           *)
THEOREM RingConsistentTheorem == Spec => []RingConsistent
<1>1. Inv => RingConsistent
  BY DEF Inv, RingInv, RingConsistent, Begin, Flushing
<1> QED BY InitInv, NextInv, <1>1, PTL DEF Spec

-----------------------------------------------------------------------------
(* The ring as a sequence: n messages of f from the slot b on.             *)
Elements == Messages \union {NoMessage}
At(b, i) == IF b + i <= Capacity THEN b + i - 1 ELSE b + i - 1 - Capacity
View(f, b, n) == [i \in 1..n |-> f[(b + i - 1) % Capacity]]

LEMMA Wrap ==
    ASSUME NEW b \in Slots, NEW i \in 1..Capacity
    PROVE  /\ (b + i - 1) % Capacity = At(b, i)
           /\ At(b, i) \in Slots
BY SMT, CapacityAssumption DEF Slots, At

LEMMA ViewLemma ==
    ASSUME NEW f \in [Slots -> Elements], NEW b \in Slots, NEW n \in 0..Capacity
    PROVE  /\ View(f, b, n) \in Seq(Elements)
           /\ Len(View(f, b, n)) = n
           /\ \A i \in 1..n : View(f, b, n)[i] = f[At(b, i)]
<1>1. \A i \in 1..n : i \in 1..Capacity
  BY CapacityAssumption
<1>2. \A i \in 1..n : View(f, b, n)[i] = f[At(b, i)] /\ f[At(b, i)] \in Elements
  BY <1>1, Wrap DEF View
<1>3. View(f, b, n) \in [1..n -> Elements]
  BY <1>2 DEF View
<1>4. n \in Nat
  BY CapacityAssumption
<1>5. View(f, b, n) \in Seq(Elements) /\ Len(View(f, b, n)) = n
  BY <1>3, <1>4
<1> QED BY <1>2, <1>5

\* A pop takes the first message away.
LEMMA ViewTail ==
    ASSUME NEW f \in [Slots -> Elements], NEW b \in Slots, NEW n \in 1..Capacity
    PROVE  /\ View(f, b, n) # <<>>
           /\ Head(View(f, b, n)) = f[b]
           /\ View(f, Succ(b), n - 1) = Tail(View(f, b, n))
<1> DEFINE v == View(f, b, n)
           w == View(f, Succ(b), n - 1)
<1>1. n \in 0..Capacity /\ n - 1 \in 0..Capacity /\ n \in Nat /\ n > 0
  BY CapacityAssumption
<1>2. Succ(b) \in Slots
  BY SuccLemma
<1>3. v \in Seq(Elements) /\ Len(v) = n /\ \A i \in 1..n : v[i] = f[At(b, i)]
  BY <1>1, ViewLemma
<1>4. w \in Seq(Elements) /\ Len(w) = n - 1 /\ \A i \in 1..(n - 1) : w[i] = f[At(Succ(b), i)]
  BY <1>1, <1>2, ViewLemma
<1>5. At(b, 1) = b /\ \A i \in 1..(n - 1) : At(Succ(b), i) = At(b, i + 1) /\ i + 1 \in 1..n
  <2>1. Succ(b) = IF b = Capacity - 1 THEN 0 ELSE b + 1
    BY SuccLemma
  <2>2. At(b, 1) = b
    BY SMT, CapacityAssumption DEF At, Slots
  <2>3. ASSUME NEW i \in 1..(n - 1) PROVE At(Succ(b), i) = At(b, i + 1) /\ i + 1 \in 1..n
    BY SMT, <2>1, CapacityAssumption DEF At, Slots
  <2> QED BY <2>2, <2>3
<1> HIDE DEF v, w
<1>6. v # <<>>
  BY <1>1, <1>3, EmptySeq
<1>7. Head(v) = f[b]
  BY <1>1, <1>3, <1>5, <1>6
<1>8. Tail(v) \in Seq(Elements) /\ Len(Tail(v)) = n - 1 /\ \A i \in 1..(n - 1) : Tail(v)[i] = v[i + 1]
  BY <1>3, <1>6, HeadTailProperties
<1>9. \A i \in 1..(n - 1) : w[i] = Tail(v)[i]
  BY <1>3, <1>4, <1>5, <1>8
<1>10. w = Tail(v)
  BY <1>4, <1>8, <1>9, SeqEqual
<1> QED BY <1>6, <1>7, <1>10 DEF v, w

\* A push that finds a free slot writes behind the last message.
LEMMA ViewAppend ==
    ASSUME NEW f \in [Slots -> Elements], NEW b \in Slots, NEW n \in 0..(Capacity - 1),
           NEW m \in Elements
    PROVE  View([f EXCEPT ![At(b, n + 1)] = m], b, n + 1) = Append(View(f, b, n), m)
<1> DEFINE e == At(b, n + 1)
           g == [f EXCEPT ![e] = m]
           v == View(f, b, n)
           w == View(g, b, n + 1)
<1>1. n \in 0..Capacity /\ n + 1 \in 0..Capacity /\ n + 1 \in 1..Capacity /\ n \in Nat
  BY CapacityAssumption
<1>2. e \in Slots
  BY <1>1, Wrap
<1>3. g \in [Slots -> Elements]
  BY <1>2
<1>4. v \in Seq(Elements) /\ Len(v) = n /\ \A i \in 1..n : v[i] = f[At(b, i)]
  BY <1>1, ViewLemma
<1>5. w \in Seq(Elements) /\ Len(w) = n + 1 /\ \A i \in 1..(n + 1) : w[i] = g[At(b, i)]
  BY <1>1, <1>3, ViewLemma
<1>6. \A i \in 1..n : i \in 1..Capacity /\ At(b, i) # e
  BY <1>1, CapacityAssumption DEF At, Slots
<1>7. g[e] = m /\ \A i \in 1..n : g[At(b, i)] = f[At(b, i)]
  BY <1>2, <1>6, Wrap
<1> HIDE DEF v, w, g
<1>8. /\ Append(v, m) \in Seq(Elements) /\ Len(Append(v, m)) = n + 1
      /\ \A i \in 1..n : Append(v, m)[i] = v[i]
      /\ Append(v, m)[n + 1] = m
  BY <1>4, AppendProperties
<1>9. \A i \in 1..(n + 1) : w[i] = Append(v, m)[i]
  <2> TAKE i \in 1..(n + 1)
  <2>1. CASE i \in 1..n
    BY <1>4, <1>5, <1>7, <1>8, <2>1
  <2>2. CASE i = n + 1
    BY <1>5, <1>7, <1>8, <2>2 DEF e
  <2>3. i \in 1..n \/ i = n + 1
    BY SMT, <1>1
  <2> QED BY <2>1, <2>2, <2>3
<1>10. w = Append(v, m)
  BY <1>5, <1>8, <1>9, SeqEqual
<1> QED BY <1>10 DEF v, w, g, e

\* A push that finds the ring full writes over the first message.
LEMMA ViewFull ==
    ASSUME NEW f \in [Slots -> Elements], NEW b \in Slots, NEW m \in Elements
    PROVE  View([f EXCEPT ![b] = m], Succ(b), Capacity) = Append(Tail(View(f, b, Capacity)), m)
<1>1. Succ(b) \in Slots /\ At(Succ(b), Capacity) = b
  <2>1. Succ(b) \in Slots /\ Succ(b) = IF b = Capacity - 1 THEN 0 ELSE b + 1
    BY SuccLemma
  <2> QED BY SMT, <2>1, CapacityAssumption DEF At, Slots
<1>2. Capacity \in 1..Capacity /\ Capacity - 1 \in 0..(Capacity - 1) /\ (Capacity - 1) + 1 = Capacity
  BY CapacityAssumption
<1>3. Tail(View(f, b, Capacity)) = View(f, Succ(b), Capacity - 1)
  BY <1>2, ViewTail
<1>4. View([f EXCEPT ![At(Succ(b), (Capacity - 1) + 1)] = m], Succ(b), (Capacity - 1) + 1)
        = Append(View(f, Succ(b), Capacity - 1), m)
  BY <1>1, <1>2, ViewAppend
<1> QED BY <1>1, <1>2, <1>3, <1>4
-----------------------------------------------------------------------------
(* The steps of the ring are steps of the queue.                           *)
LEMMA BarLemma ==
    ASSUME Inv
    PROVE  /\ queueBar = View(messages, Begin, messagesCount)
           /\ messages \in [Slots -> Elements] /\ Begin \in Slots
           /\ messagesCount \in 0..Capacity
           /\ Len(queueBar) = messagesCount
           /\ messagesCount = 0 => queueBar = <<>>
<1>1. messages \in [Slots -> Elements] /\ messagesCount \in 0..Capacity
  BY DEF Inv, TypeOK, Elements
<1>2. Begin \in Slots
  BY SMT, CapacityAssumption DEF Inv, TypeOK, Begin, Slots
<1>3. queueBar = View(messages, Begin, messagesCount)
  BY DEF queueBar, View
<1>4. queueBar \in Seq(Elements) /\ Len(queueBar) = messagesCount
  BY <1>1, <1>2, <1>3, ViewLemma
<1>5. messagesCount = 0 => queueBar = <<>>
  BY <1>4, EmptySeq
<1> QED BY <1>1, <1>2, <1>3, <1>4, <1>5

LEMMA PushSimulation ==
    ASSUME Inv, ~raced', NEW m \in Messages, Push(m)
    PROVE  Queue!Push(m)
<1>1. ~raced /\ ~Collides /\ pc' = pc
  BY DEF Push
<1>2. /\ queueBar = View(messages, Begin, messagesCount)
      /\ messages \in [Slots -> Elements] /\ Begin \in Slots
      /\ messagesCount \in 0..Capacity /\ Len(queueBar) = messagesCount
  BY BarLemma
<1>3. queueBar' = View(messages', Begin', messagesCount')
  BY DEF queueBar, View
<1>4. m \in Elements
  BY DEF Elements
<1>5. messages' = [messages EXCEPT ![messagesEnd] = m] /\ msg' = msg
  BY DEF Push
<1>6. messagesEnd \in Slots
  BY DEF Inv, TypeOK
<1>7. \/ messagesEnd = Begin + messagesCount
      \/ messagesEnd = Begin + messagesCount - Capacity
  BY <1>1 DEF Inv, RingInv, Collides
<1>8. CASE messagesCount = Capacity
  <2>1. messagesBegin' = Succ(messagesBegin) /\ messagesCount' = Capacity
    BY <1>8 DEF Push
  <2>2. messagesEnd = Begin
    BY SMT, <1>2, <1>6, <1>7, <1>8, CapacityAssumption DEF Slots
  <2>3. Begin = messagesBegin /\ Begin' = messagesBegin'
    BY <1>1, <1>8 DEF Begin, Collides, Popping
  <2>4. queueBar' = Append(Tail(queueBar), m)
    BY <1>2, <1>3, <1>4, <1>5, <1>8, <2>1, <2>2, <2>3, ViewFull
  <2> QED BY <1>2, <1>5, <1>8, <2>4 DEF Queue!Push
<1>9. CASE messagesCount # Capacity
  <2>1. messagesBegin' = messagesBegin /\ messagesCount' = messagesCount + 1
    BY <1>9 DEF Push
  <2>2. messagesCount \in 0..(Capacity - 1)
    BY SMT, <1>2, <1>9, CapacityAssumption
  <2>3. messagesEnd = At(Begin, messagesCount + 1)
    BY SMT, <1>2, <1>6, <1>7, <2>2, CapacityAssumption DEF Slots, At
  <2>4. Begin' = Begin
    BY <1>1, <2>1 DEF Begin
  <2>5. queueBar' = Append(queueBar, m)
    BY <1>2, <1>3, <1>4, <1>5, <2>1, <2>2, <2>3, <2>4, ViewAppend
  <2> QED BY <1>2, <1>5, <1>9, <2>5 DEF Queue!Push
<1> QED BY <1>8, <1>9

LEMMA PopSimulation ==
    ASSUME Inv, ~raced, PopStoreCount
    PROVE  Queue!Pop
<1>1. /\ pc = "storeCount" /\ pc' = "idle" /\ messages' = messages
      /\ messagesBegin' = messagesBegin /\ msg' = copy
      /\ copy = messages[Begin] /\ load = messagesCount /\ messagesCount > 0
      /\ messagesCount' = load - 1
  BY DEF PopStoreCount, Goto, Inv, RingInv, CountInv, Popping
<1>2. /\ queueBar = View(messages, Begin, messagesCount)
      /\ messages \in [Slots -> Elements] /\ Begin \in Slots
      /\ messagesCount \in 0..Capacity
  BY BarLemma
<1>3. messagesCount \in 1..Capacity
  BY SMT, <1>1, <1>2, CapacityAssumption
<1>4. Begin' = Succ(Begin)
  <2>1. Begin' = messagesBegin
    BY <1>1 DEF Begin
  <2>2. Begin = IF messagesBegin = 0 THEN Capacity - 1 ELSE messagesBegin - 1
    BY <1>1 DEF Begin
  <2>3. Succ(Begin) = IF Begin = Capacity - 1 THEN 0 ELSE Begin + 1
    BY <1>2, SuccLemma
  <2>4. messagesBegin \in Slots
    BY DEF Inv, TypeOK
  <2> QED BY SMT, <2>1, <2>2, <2>3, <2>4, CapacityAssumption DEF Slots
<1>5. queueBar' = View(messages, Succ(Begin), messagesCount - 1)
  BY <1>1, <1>4 DEF queueBar, View
<1> QED BY <1>1, <1>2, <1>3, <1>5, ViewTail DEF Queue!Pop

\* Until it returns, a pop changes nothing of the queue.
LEMMA PopStutters ==
    ASSUME Inv, ~raced, PopBegins \/ PopCopy \/ PopLoadBegin \/ PopStoreBegin \/ PopLoadCount
    PROVE  UNCHANGED <<queueBar, msg>>
<1>1. messages' = messages /\ messagesCount' = messagesCount /\ msg' = msg
  BY DEF PopBegins, PopCopy, PopLoadBegin, PopStoreBegin, PopLoadCount, ring
<1>2. Begin' = Begin
  <2>1. CASE PopStoreBegin
    <3>1. pc = "storeBegin" /\ pc' = "loadCount" /\ load = messagesBegin /\ messagesBegin' = Succ(load)
      BY <2>1 DEF PopStoreBegin, Goto, Inv, RingInv
    <3>2. messagesBegin \in Slots
      BY DEF Inv, TypeOK
    <3>3. messagesBegin' = IF messagesBegin = Capacity - 1 THEN 0 ELSE messagesBegin + 1
      BY <3>1, <3>2, SuccLemma
    <3> QED BY SMT, <3>1, <3>2, <3>3, CapacityAssumption DEF Begin, Slots
  <2>2. CASE PopBegins \/ PopCopy \/ PopLoadBegin \/ PopLoadCount
    BY <2>2 DEF PopBegins, PopCopy, PopLoadBegin, PopLoadCount, Goto, ring, Begin
  <2> QED BY <2>1, <2>2
<1> QED BY <1>1, <1>2 DEF queueBar

LEMMA StepSimulation ==
    ASSUME Inv, ~raced', [Next]_vars
    PROVE  [Queue!Next]_(Queue!vars)
<1>1. CASE \E m \in Messages : Push(m)
  BY <1>1, PushSimulation DEF Queue!Next
<1>2. CASE PopEmpty
  <2>1. messagesCount = 0 /\ msg' = NoMessage /\ queueBar' = queueBar
    BY <1>2 DEF PopEmpty, queueBar, Begin, ring
  <2>2. queueBar = <<>>
    BY <2>1, BarLemma
  <2> QED BY <2>1, <2>2 DEF Queue!Next, Queue!PopNothing
<1>3. CASE PopBegins \/ PopCopy \/ PopLoadBegin \/ PopStoreBegin \/ PopLoadCount
  <2>1. ~raced
    BY <1>3 DEF PopBegins, PopCopy, PopLoadBegin, PopStoreBegin, PopLoadCount
  <2> QED BY <1>3, <2>1, PopStutters DEF Queue!vars
<1>4. CASE PopStoreCount
  <2>1. ~raced
    BY <1>4 DEF PopStoreCount
  <2> QED BY <1>4, <2>1, PopSimulation DEF Queue!Next
<1>5. CASE FlushCount
  <2>1. messagesCount' = 0 /\ msg' = msg
    BY <1>5 DEF FlushCount
  <2>2. queueBar' = [i \in 1..0 |-> messages'[(Begin' + i - 1) % Capacity]]
    BY <2>1 DEF queueBar
  <2>3. queueBar' = <<>>
    BY <2>2
  <2> QED BY <2>1, <2>3 DEF Queue!Next, Queue!Flush
<1>6. CASE FlushBegin \/ FlushEnd
  <2>1. messagesCount = 0 /\ messagesCount' = 0 /\ msg' = msg
    BY <1>6 DEF FlushBegin, FlushEnd, Goto, Inv, RingInv, Flushing
  <2>2. queueBar = [i \in 1..0 |-> messages[(Begin + i - 1) % Capacity]]
        /\ queueBar' = [i \in 1..0 |-> messages'[(Begin' + i - 1) % Capacity]]
    BY <2>1 DEF queueBar
  <2>3. queueBar = <<>> /\ queueBar' = <<>>
    BY <2>2
  <2> QED BY <2>1, <2>3 DEF Queue!vars
<1>7. CASE UNCHANGED vars
  BY <1>7 DEF vars, ring, queueBar, Begin, Queue!vars
<1> QED BY <1>1, <1>2, <1>3, <1>4, <1>5, <1>6, <1>7 DEF Next, PopStep, Flush

(* ircomMessages.c: pushes, pops and flushes are those of a queue that     *)
(* keeps the last messages, in order, each to be popped once, for every    *)
(* capacity and at every place the ring may begin, up to the first push    *)
(* that collides with the thread and again from the next flush on.         *)
THEOREM QueueTheorem == Spec => ImplementsQueue
<1>1. Init => Queue!Init
  <2> SUFFICES ASSUME Init PROVE Queue!Init
    OBVIOUS
  <2>1. queueBar = <<>>
    BY InitInv, BarLemma DEF Init
  <2> QED BY <2>1 DEF Init, Queue!Init
<1>2. Inv /\ [Next]_vars => [raced' \/ Queue!Next]_(Queue!vars)
  BY StepSimulation
<1> QED BY InitInv, NextInv, <1>1, <1>2, PTL DEF Spec, ImplementsQueue
=============================================================================
