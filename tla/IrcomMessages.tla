---------------------------- MODULE IrcomMessages ----------------------------
(***************************************************************************)
(* The queue of received messages of ircom/ircomMessages.c.  The timer     *)
(* interrupt pushes a message when a word is complete; a thread pops and   *)
(* flushes.  The interrupt is not preempted by the thread; the thread is   *)
(* preempted by the interrupt, between any two of its accesses to the      *)
(* volatile ircomData, so ++ and -- of the thread are a load and a store.  *)
(*                                                                         *)
(* The fields of a message are one value.                                  *)
(***************************************************************************)
EXTENDS Integers, Sequences

CONSTANTS Messages,     \* contents of a message
          NoMessage,    \* error = -1
          Capacity      \* IRCOM_MESSAGES_MAX

ASSUME CapacityAssumption == Capacity \in Nat \ {0}
ASSUME NoMessageAssumption == NoMessage \notin Messages

VARIABLES messages, messagesBegin, messagesEnd, messagesCount,
          pc, copy, load,   \* the thread: where it is, *msg, the value loaded
          msg,              \* what the last pop that returned put in *msg
          raced             \* history: an update was lost since the last flush

ring == <<messages, messagesBegin, messagesEnd, messagesCount>>
vars == <<ring, pc, copy, load, msg, raced>>

Slots == 0..(Capacity - 1)
Popping == {"copy", "loadBegin", "storeBegin", "loadCount", "storeCount"}
Flushing == {"flushBegin", "flushEnd"}

(* Wherever in a pop or a flush the interrupt pushes, no index leaves the  *)
(* array of ircomMessages.c, and the count neither wraps below zero (line  *)
(* 70) nor passes the capacity (line 50).                                  *)
TypeOK ==
    /\ messages \in [Slots -> Messages \union {NoMessage}]
    /\ messagesBegin \in Slots
    /\ messagesEnd \in Slots
    /\ messagesCount \in 0..Capacity
    /\ pc \in {"idle"} \union Popping \union Flushing
    /\ copy \in Messages \union {NoMessage}
    /\ load \in 0..Capacity
    /\ msg \in Messages \union {NoMessage}
    /\ raced \in BOOLEAN

Init ==
    /\ messages = [i \in Slots |-> NoMessage]
    /\ messagesBegin = 0 /\ messagesEnd = 0 /\ messagesCount = 0
    /\ pc = "idle" /\ copy = NoMessage /\ load = 0
    /\ msg = NoMessage /\ raced = FALSE

Succ(i) == (i + 1) % Capacity

(* Where the update of a push and that of the thread are made from the     *)
(* same old value: between the load and the store of the count, in a       *)
(* flush, and in a pop whenever the ring is full, because then the push    *)
(* moves the beginning too.                                                *)
Collides ==
    \/ pc \in Flushing \union {"storeCount"}
    \/ pc \in Popping /\ messagesCount = Capacity

\* mutant: a full queue does not drop its oldest message
PushKeepsBegin(m) ==
    /\ messages' = [messages EXCEPT ![messagesEnd] = m]
    /\ messagesEnd' = Succ(messagesEnd)
    /\ messagesCount' = IF messagesCount = Capacity THEN messagesCount ELSE messagesCount + 1
    /\ raced' = (raced \/ Collides)
    /\ UNCHANGED <<messagesBegin, pc, copy, load, msg>>

\* mutant: the count is not bounded
PushCountsOn(m) ==
    /\ messages' = [messages EXCEPT ![messagesEnd] = m]
    /\ messagesEnd' = Succ(messagesEnd)
    /\ messagesBegin' = IF messagesCount = Capacity THEN Succ(messagesBegin) ELSE messagesBegin
    /\ messagesCount' = messagesCount + 1
    /\ raced' = (raced \/ Collides)
    /\ UNCHANGED <<pc, copy, load, msg>>

\* ircomPushMessage, from the interrupt, wherever the thread is
Push(m) ==
    /\ messages' = [messages EXCEPT ![messagesEnd] = m]
    /\ messagesEnd' = Succ(messagesEnd)
    /\ IF messagesCount = Capacity
       THEN messagesBegin' = Succ(messagesBegin) /\ UNCHANGED messagesCount
       ELSE messagesCount' = messagesCount + 1 /\ UNCHANGED messagesBegin
    /\ raced' = (raced \/ Collides)
    /\ UNCHANGED <<pc, copy, load, msg>>

Goto(from, to) == pc = from /\ pc' = to

\* ircomPopMessage, in steps
PopEmpty ==
    /\ pc = "idle"
    /\ messagesCount = 0
    /\ msg' = NoMessage
    /\ UNCHANGED <<ring, pc, copy, load, raced>>

PopBegins ==
    /\ Goto("idle", "copy")
    /\ messagesCount # 0
    /\ UNCHANGED <<ring, copy, load, msg, raced>>

PopCopy ==
    /\ Goto("copy", "loadBegin")
    /\ copy' = messages[messagesBegin]
    /\ UNCHANGED <<ring, load, msg, raced>>

PopLoadBegin ==
    /\ Goto("loadBegin", "storeBegin")
    /\ load' = messagesBegin
    /\ UNCHANGED <<ring, copy, msg, raced>>

PopStoreBegin ==
    /\ Goto("storeBegin", "loadCount")
    /\ messagesBegin' = Succ(load)
    /\ UNCHANGED <<messages, messagesEnd, messagesCount, copy, load, msg, raced>>

PopLoadCount ==
    /\ Goto("loadCount", "storeCount")
    /\ load' = messagesCount
    /\ UNCHANGED <<ring, copy, msg, raced>>

\* mutant: the count is not decremented
PopKeepsCount ==
    /\ Goto("storeCount", "idle")
    /\ msg' = copy
    /\ copy' = NoMessage /\ load' = 0
    /\ UNCHANGED <<ring, raced>>

PopStoreCount ==
    /\ Goto("storeCount", "idle")
    /\ messagesCount' = load - 1
    /\ msg' = copy
    /\ copy' = NoMessage /\ load' = 0
    /\ UNCHANGED <<messages, messagesBegin, messagesEnd, raced>>

PopStep == PopCopy \/ PopLoadBegin \/ PopStoreBegin \/ PopLoadCount \/ PopStoreCount

\* ircomFlushMessages, from the thread that pops
FlushCount ==
    /\ Goto("idle", "flushBegin")
    /\ messagesCount' = 0
    /\ raced' = FALSE
    /\ UNCHANGED <<messages, messagesBegin, messagesEnd, copy, load, msg>>

FlushBegin ==
    /\ Goto("flushBegin", "flushEnd")
    /\ messagesBegin' = 0
    /\ UNCHANGED <<messages, messagesEnd, messagesCount, copy, load, msg, raced>>

FlushEnd ==
    /\ Goto("flushEnd", "idle")
    /\ messagesEnd' = 0
    /\ UNCHANGED <<messages, messagesBegin, messagesCount, copy, load, msg, raced>>

Flush == FlushCount \/ FlushBegin \/ FlushEnd

Next ==
    \/ \E m \in Messages : Push(m)
    \/ PopEmpty
    \/ PopBegins
    \/ PopStep
    \/ Flush

Spec == Init /\ [][Next]_vars

-----------------------------------------------------------------------------
(* The messages that are queued: a pop takes effect when it returns.       *)
Begin == IF pc \in {"loadCount", "storeCount"}
         THEN IF messagesBegin = 0 THEN Capacity - 1 ELSE messagesBegin - 1
         ELSE messagesBegin

queueBar == [i \in 1..messagesCount |-> messages[(Begin + i - 1) % Capacity]]

Queue == INSTANCE MessageQueue WITH queue <- queueBar

(* As long as no push collides with the thread, the ring is a queue:       *)
(* messages come out in order, once, and a full ring loses the oldest one  *)
(* and nothing else.  Every other push inside a pop (ircomMessages.c:54),  *)
(* before the copy, between the copy and the new beginning, between the    *)
(* new beginning and the load of the count, is harmless.                   *)
ImplementsQueue == Queue!Init /\ [][raced' \/ Queue!Next]_(Queue!vars)

(* ircomMessages.c:43: "if messages is full, new message deletes oldest    *)
(* one": the three indexes tell the same story.  Between two calls of the  *)
(* thread the end is the beginning plus the count, pushes inside the calls *)
(* included, as long as none of them collides.                             *)
RingConsistent ==
    pc = "idle" /\ ~raced =>
       \/ messagesEnd = messagesBegin + messagesCount
       \/ messagesEnd = messagesBegin + messagesCount - Capacity

(* Does not hold: ... whatever the interrupt does.  A push that collides   *)
(* is not counted (line 70), or its new beginning is overwritten (line     *)
(* 69), and nothing but a flush brings the indexes together again.         *)
AlwaysConsistent ==
    pc = "idle" =>
       \/ messagesEnd = messagesBegin + messagesCount
       \/ messagesEnd = messagesBegin + messagesCount - Capacity

-----------------------------------------------------------------------------
(* The inductive form of TypeOK: a pop decrements a count that is not zero *)
(* and advances a beginning that is one, even an old one.                  *)
CountInv ==
    /\ pc \in Popping => messagesCount > 0
    /\ pc = "storeBegin" => load \in Slots
    /\ pc = "storeCount" => load > 0

(* The inductive form of RingConsistent, during a pop and a flush too.     *)
RingInv ==
    ~raced =>
    /\ pc \notin Flushing =>
          \/ messagesEnd = Begin + messagesCount
          \/ messagesEnd = Begin + messagesCount - Capacity
    /\ pc \in Flushing => messagesCount = 0
    /\ pc = "flushEnd" => messagesBegin = 0
    /\ pc \in Popping \ {"copy"} => copy = messages[Begin]
    /\ pc = "storeBegin" => load = messagesBegin
    /\ pc = "storeCount" => load = messagesCount
=============================================================================
