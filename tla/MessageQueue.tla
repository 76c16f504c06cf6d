---------------------------- MODULE MessageQueue ----------------------------
(***************************************************************************)
(* What the message queue of the infrared link promises: the messages are  *)
(* taken in the order they came, each at most once, and when the queue is  *)
(* full a new message deletes the oldest one.                              *)
(***************************************************************************)
EXTENDS Naturals, Sequences

CONSTANTS Messages, NoMessage, Capacity

VARIABLES queue, msg    \* msg: what the last pop returned

vars == <<queue, msg>>

Init == queue = <<>> /\ msg = NoMessage

Push(m) ==
    /\ queue' = Append(IF Len(queue) = Capacity THEN Tail(queue) ELSE queue, m)
    /\ UNCHANGED msg

Pop ==
    /\ queue # <<>>
    /\ msg' = Head(queue)
    /\ queue' = Tail(queue)

PopNothing ==
    /\ queue = <<>>
    /\ msg' = NoMessage
    /\ UNCHANGED queue

Flush == queue' = <<>> /\ UNCHANGED msg

Next == (\E m \in Messages : Push(m)) \/ Pop \/ PopNothing \/ Flush

Spec == Init /\ [][Next]_vars
=============================================================================
