--------------------------- MODULE MessageChannel ---------------------------
(***************************************************************************)
(* What a TCP connection of sipped promises to the scenario: messages      *)
(* arrive whole and in the order of sending.  A connection that breaks     *)
(* loses some messages in a row, those the kernel had taken, and keeps the *)
(* order of the others, unless it tears one in two: nothing is promised    *)
(* after that.                                                             *)
(***************************************************************************)
EXTENDS Integers, Sequences

CONSTANT Messages

VARIABLES queue,     \* the messages on their way
          delivered, \* the last message that was received
          torn       \* whether a break has torn a message

vars == <<queue, delivered, torn>>

Init == queue = << >> /\ delivered = "none" /\ torn = FALSE

Send(m) == queue' = Append(queue, m) /\ UNCHANGED <<delivered, torn>>

Deliver == /\ queue # << >>
           /\ delivered' = Head(queue)
           /\ queue' = Tail(queue)
           /\ UNCHANGED torn

Break == /\ \E i, j \in 0..Len(queue) :
              /\ i <= j
              /\ queue' = SubSeq(queue, 1, i) \o SubSeq(queue, j + 1, Len(queue))
         /\ torn' \in BOOLEAN
         /\ UNCHANGED delivered

Next == \/ ~torn /\ ((\E m \in Messages : Send(m)) \/ Deliver \/ Break)
        \/ torn /\ torn'

Spec == Init /\ [][Next]_vars
=============================================================================
