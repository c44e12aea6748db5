----------------------------- MODULE BoundedFIFO -----------------------------
(***************************************************************************)
(* What an SPSC queue promises to main: a first-in first-out channel of    *)
(* bounded size.  Messages 0, 1, ..., NumMessages - 1 are pushed in order   *)
(* and leave in order; the channel never holds more than Bound of them.    *)
(***************************************************************************)
EXTENDS Naturals, Sequences

CONSTANTS Bound, NumMessages

VARIABLES queue,     \* the messages in the channel, oldest first
          sent,      \* how many messages have entered it
          received   \* the messages that have left it, in order

vars == <<queue, sent, received>>

Init == queue = <<>> /\ sent = 0 /\ received = <<>>

Push ==
    /\ sent < NumMessages
    /\ Len(queue) < Bound
    /\ queue' = Append(queue, sent)
    /\ sent' = sent + 1
    /\ UNCHANGED received

Pop ==
    /\ queue # <<>>
    /\ received' = Append(received, Head(queue))
    /\ queue' = Tail(queue)
    /\ UNCHANGED sent

Next == Push \/ Pop

Spec == Init /\ [][Next]_vars
==============================================================================
