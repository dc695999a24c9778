------------------------------ MODULE Mailbox ------------------------------
(***************************************************************************)
(* What a shard's mailbox promises: any thread appends a task, the owning  *)
(* shard takes everything posted so far and runs it first in, first out.   *)
(* MpscQueue (module Mpsc) implements this; the mailboxes of module Shard  *)
(* are such queues by definition.                                          *)
(***************************************************************************)
EXTENDS Naturals, Sequences

CONSTANT Items

VARIABLES queue,   \* posted, not yet taken
          batch    \* taken by the current drain, not yet run

vars == <<queue, batch>>

Init == queue = <<>> /\ batch = <<>>

\* The queue grows by one item at its end.
Push ==
    /\ Len(queue') = Len(queue) + 1
    /\ queue' = Append(queue, queue'[Len(queue) + 1])
    /\ queue'[Len(queue) + 1] \in Items
    /\ UNCHANGED batch

Take ==
    /\ batch = <<>>
    /\ queue # <<>>
    /\ batch' = queue
    /\ queue' = <<>>

Run ==
    /\ batch # <<>>
    /\ batch' = Tail(batch)
    /\ UNCHANGED queue

Next == Push \/ Take \/ Run

Spec == Init /\ [][Next]_vars
=============================================================================
