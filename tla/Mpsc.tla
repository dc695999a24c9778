-------------------------------- MODULE Mpsc --------------------------------
(***************************************************************************)
(* MpscQueue (include/blazekv/mpsc.hpp) with the waker that posts use      *)
(* (Shard::post, Waker in src/net/reactor.cpp), one atomic operation or    *)
(* memory access a step.                                                   *)
(*                                                                         *)
(* Producers run push() and then notify(); the one consumer is the shard's *)
(* loop: wait, drain the waker, drain the queue.  A node's address may be  *)
(* handed out again as soon as it is deleted, while another producer still *)
(* holds it as the head it loaded.  The release / acquire pair on head_    *)
(* orders a node's fields before its publication, so memory is sequential  *)
(* here.                                                                   *)
(***************************************************************************)
EXTENDS Naturals, Sequences, FiniteSets

CONSTANTS Producers, Items,
          Addrs,      \* node addresses, reused after delete
          Null,       \* nullptr
          Spurious    \* may compare_exchange_weak fail for no reason

ASSUME MpscAssumption ==
    /\ IsFiniteSet(Addrs)
    /\ Null \notin Addrs
    /\ Spurious \in BOOLEAN

VARIABLES
  head_,     \* top of the producers' stack
  next,      \* Node::next, per address
  value,     \* Node::value, per address
  live,      \* addresses allocated and not deleted
  wake,      \* the eventfd counter is not zero
  pc,        \* where each producer stands in post()
  node,      \* each producer's new node
  head,      \* each producer's local `head`
  cpc,       \* where the consumer stands in its loop
  list,      \* drain(): the part of the batch still to reverse
  prev       \* drain(): the reversed part

vars == <<head_, next, value, live, wake, pc, node, head, cpc, list, prev>>

Init ==
    /\ head_ = Null
    /\ next  = [a \in Addrs |-> Null]
    /\ value = [a \in Addrs |-> Null]
    /\ live  = {}
    /\ wake  = FALSE
    /\ pc    = [p \in Producers |-> "idle"]
    /\ node  = [p \in Producers |-> Null]
    /\ head  = [p \in Producers |-> Null]
    /\ cpc   = "wait"
    /\ list  = Null
    /\ prev  = Null

-----------------------------------------------------------------------------
(* push() and notify().                                                    *)

\* new Node{nullptr, value}
NewNode(p) ==
    /\ pc[p] = "idle"
    /\ \E a \in Addrs \ live, x \in Items :
         /\ live'  = live \cup {a}
         /\ next'  = [next EXCEPT ![a] = Null]
         /\ value' = [value EXCEPT ![a] = x]
         /\ node'  = [node EXCEPT ![p] = a]
    /\ pc' = [pc EXCEPT ![p] = "load"]
    /\ UNCHANGED <<head_, wake, head, cpc, list, prev>>

LoadHead(p) ==
    /\ pc[p] = "load"
    /\ head' = [head EXCEPT ![p] = head_]
    /\ pc'   = [pc EXCEPT ![p] = "link"]
    /\ UNCHANGED <<head_, next, value, live, wake, node, cpc, list, prev>>

\* node->next = head
Link(p) ==
    /\ pc[p] = "link"
    /\ next' = [next EXCEPT ![node[p]] = head[p]]
    /\ pc'   = [pc EXCEPT ![p] = "cas"]
    /\ UNCHANGED <<head_, value, live, wake, node, head, cpc, list, prev>>

\* Mutant: the node is published by a plain store, whatever head_ is by now.
StoreHead(p) ==
    /\ pc[p] = "cas"
    /\ head_' = node[p]
    /\ pc'    = [pc EXCEPT ![p] = "notify"]
    /\ node'  = [node EXCEPT ![p] = Null]
    /\ head'  = [head EXCEPT ![p] = Null]
    /\ UNCHANGED <<next, value, live, wake, cpc, list, prev>>

\* Mutant: post() does not notify.
CasWithoutNotify(p) ==
    /\ pc[p] = "cas"
    /\ head_ = head[p]
    /\ head_' = node[p]
    /\ pc'    = [pc EXCEPT ![p] = "idle"]
    /\ node'  = [node EXCEPT ![p] = Null]
    /\ head'  = [head EXCEPT ![p] = Null]
    /\ UNCHANGED <<next, value, live, wake, cpc, list, prev>>

\* The node is published, and the locals of push() end here.
CasSucceeds(p) ==
    /\ pc[p] = "cas"
    /\ head_ = head[p]
    /\ head_' = node[p]
    /\ pc'    = [pc EXCEPT ![p] = "notify"]
    /\ node'  = [node EXCEPT ![p] = Null]
    /\ head'  = [head EXCEPT ![p] = Null]
    /\ UNCHANGED <<next, value, live, wake, cpc, list, prev>>

\* A failed exchange reloads the local head and goes round the loop.
CasFails(p) ==
    /\ pc[p] = "cas"
    /\ head_ # head[p] \/ Spurious
    /\ head' = [head EXCEPT ![p] = head_]
    /\ pc'   = [pc EXCEPT ![p] = "link"]
    /\ UNCHANGED <<head_, next, value, live, wake, node, cpc, list, prev>>

\* Waker::notify(), after push() in Shard::post()
Notify(p) ==
    /\ pc[p] = "notify"
    /\ wake' = TRUE
    /\ pc'   = [pc EXCEPT ![p] = "idle"]
    /\ UNCHANGED <<head_, next, value, live, node, head, cpc, list, prev>>

-----------------------------------------------------------------------------
(* The consumer.                                                           *)

\* The reactor reports the waker's descriptor.
WaitWoken ==
    /\ cpc = "wait"
    /\ wake
    /\ cpc' = "clear"
    /\ UNCHANGED <<head_, next, value, live, wake, pc, node, head, list, prev>>

\* The wait returns for another event, or after its 50 ms.
WaitOther ==
    /\ cpc = "wait"
    /\ cpc' = "exchange"
    /\ UNCHANGED <<head_, next, value, live, wake, pc, node, head, list, prev>>

\* Mutant: a wake-up is consumed without draining the queue.
ClearWakeOnly ==
    /\ cpc = "clear"
    /\ wake' = FALSE
    /\ cpc'  = "wait"
    /\ UNCHANGED <<head_, next, value, live, pc, node, head, list, prev>>

\* Waker::drain(), before the queue is drained
ClearWake ==
    /\ cpc = "clear"
    /\ wake' = FALSE
    /\ cpc'  = "exchange"
    /\ UNCHANGED <<head_, next, value, live, pc, node, head, list, prev>>

\* Mutant: the queue is read, not emptied.
ExchangeKeeping ==
    /\ cpc = "exchange"
    /\ list' = head_
    /\ cpc'  = IF head_ = Null THEN "wait" ELSE "reverse"
    /\ UNCHANGED <<head_, next, value, live, wake, pc, node, head, prev>>

\* list = head_.exchange(nullptr)
Exchange ==
    /\ cpc = "exchange"
    /\ list'  = head_
    /\ head_' = Null
    /\ cpc'   = IF head_ = Null THEN "wait" ELSE "reverse"
    /\ UNCHANGED <<next, value, live, wake, pc, node, head, prev>>

\* One turn of the reversal loop.
Reverse ==
    /\ cpc = "reverse"
    /\ list # Null
    /\ next' = [next EXCEPT ![list] = prev]
    /\ prev' = list
    /\ list' = next[list]
    /\ cpc'  = IF next[list] = Null THEN "run" ELSE "reverse"
    /\ UNCHANGED <<head_, value, live, wake, pc, node, head>>

\* Runs the callback on the oldest task and deletes its node, whose fields
\* nobody reads again before a new node is built there.
RunAndDelete ==
    /\ cpc = "run"
    /\ prev # Null
    /\ prev'  = next[prev]
    /\ live'  = live \ {prev}
    /\ next'  = [next EXCEPT ![prev] = Null]
    /\ value' = [value EXCEPT ![prev] = Null]
    /\ cpc'   = IF next[prev] = Null THEN "wait" ELSE "run"
    /\ UNCHANGED <<head_, wake, pc, node, head, list>>

Produce(p) ==
    NewNode(p) \/ LoadHead(p) \/ Link(p) \/ CasSucceeds(p) \/ CasFails(p) \/ Notify(p)

\* The steps of push() and notify() once started: a producer need not post.
Finish(p) ==
    LoadHead(p) \/ Link(p) \/ CasSucceeds(p) \/ CasFails(p) \/ Notify(p)

Consume == WaitWoken \/ ClearWake \/ Exchange \/ Reverse \/ RunAndDelete

Next == (\E p \in Producers : Produce(p)) \/ Consume \/ WaitOther

Spec == Init /\ [][Next]_vars

\* Every thread keeps running.  Nothing is assumed of the 50 ms time-out: the
\* waker alone has to bring the consumer to its queue.
FairSpec == Spec /\ WF_vars(Consume) /\ \A p \in Producers : WF_vars(Finish(p))

-----------------------------------------------------------------------------
(* Properties.                                                             *)

\* The values of the nodes linked from address a, at most n of them.
Linked[n \in 0 .. Cardinality(Addrs)] ==
    [a \in Addrs \cup {Null} |->
        IF n = 0 \/ a = Null THEN <<>> ELSE <<value[a]>> \o Linked[n - 1][next[a]]]

ValuesFrom(a) == Linked[Cardinality(Addrs)][a]
Reversed(s) == [i \in 1 .. Len(s) |-> s[Len(s) + 1 - i]]

\* Type invariant.
TypeOK ==
    /\ head_ \in Addrs \cup {Null}
    /\ next  \in [Addrs -> Addrs \cup {Null}]
    /\ value \in [Addrs -> Items \cup {Null}]
    /\ live \subseteq Addrs
    /\ wake \in BOOLEAN
    /\ pc   \in [Producers -> {"idle", "load", "link", "cas", "notify"}]
    /\ node \in [Producers -> Addrs \cup {Null}]
    /\ head \in [Producers -> Addrs \cup {Null}]
    /\ cpc  \in {"wait", "clear", "exchange", "reverse", "run"}
    /\ list \in Addrs \cup {Null}
    /\ prev \in Addrs \cup {Null}

AbstractMailbox == INSTANCE Mailbox WITH
    queue <- Reversed(ValuesFrom(head_)),
    batch <- Reversed(ValuesFrom(list)) \o ValuesFrom(prev)

\* The lock-free stack with take-all and reversal is a FIFO mailbox: a push
\* takes effect at its successful exchange, also when the head it loaded was
\* deleted and its address pushed again in between (ABA).
ImplementsMailbox == AbstractMailbox!Spec

\* Every node that is linked, or about to be, is allocated: the consumer never
\* runs and no producer ever publishes a deleted node, and none is leaked.
NoDanglingNode ==
    /\ TypeOK
    /\ head_ # Null => head_ \in live
    /\ list  # Null => list \in live
    /\ prev  # Null => prev \in live
    /\ \A p \in Producers : pc[p] \in {"load", "link", "cas"} => node[p] \in live
    /\ Len(ValuesFrom(head_)) + Len(ValuesFrom(list)) + Len(ValuesFrom(prev))
         + Cardinality({p \in Producers : pc[p] \in {"load", "link", "cas"}})
       = Cardinality(live)

\* A consumer that waits while tasks are queued has a wake-up coming.
NoLostWakeup ==
    cpc = "wait" /\ head_ # Null => wake \/ \E p \in Producers : pc[p] = "notify"

\* A posted task is taken without help from the 50 ms time-out.
PostedIsTaken == (head_ # Null) ~> (head_ = Null)
=============================================================================
