---------------------------- MODULE FragmentFifo ----------------------------
(* What a media track promises the player, threads and slots left out: a     *)
(* bounded FIFO of fragments. Fragments enter in playlist order (0 stands    *)
(* for one without data) and leave in the same order, each delivered to the  *)
(* sink or dropped on the way, never kept back for a later one.              *)
EXTENDS Naturals, Sequences

CONSTANTS Capacity, NumFragments

VARIABLES queue, newest, delivered

vars == <<queue, newest, delivered>>

Init == queue = <<>> /\ newest = 0 /\ delivered = <<>>

\* The collector adds a fragment newer than every fragment before it.
Put(f) ==
    /\ Len(queue) < Capacity
    /\ f > newest
    /\ queue' = Append(queue, f)
    /\ newest' = f
    /\ UNCHANGED delivered

\* A download without data takes a place all the same.
PutEmpty ==
    /\ Len(queue) < Capacity
    /\ queue' = Append(queue, 0)
    /\ UNCHANGED <<newest, delivered>>

\* The injector hands the oldest fragment to the sink.
Deliver ==
    /\ queue # <<>> /\ Head(queue) # 0
    /\ delivered' = Append(delivered, Head(queue))
    /\ queue' = Tail(queue)
    /\ UNCHANGED newest

\* The fragment processor refuses it.
Drop ==
    /\ queue # <<>> /\ Head(queue) # 0
    /\ queue' = Tail(queue)
    /\ UNCHANGED <<newest, delivered>>

Next == (\E f \in 1 .. NumFragments : Put(f)) \/ PutEmpty \/ Deliver \/ Drop

Spec == Init /\ [][Next]_vars
=============================================================================
