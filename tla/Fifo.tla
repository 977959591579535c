-------------------------------- MODULE Fifo --------------------------------
(***************************************************************************)
(* What the pointer ring of rp_syn.c promises its users: buffers handed in *)
(* by several producers come out of one consumer's end in the order they   *)
(* were put, none lost, doubled or overwritten, and at most SIZE wait at   *)
(* any moment.  SynQueue is the ring itself; it implements this module.    *)
(***************************************************************************)
EXTENDS Naturals, Sequences

CONSTANTS
  Producer,  \* the threads that put buffers
  Data,      \* the buffers
  Null,      \* no buffer
  SIZE       \* how many buffers may wait

VARIABLES
  queue,     \* the buffers waiting, oldest first
  held,      \* held[p]: the buffer producer p is about to put
  got        \* the buffer the consumer has taken and not yet used

Init ==
  /\ queue = << >>
  /\ held = [p \in Producer |-> Null]
  /\ got = Null

Offer(p) ==
  /\ held[p] = Null
  /\ \E d \in Data : held' = [held EXCEPT ![p] = d]
  /\ UNCHANGED << queue, got >>

Put(p) ==
  /\ held[p] # Null
  /\ Len(queue) < SIZE
  /\ queue' = Append(queue, held[p])
  /\ held' = [held EXCEPT ![p] = Null]
  /\ UNCHANGED got

Get ==
  /\ got = Null
  /\ queue # << >>
  /\ got' = Head(queue)
  /\ queue' = Tail(queue)
  /\ UNCHANGED held

Use ==
  /\ got # Null
  /\ got' = Null
  /\ UNCHANGED << queue, held >>

Next ==
  \/ \E p \in Producer : Offer(p) \/ Put(p)
  \/ Get
  \/ Use

Spec == Init /\ [][Next]_<< queue, held, got >>

=============================================================================
