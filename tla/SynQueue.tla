------------------------------ MODULE SynQueue ------------------------------
(***************************************************************************)
(* The pointer ring of nwm_misc/rp_syn.c as the reliable stream uses it    *)
(* (nwm_syn): the work threads put encoded packets with rp_syn_rel1, the   *)
(* kcp thread takes them with rp_syn_acq.  The mutex guards only pos_head  *)
(* and the store; the semaphore is released after the mutex, so a permit   *)
(* is not tied to the slot of the thread that released it, and the         *)
(* consumer takes no lock at all.  Neither end looks whether the ring is   *)
(* full: what keeps a producer off a slot still in use is that every       *)
(* packet costs a permit of SEG_MEM_SEM, given back only when the packet   *)
(* has been acknowledged.  (The few packets that finish a frame are paid   *)
(* for by SEG_MEM_TERM_SEM and have RP_ARQ_EXTRA_BUFS_COUNT slots of their *)
(* own; they are left out, as are those slots.)                            *)
(*                                                                         *)
(* The mutex wait times out every 100 ms and the callers retry; so does    *)
(* the consumer's wait.  Neither changes any state.                        *)
(***************************************************************************)
EXTENDS Integers, Sequences, FiniteSets

CONSTANTS
  Producer,   \* the work threads
  Data,       \* packet buffers
  Null,       \* the null pointer
  COUNT,      \* slots of the ring (syn1->count)
  SEG_COUNT   \* permits of SEG_MEM_SEM

ASSUME RingAssumption ==
  /\ IsFiniteSet(Producer)
  /\ Null \notin Data
  /\ COUNT \in Nat \ {0}
  /\ SEG_COUNT \in Nat /\ SEG_COUNT <= COUNT

NoOne == Null    \* the mutex is free

ASSUME NoOneAssumption == Null \notin Producer

VARIABLES
  sem,        \* count of syn1->sem
  mutex,      \* owner of syn1->mutex
  pos,        \* syn1->pos
  pos_head,   \* syn1->pos_head
  pos_tail,   \* syn1->pos_tail
  pc,         \* pc[p]: where producer p is
  buf,        \* buf[p]: the packet p is putting
  head,       \* head[p]: p's local copy of pos_head
  acq,        \* where the consumer is
  dst,        \* the packet the consumer took
  seg_sem,    \* count of SEG_MEM_SEM
  unacked     \* packets handed to ikcp and not yet acknowledged

vars == << sem, mutex, pos, pos_head, pos_tail, pc, buf, head, acq, dst,
           seg_sem, unacked >>

Slot == 0 .. COUNT - 1

TypeOK ==
  /\ sem \in 0 .. COUNT
  /\ mutex \in Producer \cup {NoOne}
  /\ pos \in [Slot -> Data \cup {Null}]
  /\ pos_head \in Slot
  /\ pos_tail \in Slot
  /\ pc \in [Producer -> {"encode", "lock", "store", "post"}]
  /\ buf \in [Producer -> Data \cup {Null}]
  /\ head \in [Producer -> Slot]
  /\ acq \in {"wait", "read", "clear", "queue"}
  /\ dst \in Data \cup {Null}
  /\ seg_sem \in 0 .. SEG_COUNT
  /\ unacked \in Nat

(* (i + 1) % count, for i < count *)
Wrapped(i) == IF i + 1 = COUNT THEN 0 ELSE i + 1

-----------------------------------------------------------------------------
(* rp_syn_init1 with init = 0: an empty ring and an empty semaphore.       *)
Init ==
  /\ sem = 0
  /\ mutex = NoOne
  /\ pos = [i \in Slot |-> Null]
  /\ pos_head = 0
  /\ pos_tail = 0
  /\ pc = [p \in Producer |-> "encode"]
  /\ buf = [p \in Producer |-> Null]
  /\ head = [p \in Producer |-> 0]
  /\ acq = "wait"
  /\ dst = Null
  /\ seg_sem = SEG_COUNT
  /\ unacked = 0

-----------------------------------------------------------------------------
(* The producer's side.                                                    *)

(* The buffer comes out of the pool before anything bounds the pool.       *)
Data_buf_malloc_unpaid(p) ==
  /\ pc[p] = "encode"
  /\ \E d \in Data : buf' = [buf EXCEPT ![p] = d]
  /\ pc' = [pc EXCEPT ![p] = "lock"]
  /\ UNCHANGED << sem, mutex, pos, pos_head, pos_tail, head, acq, dst,
                  seg_sem, unacked >>

(* rp_data_buf_malloc: a permit of SEG_MEM_SEM pays for the buffer the     *)
(* thread fills with a packet.                                             *)
Data_buf_malloc(p) ==
  /\ pc[p] = "encode"
  /\ seg_sem > 0
  /\ seg_sem' = seg_sem - 1
  /\ \E d \in Data : buf' = [buf EXCEPT ![p] = d]
  /\ pc' = [pc EXCEPT ![p] = "lock"]
  /\ UNCHANGED << sem, mutex, pos, pos_head, pos_tail, head, acq, dst,
                  unacked >>

(* The wait for the mutex left out, as in rp_syn_rel.                      *)
Rel1_lock_free(p) ==
  /\ pc[p] = "lock"
  /\ mutex' = p
  /\ head' = [head EXCEPT ![p] = pos_head]
  /\ pc' = [pc EXCEPT ![p] = "store"]
  /\ UNCHANGED << sem, pos, pos_head, pos_tail, buf, acq, dst, seg_sem,
                  unacked >>

(* rp_syn_rel1 gets the mutex and reads pos_head.                          *)
Rel1_lock(p) ==
  /\ pc[p] = "lock"
  /\ mutex = NoOne
  /\ mutex' = p
  /\ head' = [head EXCEPT ![p] = pos_head]
  /\ pc' = [pc EXCEPT ![p] = "store"]
  /\ UNCHANGED << sem, pos, pos_head, pos_tail, buf, acq, dst, seg_sem,
                  unacked >>

(* The mutex kept.                                                         *)
Rel1_store_locked(p) ==
  /\ pc[p] = "store"
  /\ pos' = [pos EXCEPT ![head[p]] = buf[p]]
  /\ pos_head' = Wrapped(head[p])
  /\ buf' = [buf EXCEPT ![p] = Null]
  /\ pc' = [pc EXCEPT ![p] = "post"]
  /\ UNCHANGED << sem, mutex, pos_tail, head, acq, dst, seg_sem, unacked >>

(* The store, the new pos_head and the release of the mutex.               *)
Rel1_store(p) ==
  /\ pc[p] = "store"
  /\ pos' = [pos EXCEPT ![head[p]] = buf[p]]
  /\ pos_head' = Wrapped(head[p])
  /\ mutex' = NoOne
  /\ buf' = [buf EXCEPT ![p] = Null]
  /\ pc' = [pc EXCEPT ![p] = "post"]
  /\ UNCHANGED << sem, pos_tail, head, acq, dst, seg_sem, unacked >>

(* rp_sem_rel: one more permit, refused at the maximum.                    *)
Rel1_post(p) ==
  /\ pc[p] = "post"
  /\ sem' = IF sem < COUNT THEN sem + 1 ELSE sem
  /\ pc' = [pc EXCEPT ![p] = "encode"]
  /\ UNCHANGED << mutex, pos, pos_head, pos_tail, buf, head, acq, dst,
                  seg_sem, unacked >>

-----------------------------------------------------------------------------
(* The consumer's side: rp_syn_acq and what becomes of the packet.         *)

(* A poll that takes the semaphore's word for granted.                     *)
Acq_wait_not ==
  /\ acq = "wait"
  /\ sem' = IF sem > 0 THEN sem - 1 ELSE 0
  /\ acq' = "read"
  /\ UNCHANGED << mutex, pos, pos_head, pos_tail, pc, buf, head, dst,
                  seg_sem, unacked >>

Acq_wait ==
  /\ acq = "wait"
  /\ sem > 0
  /\ sem' = sem - 1
  /\ acq' = "read"
  /\ UNCHANGED << mutex, pos, pos_head, pos_tail, pc, buf, head, dst,
                  seg_sem, unacked >>

Acq_read ==
  /\ acq = "read"
  /\ dst' = pos[pos_tail]
  /\ acq' = "clear"
  /\ UNCHANGED << sem, mutex, pos, pos_head, pos_tail, pc, buf, head,
                  seg_sem, unacked >>

Acq_clear ==
  /\ acq = "clear"
  /\ pos' = [pos EXCEPT ![pos_tail] = Null]
  /\ pos_tail' = Wrapped(pos_tail)
  /\ acq' = "queue"
  /\ UNCHANGED << sem, mutex, pos_head, pc, buf, head, dst, seg_sem,
                  unacked >>

(* The kcp thread hands the packet to ikcp_queue.                          *)
Queue ==
  /\ acq = "queue"
  /\ unacked' = unacked + 1
  /\ dst' = Null
  /\ acq' = "wait"
  /\ UNCHANGED << sem, mutex, pos, pos_head, pos_tail, pc, buf, head,
                  seg_sem >>

(* rp_data_buf_free: an acknowledged packet gives its permit back.         *)
Data_buf_free ==
  /\ unacked > 0
  /\ unacked' = unacked - 1
  /\ seg_sem' = seg_sem + 1
  /\ UNCHANGED << sem, mutex, pos, pos_head, pos_tail, pc, buf, head, acq,
                  dst >>

Rel1(p) == Rel1_lock(p) \/ Rel1_store(p) \/ Rel1_post(p)
Acq     == Acq_wait \/ Acq_read \/ Acq_clear \/ Queue

Next ==
  \/ \E p \in Producer : Data_buf_malloc(p) \/ Rel1(p)
  \/ Acq
  \/ Data_buf_free

(* The threads run on; a mutex held for two stores is got in the end       *)
(* because every timed out wait is repeated.                               *)
Fairness ==
  /\ \A p \in Producer : SF_vars(Rel1_lock(p))
                      /\ WF_vars(Rel1_store(p) \/ Rel1_post(p))
  /\ WF_vars(Acq)

Spec     == Init /\ [][Next]_vars
FairSpec == Spec /\ Fairness

-----------------------------------------------------------------------------
(* What the ring holds.                                                    *)

(* Number of slots in use, from the two positions and the slot at the      *)
(* tail, which tells a full ring from an empty one.                        *)
Fill ==
  IF pos_tail < pos_head THEN pos_head - pos_tail
  ELSE IF pos_head < pos_tail THEN COUNT - pos_tail + pos_head
  ELSE IF pos[pos_tail] = Null THEN 0 ELSE COUNT

(* The slot k places after the tail.                                       *)
At(k) == IF pos_tail + k < COUNT THEN pos_tail + k ELSE pos_tail + k - COUNT

Contents == [k \in 1 .. Fill |-> pos[At(k - 1)]]

-----------------------------------------------------------------------------
(* Properties.                                                             *)

(* The ring is the FIFO queue its users take it for: a store puts, a clear *)
(* gets.  Nothing is overwritten, skipped or delivered twice, although     *)
(* permits and slots are handed out in different orders.                   *)
Queued == INSTANCE Fifo WITH
  queue <- Contents,
  held  <- buf,
  got   <- IF acq = "queue" THEN dst ELSE Null,
  SIZE  <- COUNT

IsFifo == Queued!Spec

(* rp_syn_acq never returns -1: a permit means that the slot at the tail   *)
(* has been filled, whichever producer released it.  The kcp thread resets *)
(* the whole stream when it does.                                          *)
NeverNull == acq = "clear" => dst # Null

(* rp_syn_rel1 never writes over a packet that was not taken yet, though   *)
(* it does not look.                                                       *)
NeverOverwrites == \A p \in Producer : pc[p] = "store" => pos[head[p]] = Null

(* rp_sem_rel is never refused, so no stored packet is left without a      *)
(* permit to fetch it.                                                     *)
NeverRefused == \A p \in Producer : pc[p] = "post" => sem < COUNT

(* A packet a thread has encoded gets into the ring and the thread gets    *)
(* back to encoding: the ring never makes a producer wait for a slot.      *)
PutCompletes == \A p \in Producer : pc[p] = "lock" ~> pc[p] = "encode"

-----------------------------------------------------------------------------
(* The inductive invariant.                                                *)

Posting == {p \in Producer : pc[p] = "post"}
Putting == {p \in Producer : pc[p] \in {"lock", "store"}}

(* Used slots are exactly the Fill slots from the tail on.                 *)
SlotsInv == \A k \in Slot : pos[At(k)] # Null <=> k < Fill

(* Who is between lock and unlock owns the mutex and knows pos_head.       *)
MutexInv ==
  \A p \in Producer :
    /\ mutex = p <=> pc[p] = "store"
    /\ pc[p] = "store" => head[p] = pos_head
    /\ buf[p] # Null <=> pc[p] \in {"lock", "store"}

(* Every used slot has one permit: in the semaphore, about to be released, *)
(* or taken by the consumer that has not cleared the slot yet.             *)
PermitInv ==
  sem + Cardinality(Posting) + (IF acq \in {"read", "clear"} THEN 1 ELSE 0)
    = Fill

(* Every permit of SEG_MEM_SEM is accounted for.                           *)
CreditInv ==
  seg_sem + Cardinality(Putting) + Fill
    + (IF acq = "queue" THEN 1 ELSE 0) + unacked = SEG_COUNT

TakeInv ==
  /\ acq = "clear" => dst = pos[pos_tail]
  /\ acq = "queue" => dst # Null
  /\ acq \in {"wait", "read"} => dst = Null

(* Together: what links the ring's slots, its mutex, its semaphore and the *)
(* permits of SEG_MEM_SEM at every moment of rp_syn_rel1 and rp_syn_acq.   *)
Inv ==
  /\ TypeOK
  /\ SlotsInv
  /\ MutexInv
  /\ PermitInv
  /\ CreditInv
  /\ TakeInv

=============================================================================
