--------------------------- MODULE SynQueueProofs ---------------------------
(***************************************************************************)
(* The ring of SynQueue for any number of producers and any sizes: Inv is  *)
(* inductive, the ring never reads an empty slot, never overwrites a full  *)
(* one and never loses a permit, and it implements Fifo.                   *)
(*                                                                         *)
(* The argument is counting.  Fill is what the positions say is in the     *)
(* ring; SlotsInv says the slots agree.  PermitInv ties Fill to the        *)
(* permits, so a consumer with a permit finds Fill > 0; CreditInv ties it  *)
(* to SEG_MEM_SEM, so a producer with a packet finds Fill < COUNT.         *)
(***************************************************************************)
EXTENDS SynQueue, FiniteSetTheorems, TLAPS

-----------------------------------------------------------------------------
(* Counting.                                                               *)

(* Subsets of the producers can be counted.                                *)
LEMMA Counted ==
  ASSUME NEW S \in SUBSET Producer
  PROVE  /\ IsFiniteSet(S)
         /\ Cardinality(S) \in Nat
         /\ S # {} => Cardinality(S) > 0
<1>1. IsFiniteSet(S)
  BY RingAssumption, FS_Subset
<1>2. Cardinality(S) \in Nat
  BY <1>1, FS_CardinalityType
<1>3. Cardinality(S) = 0 <=> S = {}
  BY <1>1, FS_EmptySet
<1> QED
  BY <1>1, <1>2, <1>3

(* One producer more.                                                      *)
LEMMA OneMore ==
  ASSUME NEW S \in SUBSET Producer, NEW p \in Producer, p \notin S
  PROVE  Cardinality(S \cup {p}) = Cardinality(S) + 1
BY Counted, FS_AddElement

(* One producer less.                                                      *)
LEMMA OneLess ==
  ASSUME NEW S \in SUBSET Producer, NEW p \in S
  PROVE  Cardinality(S \ {p}) = Cardinality(S) - 1
BY Counted, FS_RemoveElement

-----------------------------------------------------------------------------
(* The ring.                                                               *)

(* Fill is a number of slots.                                              *)
LEMMA FillType ==
  ASSUME TypeOK
  PROVE  Fill \in 0 .. COUNT
BY RingAssumption DEF TypeOK, Fill, Slot

(* A store at the head of a ring that is not full writes an empty slot and *)
(* makes Fill one more.                                                    *)
LEMMA StoreFills ==
  ASSUME TypeOK, SlotsInv, Fill < COUNT,
         NEW d \in Data,
         pos' = [pos EXCEPT ![pos_head] = d],
         pos_head' = Wrapped(pos_head),
         pos_tail' = pos_tail
  PROVE  /\ pos[pos_head] = Null
         /\ Fill' = Fill + 1
         /\ SlotsInv'
         /\ pos_head = At(Fill)
<1> USE RingAssumption
<1>0. Fill \in 0 .. COUNT
  BY FillType
<1>1. pos_head = At(Fill)
  BY <1>0 DEF TypeOK, Fill, At, Slot
<1>2. pos[pos_head] = Null
  BY <1>0, <1>1 DEF SlotsInv, Slot
<1>t. Fill > 0 => pos[pos_tail] # Null
  <2>1. At(0) = pos_tail /\ 0 \in Slot
    BY DEF TypeOK, Slot, At
  <2> QED BY <2>1, <1>0 DEF SlotsInv
<1>p. /\ pos'[pos_head] # Null
      /\ \A i \in Slot : i # pos_head => pos'[i] = pos[i]
  <2>1. pos \in [Slot -> Data \cup {Null}] /\ pos_head \in Slot /\ d # Null
    BY DEF TypeOK
  <2> QED BY <2>1
<1>3. Fill' = Fill + 1
  BY <1>0, <1>2, <1>t, <1>p DEF TypeOK, Fill, Slot, Wrapped
<1>4. \A k \in Slot : At(k)' = At(k) /\ At(k) \in Slot /\ (At(k) = At(Fill) <=> k = Fill)
  BY <1>0 DEF TypeOK, At, Slot
<1>5. SlotsInv'
  <2> SUFFICES ASSUME NEW k \in Slot PROVE pos'[At(k)] # Null <=> k < Fill + 1
    BY <1>3, <1>4 DEF SlotsInv, Slot
  <2>1. CASE k = Fill
    BY <2>1, <1>0, <1>1, <1>4 DEF TypeOK, Slot
  <2>2. CASE k # Fill
    <3>1. pos'[At(k)] = pos[At(k)]
      BY <2>2, <1>1, <1>4, <1>p
    <3> QED BY <3>1, <2>2, <1>0 DEF SlotsInv, Slot
  <2> QED BY <2>1, <2>2
<1> QED BY <1>1, <1>2, <1>3, <1>5

(* Clearing the tail of a ring that is not empty makes Fill one less.      *)
LEMMA ClearDrains ==
  ASSUME TypeOK, SlotsInv, Fill > 0,
         pos' = [pos EXCEPT ![pos_tail] = Null],
         pos_tail' = Wrapped(pos_tail),
         pos_head' = pos_head
  PROVE  /\ Fill' = Fill - 1
         /\ SlotsInv'
<1> USE RingAssumption
<1>0. Fill \in 0 .. COUNT
  BY FillType
<1>1. At(0) = pos_tail
  BY DEF TypeOK, At, Slot
<1>2. COUNT > 1 => pos[Wrapped(pos_tail)] = pos[At(1)] /\ (pos[At(1)] # Null <=> 1 < Fill)
  BY DEF TypeOK, At, Slot, Wrapped, SlotsInv
<1>3. Fill' = Fill - 1
  BY <1>0, <1>2 DEF TypeOK, Fill, Slot, Wrapped
<1>4. \A k \in Slot : /\ At(k)' \in Slot
                      /\ k + 1 < COUNT => At(k)' = At(k + 1) /\ At(k)' # pos_tail
                      /\ k + 1 = COUNT => At(k)' = pos_tail
  BY DEF TypeOK, At, Slot, Wrapped
<1>5. SlotsInv'
  <2> SUFFICES ASSUME NEW k \in Slot PROVE pos'[At(k)'] # Null <=> k < Fill - 1
    BY <1>3 DEF SlotsInv, Slot
  <2>1. CASE k + 1 = COUNT
    BY <2>1, <1>0, <1>4 DEF TypeOK, Slot
  <2>2. CASE k + 1 < COUNT
    <3>1. pos'[At(k)'] = pos[At(k + 1)]
      BY <2>2, <1>4 DEF TypeOK
    <3>2. k + 1 \in Slot
      BY <2>2 DEF Slot
    <3> QED BY <3>1, <3>2, <1>0 DEF SlotsInv, Slot
  <2> QED BY <2>1, <2>2 DEF Slot
<1> QED BY <1>3, <1>5

(* Whatever leaves the ring alone leaves its contents alone.               *)
LEMMA RingAlone ==
  ASSUME UNCHANGED << pos, pos_head, pos_tail >>
  PROVE  /\ Fill' = Fill
         /\ SlotsInv' <=> SlotsInv
         /\ Contents' = Contents
BY DEF Fill, SlotsInv, Contents, At

-----------------------------------------------------------------------------
(* The inductive invariant.                                                *)

(* A producer with a packet has room for it: its permit of SEG_MEM_SEM is  *)
(* not among those the ring's packets hold.                                *)
LEMMA HasRoom ==
  ASSUME Inv, NEW p \in Producer, pc[p] \in {"lock", "store"}
  PROVE  Fill < COUNT
<1>1. Cardinality(Putting) \in Nat /\ Cardinality(Putting) > 0
  BY Counted DEF Putting
<1>2. Fill \in 0 .. COUNT
  BY FillType DEF Inv
<1> QED
  BY <1>1, <1>2, RingAssumption DEF Inv, CreditInv, TypeOK

(* A consumer with a permit has a packet to take.                          *)
LEMMA HasPacket ==
  ASSUME Inv, acq \in {"read", "clear"}
  PROVE  Fill > 0 /\ pos[pos_tail] # Null
<1>1. Cardinality(Posting) \in Nat
  BY Counted DEF Posting
<1>2. Fill \in 0 .. COUNT
  BY FillType DEF Inv
<1>3. Fill > 0
  BY <1>1, <1>2, RingAssumption DEF Inv, PermitInv, TypeOK
<1>4. At(0) = pos_tail /\ 0 \in Slot
  BY RingAssumption DEF Inv, TypeOK, Slot, At
<1> QED
  BY <1>3, <1>4 DEF Inv, SlotsInv

(* An empty ring with all permits at home satisfies the invariant.         *)
LEMMA InitInv == Init => Inv
<1> SUFFICES ASSUME Init PROVE Inv
  OBVIOUS
<1> USE RingAssumption, NoOneAssumption DEF Init
<1>1. TypeOK
  BY DEF TypeOK, Slot, NoOne
<1>2. Fill = 0
  BY DEF Fill, Slot
<1>3. SlotsInv
  BY <1>2 DEF SlotsInv, Slot, At
<1>4. MutexInv
  BY DEF MutexInv, NoOne
<1>5. Posting = {} /\ Putting = {}
  BY DEF Posting, Putting
<1>6. PermitInv /\ CreditInv
  BY <1>2, <1>5, FS_EmptySet DEF PermitInv, CreditInv
<1>7. TakeInv
  BY DEF TakeInv
<1> QED
  BY <1>1, <1>3, <1>4, <1>6, <1>7 DEF Inv

(* A permit of SEG_MEM_SEM becomes a packet in the making.                 *)
LEMMA MallocInv ==
  ASSUME Inv, NEW p \in Producer, Data_buf_malloc(p)
  PROVE  Inv'
<1> USE RingAssumption, NoOneAssumption DEF Inv, Data_buf_malloc
<1>1. TypeOK'
  BY DEF TypeOK
<1>2. Fill' = Fill /\ SlotsInv'
  BY RingAlone
<1>3. MutexInv'
  BY DEF MutexInv, TypeOK
<1>4. Posting' = Posting /\ Putting' = Putting \cup {p} /\ p \notin Putting
  BY DEF Posting, Putting, TypeOK
<1>5. Cardinality(Putting') = Cardinality(Putting) + 1 /\ Cardinality(Putting) \in Nat
  BY <1>4, OneMore, Counted DEF Putting
<1>6. PermitInv'
  BY <1>2, <1>4 DEF PermitInv
<1>7. CreditInv'
  BY <1>2, <1>5, FillType DEF CreditInv, TypeOK
<1>8. TakeInv'
  BY DEF TakeInv
<1> QED
  BY <1>1, <1>2, <1>3, <1>6, <1>7, <1>8

(* Taking the mutex.                                                       *)
LEMMA LockInv ==
  ASSUME Inv, NEW p \in Producer, Rel1_lock(p)
  PROVE  Inv'
<1> USE RingAssumption, NoOneAssumption DEF Inv, Rel1_lock
<1>1. TypeOK'
  BY DEF TypeOK
<1>2. Fill' = Fill /\ SlotsInv'
  BY RingAlone
<1>3. MutexInv'
  BY DEF MutexInv, TypeOK, NoOne
<1>4. Posting' = Posting /\ Putting' = Putting
  BY DEF Posting, Putting, TypeOK
<1>5. PermitInv' /\ CreditInv'
  BY <1>2, <1>4 DEF PermitInv, CreditInv
<1>6. TakeInv'
  BY DEF TakeInv
<1> QED
  BY <1>1, <1>2, <1>3, <1>5, <1>6

(* The store: a packet in the making becomes one in the ring, its permit   *)
(* still to be released.                                                   *)
LEMMA StoreInv ==
  ASSUME Inv, NEW p \in Producer, Rel1_store(p)
  PROVE  Inv'
<1> USE RingAssumption, NoOneAssumption DEF Inv, Rel1_store
<1>0. /\ head[p] = pos_head
      /\ buf[p] \in Data
      /\ Fill < COUNT
  BY HasRoom DEF MutexInv, TypeOK
<1>1. TypeOK'
  BY <1>0 DEF TypeOK, Wrapped, Slot
<1>2. Fill' = Fill + 1 /\ SlotsInv' /\ pos[pos_head] = Null
  BY <1>0, StoreFills
<1>3. MutexInv'
  BY DEF MutexInv, TypeOK, NoOne
<1>4. /\ Posting' = Posting \cup {p} /\ p \notin Posting
      /\ Putting' = Putting \ {p} /\ p \in Putting
  BY DEF Posting, Putting, TypeOK
<1>5. /\ Cardinality(Posting') = Cardinality(Posting) + 1
      /\ Cardinality(Putting') = Cardinality(Putting) - 1
      /\ Cardinality(Posting) \in Nat /\ Cardinality(Putting) \in Nat
  BY <1>4, OneMore, OneLess, Counted DEF Posting, Putting
<1>6. PermitInv'
  BY <1>2, <1>5, FillType DEF PermitInv, TypeOK
<1>7. CreditInv'
  BY <1>2, <1>5, FillType DEF CreditInv, TypeOK
<1>8. TakeInv'
  <2>1. acq = "clear" => pos[pos_tail] # Null
    BY HasPacket
  <2> QED
    BY <2>1, <1>0, <1>2 DEF TakeInv, TypeOK
<1> QED
  BY <1>1, <1>2, <1>3, <1>6, <1>7, <1>8

(* The release of the semaphore, which is never refused.                   *)
LEMMA PostInv ==
  ASSUME Inv, NEW p \in Producer, Rel1_post(p)
  PROVE  Inv' /\ sem < COUNT
<1> USE RingAssumption, NoOneAssumption DEF Inv, Rel1_post
<1>4. /\ Posting' = Posting \ {p} /\ p \in Posting
      /\ Putting' = Putting
  BY DEF Posting, Putting, TypeOK
<1>5. /\ Cardinality(Posting') = Cardinality(Posting) - 1
      /\ Cardinality(Posting) \in Nat /\ Cardinality(Posting) > 0
  BY <1>4, OneLess, Counted DEF Posting
<1>0. sem < COUNT
  BY <1>5, FillType DEF PermitInv, TypeOK
<1>1. TypeOK'
  BY <1>0 DEF TypeOK
<1>2. Fill' = Fill /\ SlotsInv'
  BY RingAlone
<1>3. MutexInv'
  BY DEF MutexInv, TypeOK
<1>6. PermitInv'
  BY <1>0, <1>2, <1>5, FillType DEF PermitInv, TypeOK
<1>7. CreditInv'
  BY <1>2, <1>4 DEF CreditInv
<1>8. TakeInv'
  BY DEF TakeInv
<1> QED
  BY <1>0, <1>1, <1>2, <1>3, <1>6, <1>7, <1>8

(* The consumer's steps, and the acknowledgement of a packet.              *)
LEMMA AcqInv ==
  ASSUME Inv, Acq \/ Data_buf_free
  PROVE  Inv'
<1> USE RingAssumption, NoOneAssumption DEF Inv
<1>p. /\ Posting' = Posting /\ Putting' = Putting
      /\ Cardinality(Posting) \in Nat /\ Cardinality(Putting) \in Nat
      /\ Fill \in 0 .. COUNT
  BY Counted, FillType
     DEF Posting, Putting, Acq, Acq_wait, Acq_read, Acq_clear, Queue, Data_buf_free
<1>m. MutexInv'
  BY DEF MutexInv, Acq, Acq_wait, Acq_read, Acq_clear, Queue, Data_buf_free
<1>1. CASE Acq_wait
  <2>1. Fill' = Fill /\ SlotsInv'
    BY <1>1, RingAlone DEF Acq_wait
  <2>2. TypeOK' /\ TakeInv'
    BY <1>1 DEF Acq_wait, TypeOK, TakeInv
  <2>3. PermitInv' /\ CreditInv'
    BY <1>1, <1>p, <2>1 DEF Acq_wait, PermitInv, CreditInv, TypeOK
  <2> QED BY <1>m, <2>1, <2>2, <2>3
<1>2. CASE Acq_read
  <2>1. Fill' = Fill /\ SlotsInv'
    BY <1>2, RingAlone DEF Acq_read
  <2>2. TypeOK' /\ TakeInv'
    BY <1>2 DEF Acq_read, TypeOK, TakeInv
  <2>3. PermitInv' /\ CreditInv'
    BY <1>2, <1>p, <2>1 DEF Acq_read, PermitInv, CreditInv, TypeOK
  <2> QED BY <1>m, <2>1, <2>2, <2>3
<1>3. CASE Acq_clear
  <2>0. Fill > 0 /\ pos[pos_tail] # Null
    BY <1>3, HasPacket DEF Acq_clear
  <2>1. Fill' = Fill - 1 /\ SlotsInv'
    BY <1>3, <2>0, ClearDrains DEF Acq_clear
  <2>2. TypeOK' /\ TakeInv'
    BY <1>3, <2>0 DEF Acq_clear, TypeOK, TakeInv, Wrapped, Slot
  <2>3. PermitInv' /\ CreditInv'
    BY <1>3, <1>p, <2>1 DEF Acq_clear, PermitInv, CreditInv, TypeOK
  <2> QED BY <1>m, <2>1, <2>2, <2>3
<1>4. CASE Queue
  <2>1. Fill' = Fill /\ SlotsInv'
    BY <1>4, RingAlone DEF Queue
  <2>2. TypeOK' /\ TakeInv'
    BY <1>4 DEF Queue, TypeOK, TakeInv
  <2>3. PermitInv' /\ CreditInv'
    BY <1>4, <1>p, <2>1 DEF Queue, PermitInv, CreditInv, TypeOK
  <2> QED BY <1>m, <2>1, <2>2, <2>3
<1>5. CASE Data_buf_free
  <2>1. Fill' = Fill /\ SlotsInv'
    BY <1>5, RingAlone DEF Data_buf_free
  <2>2. TypeOK' /\ TakeInv'
    BY <1>5, <1>p DEF Data_buf_free, TypeOK, TakeInv, CreditInv
  <2>3. PermitInv' /\ CreditInv'
    BY <1>5, <1>p, <2>1 DEF Data_buf_free, PermitInv, CreditInv, TypeOK
  <2> QED BY <1>m, <2>1, <2>2, <2>3
<1> QED
  BY <1>1, <1>2, <1>3, <1>4, <1>5 DEF Acq

(* Every step of the ring's users preserves the invariant.                 *)
LEMMA NextInv == Inv /\ [Next]_vars => Inv'
<1> SUFFICES ASSUME Inv, [Next]_vars PROVE Inv'
  OBVIOUS
<1>1. ASSUME NEW p \in Producer, Data_buf_malloc(p) \/ Rel1(p) PROVE Inv'
  BY <1>1, MallocInv, LockInv, StoreInv, PostInv DEF Rel1
<1>2. CASE Acq \/ Data_buf_free
  BY <1>2, AcqInv
<1>3. CASE UNCHANGED vars
  BY <1>3 DEF vars, Inv, TypeOK, SlotsInv, MutexInv, PermitInv, CreditInv, TakeInv,
              Fill, At, Posting, Putting
<1> QED
  BY <1>1, <1>2, <1>3 DEF Next

(* The invariant of the ring, whatever the number of producers, slots and  *)
(* permits.                                                                *)
THEOREM RingInvariant == Spec => []Inv
BY InitInv, NextInv, PTL DEF Spec

(* A permit always finds a packet, a packet always finds an empty slot,    *)
(* and the semaphore never refuses a permit.                               *)
THEOREM RingSafe == Spec => [](NeverNull /\ NeverOverwrites /\ NeverRefused)
<1>1. Inv => NeverNull
  BY HasPacket DEF NeverNull, Inv, TakeInv
<1>2. Inv => NeverOverwrites
  <2> SUFFICES ASSUME Inv, NEW p \in Producer, pc[p] = "store"
               PROVE  pos[head[p]] = Null
    BY DEF NeverOverwrites
  <2>1. Fill \in 0 .. COUNT /\ Fill < COUNT
    BY HasRoom, FillType DEF Inv
  <2>2. pos_head = At(Fill) /\ Fill \in Slot
    BY <2>1, RingAssumption DEF Inv, TypeOK, Fill, At, Slot
  <2> QED
    BY <2>1, <2>2 DEF Inv, SlotsInv, MutexInv, Slot
<1>3. Inv => NeverRefused
  <2> SUFFICES ASSUME Inv, NEW p \in Producer, pc[p] = "post"
               PROVE  sem < COUNT
    BY DEF NeverRefused
  <2>1. Cardinality(Posting) \in Nat /\ Cardinality(Posting) > 0
    BY Counted DEF Posting
  <2> QED
    BY <2>1, FillType, RingAssumption DEF Inv, PermitInv, TypeOK
<1> QED
  BY <1>1, <1>2, <1>3, RingInvariant, PTL

(* rp_syn_acq: the consumer that has a permit never reads an empty slot.   *)
THEOREM ConsumerFindsPacket == Spec => []NeverNull
BY RingSafe, PTL

-----------------------------------------------------------------------------
(* The ring implements the queue.                                          *)

(* Contents is a sequence of Fill packets.                                 *)
LEMMA ContentsSeq ==
  ASSUME TypeOK
  PROVE  /\ Contents \in Seq(Data \cup {Null})
         /\ Len(Contents) = Fill
         /\ \A k \in 1 .. Fill : Contents[k] = pos[At(k - 1)]
<1>1. Fill \in 0 .. COUNT
  BY FillType
<1>2. \A k \in 1 .. Fill : At(k - 1) \in Slot
  BY <1>1, RingAssumption DEF TypeOK, At, Slot
<1>3. Contents \in [1 .. Fill -> Data \cup {Null}]
  BY <1>2 DEF Contents, TypeOK
<1> QED
  BY <1>1, <1>3, RingAssumption DEF Contents

(* A store appends to the contents.                                        *)
LEMMA StoreAppends ==
  ASSUME Inv, Inv', NEW p \in Producer, Rel1_store(p)
  PROVE  Contents' = Append(Contents, buf[p])
<1> DEFINE new == Append(Contents, buf[p])
<1>0. /\ head[p] = pos_head
      /\ buf[p] \in Data
      /\ Fill < COUNT
      /\ Fill \in 0 .. COUNT
  BY HasRoom, FillType DEF Inv, MutexInv, TypeOK, Rel1_store
<1>1. Fill' = Fill + 1 /\ pos_head = At(Fill)
  BY <1>0, StoreFills DEF Rel1_store, Inv
<1>2. /\ Contents \in Seq(Data \cup {Null}) /\ Len(Contents) = Fill
      /\ \A k \in 1 .. Fill : Contents[k] = pos[At(k - 1)]
  BY ContentsSeq DEF Inv
<1>3. Contents' = [k \in 1 .. Fill + 1 |-> pos'[At(k - 1)]]
  BY <1>1 DEF Contents, At, Rel1_store
<1>4. \A k \in 1 .. Fill + 1 : pos'[At(k - 1)] = new[k]
  <2> SUFFICES ASSUME NEW k \in 1 .. Fill + 1 PROVE pos'[At(k - 1)] = new[k]
    OBVIOUS
  <2>1. At(k - 1) \in Slot /\ (At(k - 1) = At(Fill) <=> k = Fill + 1)
    BY <1>0, RingAssumption DEF Inv, TypeOK, At, Slot
  <2>2. pos \in [Slot -> Data \cup {Null}] /\ pos' = [pos EXCEPT ![pos_head] = buf[p]]
    BY <1>0 DEF Inv, TypeOK, Rel1_store
  <2>3. pos'[At(k - 1)] = IF k = Fill + 1 THEN buf[p] ELSE pos[At(k - 1)]
    BY <1>1, <2>1, <2>2
  <2>4. new[k] = IF k = Fill + 1 THEN buf[p] ELSE Contents[k]
    BY <1>0, <1>2
  <2> QED
    BY <2>3, <2>4, <1>0, <1>2
<1>5. new \in Seq(Data \cup {Null}) /\ Len(new) = Fill + 1
  BY <1>0, <1>2
<1>6. new = [k \in 1 .. Fill + 1 |-> new[k]]
  BY <1>5
<1> HIDE DEF new
<1>7. Contents' = new
  BY <1>3, <1>4, <1>6
<1> QED
  BY <1>7 DEF new

(* A clear takes the head off the contents, and it is the packet read.     *)
LEMMA ClearTakes ==
  ASSUME Inv, Inv', Acq_clear
  PROVE  /\ Contents # << >>
         /\ dst = Head(Contents)
         /\ Contents' = Tail(Contents)
<1> DEFINE new == Tail(Contents)
<1>0. Fill > 0 /\ Fill \in 0 .. COUNT /\ dst = pos[pos_tail]
  BY HasPacket, FillType DEF Inv, Acq_clear, TakeInv
<1>1. Fill' = Fill - 1
  BY <1>0, ClearDrains DEF Acq_clear, Inv
<1>2. /\ Contents \in Seq(Data \cup {Null}) /\ Len(Contents) = Fill
      /\ \A k \in 1 .. Fill : Contents[k] = pos[At(k - 1)]
  BY ContentsSeq DEF Inv
<1>3. Contents # << >>
  BY <1>0, <1>2
<1>4. dst = Head(Contents)
  <2>1. At(1 - 1) = pos_tail
    BY RingAssumption DEF Inv, TypeOK, At, Slot
  <2>2. Contents[1] = pos[pos_tail]
    BY <2>1, <1>0, <1>2
  <2> QED BY <1>0, <1>2, <1>3, <2>2
<1>5. Contents' = [k \in 1 .. Fill - 1 |-> pos'[At(k - 1)']]
  BY <1>1 DEF Contents
<1>6. \A k \in 1 .. Fill - 1 : pos'[At(k - 1)'] = new[k]
  <2> SUFFICES ASSUME NEW k \in 1 .. Fill - 1 PROVE pos'[At(k - 1)'] = new[k]
    OBVIOUS
  <2>1. At(k) \in Slot /\ At(k) # pos_tail /\ At(k - 1)' = At(k)
    <3>1. pos_tail \in Slot /\ pos_tail' = Wrapped(pos_tail)
      BY DEF Inv, TypeOK, Acq_clear
    <3>2. k \in 1 .. COUNT - 1
      BY <1>0, RingAssumption
    <3> QED
      BY <3>1, <3>2, RingAssumption DEF At, Slot, Wrapped
  <2>2. pos \in [Slot -> Data \cup {Null}] /\ pos' = [pos EXCEPT ![pos_tail] = Null]
    BY DEF Inv, TypeOK, Acq_clear
  <2>3. pos'[At(k - 1)'] = pos[At(k)]
    BY <2>1, <2>2
  <2>4. k + 1 \in 1 .. Fill /\ (k + 1) - 1 = k
    BY <1>0
  <2>5. Contents[k + 1] = pos[At(k)]
    BY <1>2, <2>4
  <2>6. new[k] = Contents[k + 1]
    BY <1>0, <1>2, <1>3
  <2> QED
    BY <2>3, <2>5, <2>6
<1>7. new \in Seq(Data \cup {Null}) /\ Len(new) = Fill - 1
  BY <1>0, <1>2, <1>3
<1> HIDE DEF new
<1>8. new = [k \in 1 .. Fill - 1 |-> new[k]]
  BY <1>7
<1>9. Contents' = new
  BY <1>5, <1>6, <1>8
<1> QED
  BY <1>3, <1>4, <1>9 DEF new

(* The ring of rp_syn.c implements the FIFO queue its users take it for.   *)
THEOREM RingIsFifo == Spec => IsFifo
<1>1. Init => Queued!Init
  <2> SUFFICES ASSUME Init PROVE Queued!Init
    OBVIOUS
  <2>1. Fill = 0
    BY RingAssumption DEF Init, Fill, Slot
  <2>2. Contents = << >>
    BY <2>1, InitInv, ContentsSeq DEF Inv
  <2> QED
    BY <2>2 DEF Init, Queued!Init
<1>2. Inv /\ Inv' /\ [Next]_vars =>
        [Queued!Next]_<< Contents, buf, IF acq = "queue" THEN dst ELSE Null >>
  <2> SUFFICES ASSUME Inv, Inv', [Next]_vars
               PROVE  [Queued!Next]_<< Contents, buf, IF acq = "queue" THEN dst ELSE Null >>
    OBVIOUS
  <2>1. ASSUME NEW p \in Producer, Data_buf_malloc(p) PROVE Queued!Offer(p)
    BY <2>1, RingAlone DEF Data_buf_malloc, Queued!Offer, Inv, MutexInv
  <2>2. ASSUME NEW p \in Producer, Rel1_lock(p)
        PROVE  UNCHANGED << Contents, buf, IF acq = "queue" THEN dst ELSE Null >>
    BY <2>2, RingAlone DEF Rel1_lock
  <2>3. ASSUME NEW p \in Producer, Rel1_store(p) PROVE Queued!Put(p)
    <3>1. Contents' = Append(Contents, buf[p])
      BY <2>3, StoreAppends
    <3>2. Len(Contents) < COUNT /\ buf[p] # Null
      BY <2>3, HasRoom, ContentsSeq DEF Rel1_store, Inv, MutexInv
    <3> QED
      BY <2>3, <3>1, <3>2 DEF Rel1_store, Queued!Put
  <2>4. ASSUME NEW p \in Producer, Rel1_post(p)
        PROVE  UNCHANGED << Contents, buf, IF acq = "queue" THEN dst ELSE Null >>
    BY <2>4, RingAlone DEF Rel1_post
  <2>5. ASSUME Acq_wait \/ Acq_read \/ Data_buf_free
        PROVE  UNCHANGED << Contents, buf, IF acq = "queue" THEN dst ELSE Null >>
    BY <2>5, RingAlone DEF Acq_wait, Acq_read, Data_buf_free
  <2>6. ASSUME Acq_clear PROVE Queued!Get
    BY <2>6, ClearTakes DEF Acq_clear, Queued!Get
  <2>7. ASSUME Queue PROVE Queued!Use
    BY <2>7, RingAlone DEF Queue, Queued!Use, Inv, TakeInv
  <2>8. ASSUME UNCHANGED vars
        PROVE  UNCHANGED << Contents, buf, IF acq = "queue" THEN dst ELSE Null >>
    BY <2>8, RingAlone DEF vars
  <2> QED
    BY <2>1, <2>2, <2>3, <2>4, <2>5, <2>6, <2>7, <2>8
       DEF Next, Rel1, Acq, Queued!Next
<1> QED
  BY <1>1, <1>2, RingInvariant, PTL DEF Spec, IsFifo, Queued!Spec

=============================================================================
