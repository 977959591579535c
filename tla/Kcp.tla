--------------------------------- MODULE Kcp ---------------------------------
(***************************************************************************)
(* The reliable stream: the send buffers the work threads fill, the queue  *)
(* to the kcp thread, the segments ikcp sends, sends again and frees when  *)
(* the receiver's negative acknowledgements no longer name them, over a    *)
(* network that loses packets, and loses, delays, reorders and repeats     *)
(* acknowledgements.                                                       *)
(*                                                                         *)
(* The receiver is external: it acknowledges with the truth about what it  *)
(* has at that moment.  A buffer is a unit of its pool.  Time is left out: *)
(* the kcp thread's two second limit runs out when nothing more can        *)
(* happen.  Congestion control only changes the pace and is left out.      *)
(*                                                                         *)
(* Packet ids are compared modulo 2^PID_NBITS and nothing in the code      *)
(* keeps the ids in use together (CHECK_PID is compiled out).  MAX_SPAN    *)
(* and the loss of acknowledgements that have become too old are the two   *)
(* assumptions under which the comparisons are meaningful.                 *)
(***************************************************************************)
EXTENDS Naturals, Sequences, FiniteSets, SequencesExt, TLC

CONSTANTS
  PID_SPACE,       \* 2^PID_NBITS
  FID_SPACE,       \* 2^FID_NBITS
  RSND_COUNT,
  WINDOW,          \* n_snd_max, and the permits of SEG_MEM_SEM
  EXTRA,           \* buffers of send_pool beyond the permits
  TERM_PERMITS,    \* permits of SEG_MEM_TERM_SEM
  MAX_TERMS,       \* terms of a frame: RP_CORE_COUNT_MAX + 1
  AUDIO_BUFS,
  INTERVAL,        \* fec_send_intervals
  CUR_BUFS,        \* SEND_CUR_BUFS_COUNT
  MAX_SPAN,        \* bound: packet ids from the oldest unreceived to the next
  MAX_ACKS,        \* bound: acknowledgements on their way
  MAX_LOSS         \* bound: packets the network loses

ASSUME KcpAssumption ==
  /\ PID_SPACE \in Nat /\ PID_SPACE % 4 = 0
  /\ FID_SPACE \in Nat \ {0} /\ FID_SPACE % 2 = 0
  /\ RSND_COUNT \in Nat \ {0} /\ MAX_TERMS \in Nat \ {0}
  /\ WINDOW \in 1 .. PID_SPACE \div 4
  /\ MAX_SPAN \in 1 .. PID_SPACE - PID_SPACE \div 4
  /\ {EXTRA, TERM_PERMITS, AUDIO_BUFS, INTERVAL, CUR_BUFS, MAX_ACKS,
      MAX_LOSS} \subseteq Nat

Quarter == PID_SPACE \div 4

VARIABLES
  (* work threads: control, and the frame's terms still to be queued       *)
  wpc,
  (* send_pool, SEG_MEM_SEM, SEG_MEM_TERM_SEM; free audio buffers          *)
  pool, sem, term_sem, audio_free,
  (* nwm_syn; packets in the audio queue *)
  nwm_syn, audio_syn,
  (* kcp thread: control, can_queue and send_delay of its first look       *)
  kpc, can_queue, send_delay,
  (* ikcpcb: next ids, n_snd, session state and the lists; snd_cur maps    *)
  (* the send slots from now on to segments (wsn is the gap between two)   *)
  pid, fid, n_snd, established, new_data, snd_lst, rsnd, snd_cur, snd_wak,
  reset,
  (* receiver: packet ids in use it has not got, the id after the highest  *)
  (* it has; the open fec groups.  The network: acknowledgements, losses   *)
  missing, high, groups, acks, losses

work == <<wpc, pool, sem, term_sem, audio_free>>
syns == <<nwm_syn, audio_syn>>
look == <<can_queue, send_delay>>
ids  == <<pid, fid, n_snd>>
lists == <<snd_lst, rsnd, snd_cur, snd_wak>>
net  == <<missing, high, groups, acks, losses>>

vars == <<work, syns, kpc, look, ids, established, new_data, lists, reset,
          net>>

NoDelay == [some |-> FALSE, slot |-> 0]  \* a negative return value

Init ==
  /\ wpc = "sem"
  /\ pool = WINDOW + EXTRA /\ sem = WINDOW /\ term_sem = TERM_PERMITS
  /\ audio_free = AUDIO_BUFS
  /\ nwm_syn = << >> /\ audio_syn = 0
  /\ kpc = "ready" /\ can_queue = FALSE /\ send_delay = NoDelay
  /\ pid = 0 /\ fid = 0 /\ n_snd = 0
  /\ established = FALSE /\ new_data = FALSE
  /\ snd_lst = << >> /\ rsnd = [i \in 1 .. RSND_COUNT |-> << >>]
  /\ snd_cur = << >> /\ snd_wak = << >>
  /\ reset = FALSE
  /\ missing = {} /\ high = 0 /\ groups = {}
  /\ acks = {} /\ losses = 0

-----------------------------------------------------------------------------
(***************************************************************************)
(* The work threads: data packets of a frame, then its terms.              *)
(***************************************************************************)

(* rp_data_buf_malloc: the wait for a permit, and rp_term_data_buf_malloc  *)
(* after it, whose failure resets the threads.  In between the other       *)
(* threads only give buffers back.                                         *)
Rp_data_buf_malloc ==
  /\ wpc = "sem" /\ ~reset
  /\ sem > 0
  /\ sem' = sem - 1
  /\ IF pool = 0 THEN reset' = TRUE /\ UNCHANGED <<pool, wpc>>
     ELSE pool' = pool - 1 /\ wpc' = "fill" /\ UNCHANGED reset
  /\ UNCHANGED <<term_sem, audio_free, syns, kpc, look, ids, established,
                 new_data, lists, net>>

(* rp_send_buffer of a full buffer, which then waits for another one. *)
Rp_send_buffer ==
  /\ wpc = "fill" /\ ~reset
  /\ nwm_syn' = Append(nwm_syn, [kind |-> "data"])
  /\ wpc' = "sem"
  /\ UNCHANGED <<pool, sem, term_sem, audio_free, audio_syn, kpc, look, ids,
                 established, new_data, lists, reset, net>>

(* set_term_dst at the end of the frame, and send_term_dsts up to the first*)
(* term.                                                                   *)
Set_term_dst ==
  /\ wpc = "fill" /\ ~reset
  /\ term_sem > 0
  /\ term_sem' = term_sem - 1
  /\ wpc' = "term"
  /\ UNCHANGED <<pool, sem, audio_free, syns, kpc, look, ids, established,
                 new_data, lists, reset, net>>

(* The rest of the frame is copied into as many terms as it takes, the     *)
(* buffer it was in is freed, and the terms are queued; the last one, with *)
(* term_notify set, gives the permit back when it is sent.                 *)
Term(last) == [kind |-> IF last THEN "last" ELSE "term"]

Send_term_dsts_kept ==
  /\ wpc = "term" /\ ~reset
  /\ \E n \in 1 .. MAX_TERMS :
       IF pool < n THEN reset' = TRUE /\ UNCHANGED <<pool, sem, nwm_syn, wpc>>
       ELSE /\ pool' = pool - n
            /\ sem' = sem + 1
            /\ nwm_syn' = nwm_syn \o [i \in 1 .. n |-> Term(i = n)]
            /\ wpc' = "sem"
            /\ UNCHANGED reset
  /\ UNCHANGED <<term_sem, audio_free, audio_syn, kpc, look, ids,
                 established, new_data, lists, net>>

Send_term_dsts ==
  /\ wpc = "term" /\ ~reset
  /\ \E n \in 1 .. MAX_TERMS :
       IF pool < n THEN reset' = TRUE /\ UNCHANGED <<pool, sem, nwm_syn, wpc>>
       ELSE /\ pool' = (pool - n) + 1
            /\ sem' = sem + 1
            /\ nwm_syn' = nwm_syn \o [i \in 1 .. n |-> Term(i = n)]
            /\ wpc' = "sem"
            /\ UNCHANGED reset
  /\ UNCHANGED <<term_sem, audio_free, audio_syn, kpc, look, ids,
                 established, new_data, lists, net>>

(* audio_enqueue_kcp *)
Put_audio ==
  /\ ~reset /\ established
  /\ audio_free > 0
  /\ audio_free' = audio_free - 1
  /\ audio_syn' = audio_syn + 1
  /\ UNCHANGED <<wpc, pool, sem, term_sem, nwm_syn, kpc, look, ids,
                 established, new_data, lists, reset, net>>

-----------------------------------------------------------------------------
(***************************************************************************)
(* ikcp: the lists of segments.                                            *)
(***************************************************************************)
Pid_sub(a, b) == (a + PID_SPACE - b) % PID_SPACE
Fid_sub(a, b) == (a + FID_SPACE - b) % FID_SPACE
Pid_next      == (pid + 1) % PID_SPACE
Fid_next      == (fid + 1) % FID_SPACE

(* The lists by priority, the most often resent first (arq_seg_iter): list *)
(* w > 0 has what was resent w times, list 0 is snd_lst.                   *)
Levels      == 0 .. RSND_COUNT
Lists(r, s) == [w \in Levels |-> IF w = 0 THEN s ELSE r[w]]
Queues      == Lists(rsnd, snd_lst)

Set_queues(q) ==
  /\ snd_lst' = q[0]
  /\ rsnd' = [w \in 1 .. RSND_COUNT |-> q[w]]

Some_waiting(q)  == \E w \in Levels : q[w] # << >>
Top(q)           == CHOOSE w \in Levels :
                      q[w] # << >> /\ \A v \in w + 1 .. RSND_COUNT : q[v] = << >>
First(q)         == Head(q[Top(q)])
Without_first(q) == [q EXCEPT ![Top(q)] = Tail(@)]

(* ikcp_insert_standalone_send_cur: the first free slot from w on. *)
Free_slot(cur, w) ==
  CHOOSE i \in w .. w + Cardinality(DOMAIN cur) :
    /\ i \notin DOMAIN cur
    /\ \A j \in w .. i - 1 : j \in DOMAIN cur

Put(cur, i, seg) ==
  [j \in DOMAIN cur \cup {i} |-> IF j = i THEN seg ELSE cur[j]]

Delay(cur) ==
  IF DOMAIN cur = {} THEN NoDelay
  ELSE [some |-> TRUE,
        slot |-> CHOOSE i \in DOMAIN cur : \A j \in DOMAIN cur : i <= j]

In_group_zero(seg, g, two) ==
  [seg EXCEPT !.fid = fid, !.gid = 0, !.fec = two, !.end = ~two]

In_group(seg, g, two) ==
  [seg EXCEPT !.fid = fid, !.gid = g, !.fec = two, !.end = ~two]

Recovery ==
  [kind |-> "rec", pid |-> 0, wrn |-> 0,
   fid |-> fid, gid |-> 2, fec |-> TRUE, end |-> TRUE]

(* Segments of some kinds in a list, or in the send slots. *)
Of(s, kinds) == Cardinality({i \in DOMAIN s : s[i].kind \in kinds})

Recoveries(cur) == Of(cur, {"rec"})

(* ikcp_queue_send_cur: the next segment alone, or, if it has been resent  *)
(* most often, the next two with a recovery packet, spread over the slots. *)
Two_at_once(q) == q[RSND_COUNT] # << >> /\ Some_waiting(Without_first(q))

Queue_one(q) ==
  /\ Set_queues(Without_first(q))
  /\ snd_cur' = Put(snd_cur, Free_slot(snd_cur, 0), In_group(First(q), 0, FALSE))
  /\ UNCHANGED <<groups, reset>>

Queue_two(q) ==
  LET x == First(q)
      y == First(Without_first(q))
      i0 == Free_slot(snd_cur, 0)
      c0 == Put(snd_cur, i0, In_group(x, 0, TRUE))
      i1 == Free_slot(c0, INTERVAL + i0)
      c1 == Put(c0, i1, In_group(y, 1, TRUE))
      i2 == Free_slot(c1, INTERVAL + i1) IN
  /\ Set_queues(Without_first(Without_first(q)))
  /\ reset' = (Recoveries(snd_cur) = CUR_BUFS)
  /\ snd_cur' = IF reset' THEN c1 ELSE Put(c1, i2, Recovery)
  /\ groups' = groups \cup {[fid |-> fid, pids |-> <<x.pid, y.pid>>,
                             got |-> {}]}

(* ikcp_send_ready_and_get_delay with the lists q: fill the next slot. *)
Ready(q, n) ==
  IF n > 0 /\ established
  THEN /\ new_data' = FALSE
       /\ IF 0 \notin DOMAIN snd_cur /\ Some_waiting(q)
          THEN /\ fid' = Fid_next
               /\ acks' = {a \in acks : a.init \/
                             Fid_sub(Fid_next, a.fid) <= FID_SPACE \div 2}
               /\ IF Two_at_once(q) THEN Queue_two(q) ELSE Queue_one(q)
          ELSE /\ Set_queues(q)
               /\ UNCHANGED <<fid, snd_cur, groups, reset, acks>>
  ELSE /\ Set_queues(q)
       /\ UNCHANGED <<fid, snd_cur, groups, reset, acks, new_data>>

Ready_delay_once(n, cur) ==
  IF n = 0 \/ ~established THEN NoDelay ELSE Delay(cur)

Ready_delay(n, cur) ==
  IF n = 0 THEN NoDelay
  ELSE IF ~established THEN [some |-> TRUE, slot |-> 0]
  ELSE Delay(cur)

-----------------------------------------------------------------------------
(***************************************************************************)
(* The kcp thread.  It holds the lock of the control block except while it *)
(* waits ("acq", unless something is to be sent at once) and while it      *)
(* sleeps until the next packet is due ("send").                           *)
(***************************************************************************)
Look ==
  /\ kpc = "ready" /\ ~reset
  /\ can_queue' = (n_snd < WINDOW)
  /\ Ready(Queues, n_snd)
  /\ send_delay' = Ready_delay(n_snd, snd_cur')
  /\ kpc' = "acq"
  /\ UNCHANGED <<work, syns, pid, n_snd, established, snd_wak, missing, high,
                 losses>>

(* The second look, and on to send or back.  *)
After_queue(q, n) ==
  /\ Ready(q, n)
  /\ kpc' = IF ~Ready_delay(n, snd_cur').some THEN "ready"
            ELSE IF established THEN "send" ELSE "send_init"
  /\ UNCHANGED <<look, established, snd_wak, high, losses>>

Span == IF missing = {} THEN 0
        ELSE CHOOSE n \in {Pid_sub(pid, p) : p \in missing} :
               \A p \in missing : Pid_sub(pid, p) <= n

(* ikcp_queue.  Audio goes first, right behind what was resent before. *)
Ikcp_queue(kind) ==
  LET wrn == IF kind = "audio" THEN RSND_COUNT - 1 ELSE 0
      seg == [kind |-> kind, pid |-> pid, wrn |-> wrn,
              fid |-> 0, gid |-> 0, fec |-> FALSE, end |-> FALSE] IN
  /\ Span < MAX_SPAN
  /\ n_snd < WINDOW
  /\ pid' = Pid_next
  /\ n_snd' = n_snd + 1
  /\ missing' = missing \cup {pid}
  /\ After_queue([Queues EXCEPT ![wrn] = IF kind = "audio" THEN <<seg>> \o @
                                         ELSE Append(@, seg)], n_snd + 1)

Take_audio ==
  /\ kpc = "acq" /\ can_queue /\ ~reset
  /\ audio_syn > 0
  /\ audio_syn' = audio_syn - 1
  /\ Ikcp_queue("audio")
  /\ UNCHANGED <<work, nwm_syn>>

(* Audio that comes while it waits for nwm_syn is not seen. *)
Take_nwm_syn ==
  /\ kpc = "acq" /\ can_queue /\ ~reset
  /\ nwm_syn # << >>
  /\ nwm_syn' = Tail(nwm_syn)
  /\ Ikcp_queue(Head(nwm_syn).kind)
  /\ UNCHANGED <<work, audio_syn>>

(* Nothing to queue before the next packet is due, or new data came in.  A *)
(* thread that has nothing due stays here until one of the two happens.    *)
Proceed ==
  /\ kpc = "acq" /\ ~reset
  /\ send_delay.some \/ (can_queue /\ new_data)
  /\ can_queue => nwm_syn = << >>
  /\ After_queue(Queues, n_snd)
  /\ UNCHANGED <<work, syns, pid, n_snd, missing>>

(* RELIABLE_STREAM_CB_EVT, or its timeout. *)
Wait_evt ==
  /\ kpc = "acq" /\ ~reset
  /\ ~send_delay.some /\ ~can_queue
  /\ kpc' = "ready"
  /\ UNCHANGED <<work, syns, look, ids, established, new_data, lists, reset,
                 net>>

(* An acknowledgement joins those on their way, or is one too many. *)
Sent_ack(old, a) == {new \in SUBSET (old \cup {a}) :
                       Cardinality(new) <= MAX_ACKS /\
                       Cardinality(old \cup {a}) <= Cardinality(new) + 1}

(* What the receiver has after packet seg, and what it answers. *)
Delivered(seg) ==
  IF ~seg.fec THEN {seg.pid}
  ELSE LET g == CHOOSE x \in groups : x.fid = seg.fid IN
       IF Cardinality(g.got \cup {seg.gid}) >= 2 THEN {g.pids[1], g.pids[2]}
       ELSE {g.pids[i] : i \in {seg.gid + 1} \cap {1, 2}}

Higher(a, b) == IF Pid_sub(pid, a) < Pid_sub(pid, b) THEN a ELSE b

Nacks(miss, h) ==
  SetToSortSeq({p \in miss : Pid_sub(pid, p) > Pid_sub(pid, h)},
               LAMBDA a, b : Pid_sub(pid, a) > Pid_sub(pid, b))

Receive(seg) ==
  LET got == Delivered(seg)
      after == {(p + 1) % PID_SPACE : p \in got \cap missing} IN
  /\ missing' = missing \ got
  /\ high' = IF after = {} THEN high
             ELSE CHOOSE h \in after \cup {high} :
                    \A x \in after \cup {high} : Higher(h, x) = h
  /\ acks' \in Sent_ack(acks, [init |-> FALSE, fid |-> seg.fid,
                               gid |-> seg.gid, nacks |-> Nacks(missing', high'),
                               start |-> high'])
  /\ groups' = {IF g.fid = seg.fid THEN [g EXCEPT !.got = @ \cup {seg.gid}]
                ELSE g : g \in {x \in groups :
                                  x.fid # seg.fid \/ seg.gid # 2}}
  /\ UNCHANGED losses

Lose(seg) ==
  /\ losses < MAX_LOSS
  /\ losses' = losses + 1
  /\ groups' = {g \in groups : g.fid # seg.fid \/ seg.gid # 2}
  /\ UNCHANGED <<missing, high, acks>>

(* ikcp_send_cur, after the sleep in rp_udp_output. *)
Send_cur ==
  LET i == Delay(snd_cur).slot
      seg == snd_cur[i] IN
  /\ kpc = "send" /\ ~reset
  /\ snd_cur' = [j \in {k - i - 1 : k \in DOMAIN snd_cur \ {i}} |->
                   snd_cur[j + i + 1]]
  /\ snd_wak' = Append(snd_wak, [seg EXCEPT
                                   !.kind = IF @ = "last" THEN "term" ELSE @])
  /\ term_sem' = IF seg.kind = "last" THEN term_sem + 1 ELSE term_sem
  /\ kpc' = "ready"
  /\ Receive(seg) \/ Lose(seg)
  /\ UNCHANGED <<wpc, pool, sem, audio_free, syns, look, ids, established,
                 new_data, snd_lst, rsnd, reset>>

(* ikcp_send_next before the session is established. *)
Send_init ==
  /\ kpc = "send_init" /\ ~reset
  /\ acks' = {[init |-> TRUE]}
  /\ kpc' = "ready"
  /\ UNCHANGED <<work, syns, look, ids, established, new_data, lists, reset,
                 missing, high, groups, losses>>

-----------------------------------------------------------------------------
(***************************************************************************)
(* nsControlRecv and ikcp_input, by the thread that polls the socket.      *)
(***************************************************************************)
AtOnce   == [some |-> TRUE, slot |-> 0]
Unlocked == kpc \in {"send", "send_init"} \/ (kpc = "acq" /\ send_delay # AtOnce)

(* ikcp_input_check_nack: the first range that p is before or in decides;  *)
(* the last one reaches a quarter of the id space.                         *)
Ranges(a) == Append([i \in 1 .. Len(a.nacks) |-> [start |-> a.nacks[i],
                                                  count |-> 0]],
                    [start |-> a.start, count |-> Quarter - 1])

Is_before(p, r) == Pid_sub(p, r.start) >= PID_SPACE - Quarter
Is_in(p, r)     == Pid_sub(p, r.start) <= r.count

Check_nack_wide(p, a) ==
  \E i \in 1 .. Len(Ranges(a)) :
    /\ Is_in(p, Ranges(a)[i]) /\ ~Is_before(p, Ranges(a)[i])
    /\ i = Len(Ranges(a))
Check_nack(p, a) ==
  LET R == Ranges(a) IN
  \E i \in 1 .. Len(R) :
    /\ Is_in(p, R[i]) /\ ~Is_before(p, R[i])
    /\ \A j \in 1 .. i - 1 : ~Is_before(p, R[j])

(* The groups in snd_wak the acknowledgement is about: complete, not later *)
(* than the packet it answers, and not behind it in the list.              *)
About_incomplete(a) ==
  LET at == {i \in DOMAIN snd_wak : snd_wak[i].fid = a.fid
                                    /\ snd_wak[i].gid = a.gid}
      upto == IF at = {} THEN DOMAIN snd_wak
              ELSE {i \in DOMAIN snd_wak : \E j \in at : i <= j} IN
  {i \in upto : Fid_sub(a.fid, snd_wak[i].fid) < FID_SPACE \div 2}

About(a) ==
  LET at == {i \in DOMAIN snd_wak : snd_wak[i].fid = a.fid
                                    /\ snd_wak[i].gid = a.gid}
      upto == IF at = {} THEN DOMAIN snd_wak
              ELSE {i \in DOMAIN snd_wak : \E j \in at : i <= j} IN
  {i \in upto : /\ snd_wak[i].end
                /\ Fid_sub(a.fid, snd_wak[i].fid) < FID_SPACE \div 2}

(* The group that ends at position k of snd_wak. *)
Group(k) ==
  {j \in 1 .. k : /\ snd_wak[j].fid = snd_wak[k].fid
                 /\ \A e \in j .. k - 1 : ~(snd_wak[e].end /\
                                           snd_wak[e].fid = snd_wak[k].fid)}

Again(seg) == [seg EXCEPT !.wrn = IF @ < RSND_COUNT THEN @ + 1 ELSE @,
                          !.fid = 0, !.gid = 0, !.fec = FALSE, !.end = FALSE]

(* What is at the positions at of the list s. *)
Kept(s, at) ==
  LET f[n \in 0 .. Len(s)] ==
        IF n = 0 THEN << >>
        ELSE IF n \in at THEN Append(f[n - 1], s[n]) ELSE f[n - 1] IN
  f[Len(s)]

(* What of the positions at of snd_wak is sent again from list w: group by *)
(* group, the last one of a group first.                                   *)
Resent(a, at, w) ==
  LET again == [j \in DOMAIN snd_wak |-> Again(snd_wak[j])]
      f[k \in 0 .. Len(snd_wak)] ==
        IF k = 0 THEN << >>
        ELSE IF k \in About(a)
        THEN f[k - 1] \o Reverse(Kept(again, {j \in Group(k) \cap at :
                                               again[j].wrn = w}))
        ELSE f[k - 1] IN
  f[Len(snd_wak)]

(* What becomes of snd_wak and the resend lists, and what is freed. *)
Input(a) ==
  LET answered == UNION {Group(k) : k \in About(a)}
      data(s, at)   == {j \in at : s[j].kind # "rec"}
      nacked(s, at) == {j \in data(s, at) : Check_nack(s[j].pid, a)}
      acked(s, at)  == {j \in data(s, at) : ~Check_nack(s[j].pid, a)} IN
  [snd_wak |-> Kept(snd_wak, DOMAIN snd_wak \ answered),
   rsnd    |-> [w \in 1 .. RSND_COUNT |->
                  Kept(rsnd[w], nacked(rsnd[w], DOMAIN rsnd[w]))
                    \o Resent(a, nacked(snd_wak, answered), w)],
   freed   |-> [w \in Levels |->
                  IF w = 0 THEN Kept(snd_wak, acked(snd_wak, answered))
                  ELSE Kept(rsnd[w], acked(rsnd[w], DOMAIN rsnd[w]))]]

(* Segments of some kinds in all of the lists. *)
Of_all(q, kinds) ==
  LET f[w \in Levels] ==
        Of(q[w], kinds) + (IF w = 0 THEN 0 ELSE f[w - 1]) IN
  f[RSND_COUNT]

Ikcp_input(a) ==
  /\ ~a.init /\ established
  /\ \E in \in {Input(a)} :
       /\ snd_wak' = in.snd_wak
       /\ rsnd' = in.rsnd
       /\ n_snd' = n_snd - Of_all(in.freed, {"data", "term", "last", "audio"})
       /\ pool' = pool + Of_all(in.freed, {"data", "term", "last"})
       /\ sem' = sem + Of_all(in.freed, {"data"})
       /\ audio_free' = audio_free + Of_all(in.freed, {"audio"})
  /\ new_data' = TRUE
  /\ UNCHANGED established

Ikcp_input_init(a) ==
  /\ a.init
  /\ established' = TRUE
  /\ UNCHANGED <<pool, sem, audio_free, n_snd, new_data, snd_wak, rsnd>>

(* One of the acknowledgements on their way; it may come once more. *)
Recv(left) ==
  /\ Unlocked /\ ~reset
  /\ UNCHANGED <<wpc, term_sem, syns, kpc, look, pid, fid, snd_lst, snd_cur,
                 reset, missing, high, groups, losses>>
  /\ \E a \in acks :
       /\ acks' = left \cup (acks \ {a})
       /\ Ikcp_input(a) \/ Ikcp_input_init(a)

NsControlRecv   == Recv({})
Repeated_packet == Recv(acks)

(* RP_KCP_TIMEOUT_TICK has passed since the last packet was due; looked at *)
(* only on the way round the loop.                                         *)
Timeout ==
  /\ kpc = "ready" /\ ~reset
  /\ acks = {}
  /\ DOMAIN snd_cur = {} /\ ~Some_waiting(Queues)
  /\ reset' = TRUE
  /\ UNCHANGED <<work, syns, kpc, look, ids, established, new_data, lists,
                 net>>

(* Everything is set up anew; acknowledgements with the last cid no longer *)
(* count.                                                                  *)
Restart ==
  /\ reset
  /\ reset' = FALSE
  /\ wpc' = "sem"
  /\ pool' = WINDOW + EXTRA /\ sem' = WINDOW /\ term_sem' = TERM_PERMITS
  /\ audio_free' = AUDIO_BUFS
  /\ nwm_syn' = << >> /\ audio_syn' = 0
  /\ kpc' = "ready" /\ can_queue' = FALSE /\ send_delay' = NoDelay
  /\ pid' = 0 /\ fid' = 0 /\ n_snd' = 0
  /\ established' = FALSE /\ new_data' = FALSE
  /\ snd_lst' = << >> /\ rsnd' = [i \in 1 .. RSND_COUNT |-> << >>]
  /\ snd_cur' = << >> /\ snd_wak' = << >>
  /\ missing' = {} /\ high' = 0 /\ groups' = {} /\ acks' = {}
  /\ UNCHANGED losses

WorkThread ==
  \/ Rp_data_buf_malloc \/ Rp_send_buffer \/ Set_term_dst \/ Send_term_dsts

KcpThread ==
  /\ UNCHANGED wpc
  /\ \/ Look \/ Take_audio \/ Take_nwm_syn \/ Proceed \/ Wait_evt
     \/ Send_cur \/ Send_init

Next ==
  \/ WorkThread \/ Put_audio \/ KcpThread \/ Timeout
  \/ NsControlRecv \/ Repeated_packet
  \/ Restart

Spec == Init /\ [][Next]_vars

(* The threads are scheduled, and frames keep coming; an acknowledgement   *)
(* the network still has arrives in the end; the time limit runs out.      *)
FairSpec ==
  /\ Spec
  /\ WF_vars(WorkThread) /\ WF_vars(KcpThread)
  /\ SF_vars(NsControlRecv) /\ SF_vars(Timeout)

-----------------------------------------------------------------------------
(* All the lists of ikcp, the places in them, and what is there. *)
All    == Queues @@ (RSND_COUNT + 1 :> snd_cur) @@ (RSND_COUNT + 2 :> snd_wak)
Places == UNION {{l} \X DOMAIN All[l] : l \in DOMAIN All}
At(p)  == All[p[1]][p[2]]

Outstanding == {At(p).pid : p \in {x \in Places : At(x).kind # "rec"}}

(* ikcp_input: a segment is given up only once the receiver has it, however*)
(* the acknowledgements are delayed, reordered or repeated and the ids wrap*)
FreedOnlyReceived ==
  [][~reset' /\ ~reset => Outstanding \ Outstanding' \subseteq
       {p \in Outstanding : p \notin missing}]_vars

(* The 12 bit ids never mean two things: no two segments have the same     *)
(* packet id, no two groups the same group id.                             *)
IdsDistinct ==
  \A p, q \in Places :
    LET x == At(p)
        y == At(q) IN
    p # q =>
      /\ x.kind # "rec" /\ y.kind # "rec" => x.pid # y.pid
      /\ (x.fec \/ x.end) /\ (y.fec \/ y.end) /\ x.fid = y.fid =>
           x.fec /\ y.fec /\ x.gid # y.gid

In_lists(kinds) == Of_all(Queues, kinds) + Of(snd_cur, kinds) + Of(snd_wak, kinds)
Held(kinds)     == Of(nwm_syn, kinds) + In_lists(kinds)
One_if(b)       == IF b THEN 1 ELSE 0

(* malloc, free and permits across the work threads, the queue and ikcp:   *)
(* no buffer or permit is lost or given back twice; the pool runs dry only *)
(* when more terms are unacknowledged than it has buffers beyond the       *)
(* permits.                                                                *)
BuffersAccounted ==
  LET buffer == One_if(wpc \in {"fill", "term"}) IN
  /\ n_snd = In_lists({"data", "term", "last", "audio"})
  /\ reset \/ sem + Held({"data"}) + buffer = WINDOW
  /\ pool + Held({"data", "term", "last"}) + buffer = WINDOW + EXTRA
  /\ audio_free + audio_syn + In_lists({"audio"}) = AUDIO_BUFS
  /\ term_sem + One_if(wpc = "term") + Held({"last"}) = TERM_PERMITS

(* ikcp_seg_data_buf_malloc: giving segments a send slot never resets the  *)
(* stream, there is a buffer for every recovery packet; for while one      *)
(* waits to be sent, the two segments of its group cannot be sent again.   *)
RecoveryBuffers == [][~reset /\ fid' # fid => ~reset']_vars

(* do_kcp_thread_nwm: while frames keep coming, whatever is lost, a packet *)
(* is acknowledged in the end or the stream is set up anew; no wake-up is  *)
(* lost and nothing waits for ever with the window full.  (For the first   *)
(* id: the ids only differ by where they are in the circle.)               *)
DeliveredOrReset == 0 \in Outstanding ~> (0 \notin Outstanding \/ reset)
=============================================================================
