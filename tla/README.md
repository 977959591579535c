# A TLA+ model of ntr-hr's wireless streaming

ntr-hr turns a New 3DS into a streaming server: a payload inside the `nwm`
system process captures both screens by DMA, encodes them on up to three cores
and sends them over wifi, as plain UDP or as a reliable stream of its own.
Nothing in it is protected by a language runtime: five or more threads share
static variables, kernel semaphores, one-shot events and one flag,
`RESET_THREADS`, that ends them all. This directory models the protocols these
threads keep among themselves, checks them with TLC on small instances, and
proves the parts that matter for every size with TLAPS.

## The system

| part | state | operations | talks to |
|---|---|---|---|
| work threads (`entries/work_thread`) | per work: `BLIT_CTXES`, `work_ready_flag`, `work_done_count`, `should_capture`, `TERM_DSTS`; per thread a private work index | claim a work, lead or follow its frame, skip it, encode, count out | screen thread (semaphores `thread_ready`, `screen_ready`, `work_done`), nwm thread, encoder |
| screen thread (`entries/thread_screen`) | `PARAMS` (work index, skip flags, captured parameters), `IMG_INFOS`, DMA handles, priorities | wait for a free work, choose a screen, start a DMA, wake the work threads | work threads, port thread |
| nwm thread, UDP (`entries/thread_nwm`) | `NWM_INFOS`, `DATA_BUF_HDRS`, `NWM_WORK_INDEX`, `NWM_THREAD_INDEX`, `NWM_NEED_SYN` | take over a frame, send its rows in thread order, give it back | work threads (`nwm_ready`, `nwm_done`, an event) |
| kcp thread, reliable stream (`entries/thread_nwm`, `nwm_misc/ikcp.c`) | ARQ queues and window, pools, permits `SEG_MEM_SEM`, `SEG_MEM_TERM_SEM` | take packets from the ring, number, send, resend, acknowledge, free | work threads through the ring of `rp_syn.c`, the network |
| JPEG quality (`encoder/vars.rs`, `encoder/init.rs`) | tables of `JpegShared`, `quality_can_update`, `quality_need_update`, `quality_done_update` | take every permit, write, give back | work threads, port thread, main thread |
| main thread (`entries/thread_main.rs`) | `RESET_THREADS`, `RESTART_*` | pause, initialise from `RP_CONFIG`, start the threads, work as thread 0, join | everybody |
| service port (`entries/handle_port`) | `RP_CONFIG` | store new settings; update in place or reset | menu, main thread, encoder |
| notifications (`nwm/main_nwm.c`) | events ready and done | `nwmPause`, `nwmUnpause` around sleep, shutdown | main thread |
| audio thread (`entries/thread_audio.rs`) | a queue of 32 packets | read the DSP, number, enqueue | nwm or kcp thread |
| delta-Q (`encoder/delta_q.rs`, `encoder/encode.rs`) | per screen rate state, `screen_sem`, `screen_bool` | hand the state from one work to the next | work threads |
| encoders (`encoder/encode`) | coefficients or pixels of the last frame, sampled blocks, a buffer of prepared rows | quantise, rescale, predict, subtract | work threads, the receiver |
| FEC codes, menu, boot, hooks | | third-party codes, user interface, patching | |

What is hard here: each thread keeps its own index into the two works and only
counts of semaphores keep them on the same frame; the next capture starts while
the current frame is being encoded; `release_sem` drops a permit silently when
the semaphore is full; every wait has a time-out that is retried, except the one
of the DMA; a reset may come at any moment, from any thread, and during the
initialisation that follows the previous one; the ring's slots are protected by
nothing but a bound on the buffers in circulation; encoder and receiver each
keep the last picture and must agree on it to the bit; packet ids are 12 bits
wide and acknowledgements come late, twice or never. `PROJECT.json` lists these
hazards with their lines and the properties that watch them.

## Modules

### FramePipeline: capture, encode, send

The work threads, the screen thread, the UDP nwm thread, the port thread's
quality update and the DMA engine (external). State and actions keep the names
of the code: `Work_ready_acquire(t)` is `work_ready_acquire`, `pc[t]` names the
call thread `t` makes next, `wi[t]` is its `work_index`. The frame a thread
encodes is recorded in `job[t]`, a history variable that lets properties compare
it with the context found later. Each action touches shared state once, except
where the code holds the only reference; `LeaderAlone` and `ScreenOwnsWork` are
the two invariants that justify those groupings.

Abstractions: a frame is its screen, image buffer and id; rows, packets and
pacing are not represented, a thread publishes its rows in one step (`Term`).
Whether a frame is skipped and which screen is captured are free choices.
Attempts to capture that fail change nothing and are left out. A wait that
begins after a reset gives up at once in the code; the model also lets it
succeed, which only adds behaviours. With `DMA_TIMEOUT` a DMA may be replaced
while it runs; only the last one of a work is kept.

### SynQueue and Fifo: the packet ring of the reliable stream

`Fifo` says what the ring promises: a bounded queue with several producers and
one consumer. `SynQueue` is `rp_syn.c` step by step: the mutex, the two indices,
the slots, the semaphore posted after the mutex is released, and the permits of
`SEG_MEM_SEM` that bound the buffers. `IsFifo` is the refinement: the queue is
the slots from `pos_tail` to `pos_head`, a put happens at the store and a get
when `pos_tail` moves. Data packets only: term packets are paid by
`SEG_MEM_TERM_SEM` and have the `RP_ARQ_EXTRA_BUFS_COUNT` extra slots of their
own. Waits that time out are repeated by the callers and show as waits; the end
of the threads by a reset is left to `Restart`.

### Restart: stopping and starting again

Main, port and notification thread with everything they share. The streaming
threads are one control point, "run", that ends after a reset (`ResetStops` of
FramePipeline is what justifies it). Settings are three: "mode" stands for any
that needs a restart and is read at the first of the points where the code reads
such settings, "quality" and "qos" are updated in place. `set_config` stores one
field after the other and so does the model. Failures of kernel calls during
init are left out.

### DeltaQ: whose coefficients, at which level

With `delta_prog` a frame is coded as differences to the coefficients of the
last frame of its screen, and those are shared by everything in flight. The
module has the split of the rows between the threads (`Init_work`: even shares,
the last one adjusted to the load), the hand-over of a screen from one work to
the next (`screen_bool`, `screen_sem`, `work_sem`), and the level of every row
of coefficients; what a thread does to a row is to take it from one level to
another. How works come round again is reduced to "when every thread has left",
which FramePipeline shows of the real semaphores.

### CoefDelta, Lossless and Codec: the values

`CoefDelta` follows one coefficient of one block of the sampled row through
`compute_dq` and `compress`: the draw of distinct sorted indices, the blocks
found again by position with a cursor that only moves forward, and the
arithmetic of levels, in which shifts round down and quantisation rounds towards
zero. `Lossless` has the predictor, the residuals, the buffer of two steps and
the choice per chunk between prediction and difference. In both the receiver is
external: it does what any receiver of the stream has to do with the numbers
sent. `Codec` composes them, a stream is one or the other.

### Kcp: buffers, packets and acknowledgements

From the work thread that takes a buffer to the acknowledgement that frees it:
the permits of `SEG_MEM_SEM` and `SEG_MEM_TERM_SEM`, the pool, the queue
(SynQueue shows it is one), the loop of the kcp thread with its two looks and
its waits, ikcp's lists (`snd_lst`, the resend lists `rsnd`, the send slots
`snd_cur`, the packets waiting for an acknowledgement `snd_wak`), groups of two
packets with a third that recovers either, and `ikcp_input`. `Queues` numbers
the lists by priority (0 is `snd_lst`, level w holds what was resent w times),
as `arq_seg_iter` walks them. `Input` is `ikcp_input` as the list operations it
amounts to: what stays in `snd_wak`, what each resend list keeps and gets, what
is freed. The network loses packets and loses, delays, reorders and repeats
acknowledgements. The receiver is external and acknowledges with the truth
about what it has.

Two assumptions are the model's and not the code's: ids in use span less than
three quarters of the id space (`MAX_SPAN`; the check for it, `CHECK_PID`, is
compiled out) and an acknowledgement older than half the group ids is gone. The
first holds by a wide margin, with 4096 ids and 453 permits, unless a packet is
lost again and again while others get through. The runs have half as many group
ids as packet ids, so the second says that an acknowledgement is late by at most
a quarter of the packet ids; that quarter, and not half the group ids, is what
`FreedOnlyReceived` needs (see the observations below).

### Audio

Both audio threads: the choice of the newer of the two regions the DSP writes
(external) by 16-bit counters, the packets with the previous and the current
frame and their ring without a lock, and for the reliable stream the staging
buffer, the pool whose buffer and permit come back in two steps, and the flag
that tells the receiver of a gap. A mix frame is its number.

The operators that come in pairs (`Claims_anyway` and `Claims`) show the slip
first and then what the code does; the slips are used by the mutation checks in
`PROJECT.json` and by nothing else.

## Runs

| run | instance | shows |
|---|---|---|
| `pipeline_udp` | 2 cores, 2 works, 2 image buffers, ids mod 2, one screen, UDP, kernel fairness | the threads agree on frame, work and buffer, no permit is lost, frames keep being sent |
| `pipeline_update` | 2 cores, reliable stream, 1 update, a reset at any moment, kernel fairness | tables stable, the update ends |
| `pipeline_reset` | 1 core, both screens, 2 image buffers, ids mod 2, UDP, a reset at any moment, kernel fairness | rows match their header, frames of each screen in order, after the reset every joined thread ends |
| `syn_queue` | 3 producers, 3 slots, 3 permits, 2 buffers | the ring is a FIFO, puts complete |
| `restart` | 2 values per setting, 1 update, 1 error, 2 sleeps | pause handshake, settings reach the stream |
| `restart_survives` | 2 updates, no sleep | violated: see below |
| `restart_stuck` | 1 update, 1 error, fairness | violated: see below |
| `delta_q` | 2 cores, 2 works, screens of 4 rows and 1 row, 2 levels, half images on one | shares tile, coefficients have one owner and one level, frames end |
| `codec` | 8 blocks, 2 sampled, 3 levels, coefficients to 5; pixels of 2 bits, 3 steps of 1 or 2 rows of 2 | receiver and encoder agree to the bit |
| `audio` | 4-valued counters and indices, ring of 2, 2 buffers, 7 mix frames | packets continue each other, the ring drains, the pool suffices |
| `kcp` | ids mod 8, window 2, 3 buffers, 1 term permit, 1 audio buffer, 1 loss | no buffer or permit lost, everything acknowledged or reset |
| `kcp_groups` | packet ids mod 16, group ids mod 8, window 3, 1 resend list, 1 audio buffer, 1 loss, no terms | ids apart, nothing freed early, a buffer for every recovery packet |

`WORK_COUNT` and `IMG_WORK_COUNT` have the code's value 2 wherever a property
depends on them. Three cores is the hardware's maximum. Two frame ids suffice to
tell a frame from its neighbours, since at most two are in flight;
`pipeline_update` uses one image buffer and one id, which its properties do not
look at. Two screens and two threads together are too many states for one run:
`pipeline_udp` has the threads, `pipeline_reset` the screens.
Three slots let the ring wrap while two producers are inside a put. Two updates
are needed for one to arrive while the first is being applied, two sleeps for an
event left over from the first to meet the second. `UPDATES`, `ERRORS`, `SLEEPS`
are the only artificial bounds, and the proofs do without them.

In `delta_q` four rows on two cores let the border between the shares move by
one row either way (`RANGE` 2), the screen of one row gives a thread an empty
share. In `codec` two MCUs of two by two blocks are the smallest row in which
the order of positions and the order of blocks differ, three levels let the
level be raised, lowered and kept with shifts of one and two bits, and three
steps use both halves of the buffer again; two-valued pixels suffice where a
step has two rows, since only places matter there. In `audio` every counter
wraps within seven frames. `DELAY` is 1: the loop polls
"well under the ~4.888 ms dsp frame", so at most one is mixed during a pass
(with two, the copy of a region can meet the DSP's next write to it). In `kcp` the
ids wrap while packets are outstanding, but with a window of two no two segments
wait for the resend list's turn together, so no group of two is ever formed.
`kcp_groups` is there for that: a window of three and one resend list, so that a
lost packet, named by the acknowledgement of the next, is sent again in a group
with the segment that waits behind it and a recovery packet, with slots between
them (`INTERVAL` 2) that new data and audio fill. Frames have no term packets
there, which do not matter to groups. The limits `MAX_SPAN`, `MAX_ACKS` and
`MAX_LOSS` are bounds of the model.

Larger instances were run by hand without a violation: three cores in DeltaQ
(9 and 2 rows, `RANGE` 3, safety only), two losses in `kcp`, the
liveness property `DeliveredOrReset` on the instance of `kcp_groups`,
`IdsDistinct` and `FreedOnlyReceived` on that of `kcp`; in FramePipeline
`pipeline_udp` with both screens (safety, 2.6 million states), `pipeline_reset`
with DMA time-outs, `pipeline_update` with DMA time-outs or two updates instead
of the reset (there `FramesKeepFlowing` too), one core over UDP with an update
and a reset (`ResetStops`), three cores with DMA time-outs (safety). No run has
DMAs that outlast `dma_sync` (`DMA_TIMEOUT`); the theorems hold with and without
them, except `NoTearing`, which is about DMAs that end in time.

`pipeline_update`, `pipeline_reset` and the `restart` runs do not check for
deadlock, because the system really stops: after a reset the threads have
exited, after a shutdown the main loop has.

### Fairness

Every thread that can run eventually does (the kernel's scheduler; every wait
with a time-out is retried), and every DMA ends. Nobody has to update a setting,
reset, sleep or wake. `KernelSpec` of FramePipeline asks no more than that.
`FramesKeepFlowing` has a hypothesis, `SkipEnds`, strong fairness of
`Encode_frame`: `skip_frame` sends a frame at the latest
`frame_timing_allowance`, one second, after the previous one, and the frame rate
limit lets one through as time passes. `UpdateCompletes` and `ResetStops` need
none. DeltaQ asks that every thread keeps taking steps, Audio that both of its
threads do. `FairSpec` of Kcp asks the same of the kcp thread and, in addition,
that frames keep coming (the work thread), that an acknowledgement the network
still carries arrives, and that time passes (`Timeout`). Frames are needed:
without them a packet lost at the tail of the last frame stays unacknowledged,
because the inner loop of `do_kcp_thread_nwm`, which waits for new data, does
not look at the two second limit and there is no timer for resending. In
SynQueue getting the mutex is strongly fair, because it
is held for two stores and a timed-out wait is repeated.

### Two findings

`restart_survives`: `clear_reset_threads` is the first thing `init` does, and
the first wait of `init`, for the reliable stream's lock, gives up when a reset
is pending. An update that needs a restart and arrives in between therefore ends
`init`, `main` and `main_loop`, and the main thread is never started again.

`restart_stuck`: a quality update and the initialisation of a restart both take
the two permits of `quality_can_update` one at a time. Each can take one and
wait for the other's; the main thread never reaches the point where it streams
and the port thread receives nothing more.

Two weaker spots are documented as hazards and not checked, because the
repository promises nothing about them: a quality or QoS read by `init` just
before the port thread updates it in place overwrites the newer value; and a
pause whose reset is erased by `clear_reset_threads` waits until something else
resets (`PauseAcknowledged` is stated for pauses that meet a running stream).

### Observations made while modelling

Read in the code, contradicted by no text of the repository, and not checked as
properties:

- the pool can run dry only with more than 367 term packets unacknowledged
  (820 buffers, 453 permits); it then resets the stream (`BuffersAccounted`
  states the exact condition);
- the segments waiting to be resent are compared with an acknowledgement by
  packet id only, and its last range ends a quarter of the ids after its start
  (`ikcp.c:293`, `ikcp.c:667`): one that is late by more than 1024 packets, about
  0.6 s at 1800 packets a second, would free a segment nobody has received. With
  `FID_SPACE = PID_SPACE`, which lets acknowledgements grow that old, and two of
  them on their way, TLC finds `FreedOnlyReceived` violated; with one it holds;
- `ikcp_input_handle_send_cur_nack` marks segments in the send slots and removes
  none, so a packet acknowledged while it waits to be resent is sent again;
- `nsControlRecv` keeps only the last datagram of those that have arrived, one
  more way of losing an acknowledgement;
- after a gap the audio packets' sequence number jumps ahead once and then
  repeats numbers already used (`thread_audio.rs:273`);
- the count of rows in a term header has five bits while a share can have more
  rows (`work_thread/vars.rs:824`);
- `rand32` and `compressed_size` are used by several threads without a lock;
  the first only feeds the sampling, which `codec` leaves free, the second the
  choice of the level, which `delta_q` leaves free;
- when a reset ends `screen_work_acquire` the remaining rows of the frame are
  compressed at a level nobody chose; nothing of it is sent.

## Proofs

Everything here holds for every value of the constants that satisfies the
modules' assumptions, unless a theorem says more.

- `FramePipelineProofs`, first part: `TypeOK`, for every number of cores, works,
  image buffers and ids. One lemma per thread, one case per action; the facts
  about wrapping indices and semaphore counts are lemmas of their own. `TypeOK`
  is inductive as it stands.
- `FramePipelineProofs`, rounds: who may touch what (`LeaderAlone`, `ScreenOwnsWork`,
  `TablesStable`). None of the three is inductive, nor any formula over the
  state's own variables that we found, because works are known by an index that
  wraps and every thread keeps its own. The invariant counts ROUNDS instead, one
  per captured frame: `RoundsInv` says that there are a round for the screen
  thread, one for each work thread, a holder of the one permission to prepare
  the newest round, and a set of rounds holding quality permits, such that every
  semaphore, flag, counter and control point is what these numbers make it.
  `RoundsHold` is that with the numbers quantified away, so they are no part of
  the state. Each action names the rounds after it (`Moves`): most leave them
  alone, a capture, a release and a drop advance one of them. `Follows` is the
  step that later proofs use: the rounds before and after one step.
- `FramePipelineProofs`, frames: what is in the buffers. From the rounds alone:
  `SameFrame` (the threads of a work encode its leader's frame) and
  `NoLostPermit` (no semaphore is released when full, for the six semaphores of
  the pipeline). `ImagesHold` adds the number of the image each round was
  captured into and the one the next capture uses, and gives `SourceIsCaptured`
  and `NoTearing`; `SendsHold` adds the order of the frames' headers and ids and
  gives `RowsMatchHeader` and the action property `SentInOrder`.
  `NoTearing` has a hypothesis, `IMG_WORK_COUNT >= WORK_COUNT`: with fewer image
  buffers than works a capture would overwrite one still being read. The code
  has two of each (`entries/thread_screen/vars.rs:8`, `vars.rs:209`).
- `NumberTheorems`: division and remainder, the arithmetic of an index or a
  sequence number that wraps, powers of two. Induction is by the least
  counterexample (`Smallest`): the induction theorems of the library take an
  operator and cannot be used, a set can be.
- `SynQueueProofs`: `Spec => []Inv`, the three safety properties, and
  `Spec => IsFifo`, for any number of producers, slots and permits with
  `SEG_COUNT <= COUNT`. None of the properties is inductive: that a slot is free
  follows from where the indices are (`SlotsInv`, counted from `pos_tail` across
  the wrap), that from how many permits are posted or about to be
  (`PermitInv`), that from how many buffers are in circulation (`CreditInv`),
  with the mutex (`MutexInv`) and the consumer's position (`TakeInv`).
- `RestartProofs`: `Inv` is inductive for any number of updates, errors and
  sleeps, and gives `AsleepStopped` and `RestartReadsConfig`. `PauseInv` says
  which thread owns the two events and the pending flag at each moment;
  `ConfigInv` says that a stream that missed a setting has a reset coming.
- `AudioProofs`: the pool never runs dry (`PoolSuffices`, from `PoolInv`, which
  accounts for a buffer freed before its permit), and what is sent only moves
  forward (`SentForward`), for any ring, pool, width of the counters and delay.
  `RingInv` unwraps the indices of the ring the way the rounds do: there are
  numbers `h`, `t`, `s` of packets put, taken and stamped that the indices and
  the slots agree with. That packets continue each other (`PacketContinues`,
  `StreamContinues`) has the hypothesis `FewMixes`, at most one frame mixed
  during a pass of the loop, which polls "well under the ~4.888 ms dsp frame"
  (`entries/thread_audio.rs`); with two, TLC has a counterexample.
- `DeltaQProofs`: all five safety properties of the delta-coded stream and its
  types, for any number of threads, works, rows and levels. As in the pipeline,
  works are unwrapped into FRAMES: there are a number `F` of frames begun and a
  frame `n[t]` for each thread (`FramesInv`). On top of that, one layer for each
  shared thing. `WorksInv`: of each frame in flight, its only chooser, the
  permits of `work_sem` (as many as threads still outside) and the count of
  threads with rows left; it gives `NoLeftover`. `ScreensInv`: of each screen,
  the frames that have it, at most two and with the same shares, and what
  `screen_sem`, `screen_bool` and `last_restart_interval` are in each case of
  the handover; with `SplitInv` (the shares tile the screen, `SharesTile`, which
  rests on the arithmetic of the moving boundary) it gives `RowsOwned`.
  `LevelsInv`: of each half image, every row is at the level that the oldest
  frame that has yet to compress it starts from, and at `delta_q` if none has;
  it gives `PrevAtLevel` and `LevelKept`. What one frame's step does to the
  levels is stated without the state (`LevelBegins`, `LevelChosen`, `LevelRow`,
  `LevelEnds`) and the actions are shown to be such steps (`LevelStep`).
- `CodecProofs`: encoder and receiver agree to the bit. `LosslessExact`, for any
  pixel width, number of rows and steps: `LosslessInv` adds that the row of the
  buffer the predictor looks at is the picture's row above, and that with
  differences the kept picture is the one just coded; that a residual added to
  the prediction modulo the coded values gives the cut pixel is arithmetic
  (`ResidualArith`). `ReceiverAgrees`, for any number of blocks, samples and
  levels: `CoefInv` adds the types and `ComputedInv`, that once the differences
  are computed the drawn indices are distinct and in range, a sampled coefficient
  is scaled up at the encoder and its difference is the one held, any other is
  as the receiver has it. The powers of two behind the shifts are proved to be
  positive naturals by counting subsets, and the recursive functions of the two
  modules to exist, both by least counterexample.
- `KcpProofs`: `BuffersAccounted`, for any window, pool, number of resend lists,
  loss and repetition: no send buffer, audio buffer or permit is lost or given
  back twice. `KcpInv` is `BuffersAccounted` with the types, which it needs (a
  recovery packet is never in a resend list, the kcp thread sends only with a
  slot filled). The accounts are kept per kind of segment: `Of` counts in one
  list, `Of_all` in all resend lists. For most actions one segment moves. For
  `ikcp_input` a whole set does, in an order of its own: the groups an
  acknowledgement is about have no segment in common (each goes back to the one
  before that ends with the same id), so every segment answered is
  either freed or sent again from the list of its count, once; the rest stays.
  Nothing is assumed of ids, acknowledgements or losses: the accounts would
  balance even if ids collided.

The inductive invariants were checked with TLC before they were proved, those
with numbers that are no part of the state by adding these as history variables
to a copy of the module.

The assumptions are those of the modules (`ConstantsAssumption`,
`RingAssumption`, `RestartAssumption`, `AudioAssumption`,
`DeltaQAssumption`, `SplitAssumption`, `LosslessAssumption`,
`CoefDeltaAssumption`, `KcpAssumption`), evaluated by TLC in every run of the
module. `AudioAssumption` asks for even moduli of the two
counters, a ring whose size divides the modulus of its indices, at least one
buffer and one staged packet; the code's are powers of two. `SplitAssumption`
says that the even split leaves the last thread no negative number of rows:
`n_last` is unsigned (`work_thread/vars.rs:454`), and every configuration of at
most three cores and the screens' MCU rows satisfies it.

Only model-checked:

- the liveness properties, whose fairness is outside the prover;
- `IdsDistinct`, `FreedOnlyReceived` and `RecoveryBuffers` of Kcp. They do not
  follow from `KcpAssumption`: they depend on how far apart the ids of the
  packets outstanding can get, on how often one may be resent while others get
  through, and on the number of recovery buffers for the window. The code has
  ample numbers (4096 ids, 453 permits) and no check, so a theorem would have to
  assume what it is about.

## Not modelled

The DCT, colour conversion, downsampling, Huffman coding and the uncompressed
copies (sequential arithmetic on blocks too large for TLC, without state of
their own); the arithmetic of the rate control (floating point, a free choice in
the models); pacing and congestion control; the cutting of rows into UDP
packets; the second eye's DMA; the arithmetic of the third-party FEC codes; the
priority queues that choose the screen; the menu, boot, patching and hooks (I/O
on raw addresses). The o3ds build, which runs everything in one thread, is not
represented.

## Plan

What is left, in this order:

1. An abstract reliable channel that Kcp implements, and from which numbers of
   ids, losses and permits `IdsDistinct` and `FreedOnlyReceived` follow.
2. The priority queues by which the screen thread chooses the screen.
3. The cutting of rows into UDP packets and the packet header's fields.
