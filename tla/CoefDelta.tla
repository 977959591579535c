------------------------------ MODULE CoefDelta ------------------------------
(***************************************************************************)
(* The values behind DeltaQ: how the coefficients of one row of MCUs are   *)
(* quantised, compared with those of the previous frame and kept.  The     *)
(* first row of a frame is sampled to choose the delta-Q level; what the   *)
(* sampling computed at full precision is used again when the blocks it    *)
(* sampled are compressed, every other block is quantised at the level.    *)
(*                                                                         *)
(* One coefficient of one block (blk, any block of the row) is followed.   *)
(* It is an integer at the precision of the last level; the DCT, the       *)
(* divisors and the Huffman coding are left out.  The rate control         *)
(* (floating point) is a free choice of the level.  The receiver is        *)
(* external: it holds a copy, rescales it as the encoder rescales and adds *)
(* what it is sent.                                                        *)
(***************************************************************************)
EXTENDS Integers, SequencesExt

CONSTANTS
  MCUS,          \* mcus_per_row
  WE, HE,        \* h_samp_exp and v_samp_exp of the component
  COUNT,         \* DELTA_Q_CACHE_COUNTS of the component
  DELTA_Q_COUNT, \* levels; the last one is full precision
  STEP,          \* DELTA_Q_STEP, in halves
  LOG2,          \* values of log2_tbls to choose from, in halves
  COEF_MAX       \* bound on the coefficient's magnitude

PerMcu == 2^(WE + HE)
Blocks == 0..MCUS * PerMcu - 1
Levels == 0..DELTA_Q_COUNT - 1
Full == DELTA_Q_COUNT - 1
Coefs == -COEF_MAX..COEF_MAX

ASSUME CoefDeltaAssumption ==
  /\ MCUS \in Nat \ {0} /\ WE \in Nat /\ HE \in Nat
  /\ COUNT \in 1..MCUS * 2^(WE + HE)
  /\ DELTA_Q_COUNT \in Nat \ {0} /\ STEP \in Nat
  /\ LOG2 \subseteq Nat /\ COEF_MAX \in Nat

VARIABLES
  log2,     \* log2_tbls of the followed coefficient
  blk,      \* number of the followed block
  stage,    \* "off", "row": before a frame's row, "computed": after compute_dq
  delta_q,  \* level of the screen
  prev_q,   \* level before compute_dq
  prev,     \* dq_prev_coeffs of the block
  indices,  \* blocks sampled, in the order of delta_q_cache
  held,     \* cache.cache of the block, if it is sampled
  next,     \* cache.next of the block, if it is sampled
  coef,     \* the coefficient in the picture last encoded (history)
  copy      \* the receiver's coefficient (external)

coefVars == <<log2, blk, stage, delta_q, prev_q, prev, indices, held, next,
              coef, copy>>

-----------------------------------------------------------------------------
(* Levels and shifts. *)

\* once_delta_q_tbls: log2 less the level's share, at least 0, rounded.
Delta_q_tbl(q) ==
  LET v == log2 - STEP * q IN IF v > 0 THEN (v + 1) \div 2 ELSE 0

\* Shift of a level relative to the last one.
Delta_q0(q) == Delta_q_tbl(q) - Delta_q_tbl(Full)

\* Shifting a two's complement number right rounds down; masking its low
\* bits gives what was rounded off.
Shr(c, s) == c \div 2^s
Low(c, s) == c % 2^s

\* 1 for a negative number that loses something to the shift.
Off(c, s) == IF c < 0 /\ Low(c, s) > 0 THEN 1 ELSE 0

\* do_quantize shifts the magnitude and puts the sign back.
Quantize(c, s) == IF c < 0 THEN -((-c) \div 2^s) ELSE c \div 2^s

\* rescale_prev with the rp_shifts compute_dq has left for levels p and q.
Rescale_prev(c, p, q) ==
  CASE q > p -> c * 2^(Delta_q_tbl(p) - Delta_q_tbl(q))
    [] q < p -> LET s == Delta_q_tbl(q) - Delta_q_tbl(p)
                IN  Shr(c, s) + Off(c, s)
    [] OTHER -> c

-----------------------------------------------------------------------------
(* Sampling. *)

\* dq_cache_gen_unique_indices draws the i-th index from the m - i + 1 left.
Draws == {d \in [1..COUNT -> Blocks] :
            \A i \in 1..COUNT : d[i] <= MCUS * PerMcu - i}

\* The v-th block not yet in s, s being sorted.
Skip_taken(v, s) ==
  LET a[n \in 0..Len(s)] ==
        IF n = 0 THEN v ELSE a[n - 1] + (IF a[n - 1] >= s[n] THEN 1 ELSE 0)
  IN  a[Len(s)]

\* Insert v before the first larger one, at the end if there is none.
Insert_sorted(s, v) ==
  InsertAt(s, Min({j \in DOMAIN s : v < s[j]} \cup {Len(s) + 1}), v)

Gen_unique_indices(d) ==
  LET s[n \in 0..COUNT] ==
        IF n = 0 THEN <<>> ELSE Insert_sorted(s[n - 1], Skip_taken(d[n], s[n - 1]))
  IN  s[COUNT]

\* Where in the row the block of an index is, in blocks.
Position(b) ==
  LET r == b % PerMcu
  IN  [x |-> (r % 2^WE) + (b \div PerMcu) * 2^WE, y |-> r \div 2^WE]

\* compute_dq: the sampled blocks are compared at full precision, their
\* previous coefficients are scaled up in place, and a level is chosen.
Compute_dq ==
  /\ stage = "row"
  /\ \E d \in Draws, q \in Levels :
       /\ indices' = Gen_unique_indices(d)
       /\ delta_q' = q
       /\ prev_q' = delta_q
  /\ IF \E i \in 1..COUNT : indices'[i] = blk
     THEN \E c \in Coefs :
            /\ prev' = IF delta_q = Full THEN prev
                       ELSE prev * 2^Delta_q0(delta_q)
            /\ coef' = c
            /\ next' = c
            /\ held' = c - prev'
     ELSE /\ next' = 0
          /\ held' = 0
          /\ UNCHANGED <<prev, coef>>
  /\ stage' = "computed"
  /\ UNCHANGED <<log2, blk, copy>>

-----------------------------------------------------------------------------
(* Compression. *)

\* The order in which compress goes through the blocks of the row: the MCUs
\* from left to right, in each the rows from top to bottom.
Scan(k) ==
  LET m == (k - 1) \div PerMcu
      n == (k - 1) % PerMcu
  IN  [x |-> m * 2^WE + (n % 2^WE), y |-> n \div 2^WE]

\* Entries that end the search for a block at pos.
Stops(i, pos) ==
  LET c == Position(indices[i])
  IN  c.y > pos.y \/ (c.y = pos.y /\ c.x > pos.x)

\* Entries from cursor on that the search for the block at pos finds.
Hits(cursor, pos) ==
  {i \in cursor..COUNT : /\ Position(indices[i]) = pos
                         /\ \A e \in cursor..i : ~Stops(e, pos)}

\* delta_q_cache_next after the search.
Advance(cursor, pos) ==
  LET h == Hits(cursor, pos) IN IF h = {} THEN cursor ELSE Min(h) + 1

\* delta_q_cache_next before the k-th block.
Cursor(k) ==
  LET c[n \in 0..k - 1] == IF n = 0 THEN 1 ELSE Advance(c[n - 1], Scan(n))
  IN  c[k - 1]

\* The followed block is found in the cache.
Cache_hit == Hits(Cursor(blk + 1), Scan(blk + 1)) # {}

\* The previous coefficient's rounding forgotten.
Cached_no_prev(q, p) ==
  IF q = Full THEN [prev |-> next, output |-> held]
  ELSE LET s == Delta_q0(q)
       IN  [prev |-> Shr(next, s) + Off(next, s),
            output |-> Shr(held, s) + Off(next, s)]

\* What is kept and what is sent of a block found in the cache.
Cached(q, p) ==
  IF q = Full THEN [prev |-> next, output |-> held]
  ELSE LET s == Delta_q0(q)
           borrow == IF Low(prev, s) > Low(next, s) THEN 1 ELSE 0
       IN  [prev |-> Shr(next, s) + Off(next, s),
            output |-> Shr(held, s)
                       + IF q < p THEN Off(next, s) - Off(prev, s) + borrow
                         ELSE Off(next, s)]

\* What is kept and what is sent of any other block, with coefficient c:
\* forward_dct with update_prev.
Quantized(c, q, p) ==
  LET v == Quantize(c, Delta_q0(q))
  IN  [prev |-> v, output |-> v - Rescale_prev(prev, p, q)]

\* The row is compressed, and what is sent of the followed block reaches the
\* receiver.
Compress ==
  /\ stage = "computed"
  /\ \E c \in IF Cache_hit THEN {next} ELSE Coefs :
       LET out == IF Cache_hit THEN Cached(delta_q, prev_q)
                  ELSE Quantized(c, delta_q, prev_q)
       IN  /\ coef' = c
           /\ prev' = out.prev
           /\ copy' = Rescale_prev(copy, prev_q, delta_q) + out.output
  /\ stage' = "row"
  /\ prev_q' = delta_q
  /\ indices' = <<>>
  /\ next' = 0
  /\ held' = 0
  /\ UNCHANGED <<log2, blk, delta_q>>

-----------------------------------------------------------------------------
\* JpegShared is set up: every level at its last value, no coefficients yet.
CoefInit ==
  /\ log2 \in LOG2
  /\ blk \in Blocks
  /\ stage = "row"
  /\ delta_q = Full
  /\ prev_q = Full
  /\ prev = 0
  /\ indices = <<>>
  /\ held = 0
  /\ next = 0
  /\ coef = 0
  /\ copy = 0

\* The stream is not a JPEG one.
CoefOff ==
  /\ log2 = 0
  /\ blk = 0
  /\ stage = "off"
  /\ delta_q = Full
  /\ prev_q = Full
  /\ prev = 0
  /\ indices = <<>>
  /\ held = 0
  /\ next = 0
  /\ coef = 0
  /\ copy = 0

CoefNext == Compute_dq \/ Compress

-----------------------------------------------------------------------------
\* Between two frames the receiver's coefficient is the one the encoder will
\* compare the next frame with, and both are the picture's, rounded to zero
\* at the level in force, whichever way the block went: found in the cache of
\* the sampling or not, with the level raised, lowered or kept.
ReceiverAgrees ==
  stage = "row" => /\ copy = prev
                   /\ prev = Quantize(coef, Delta_q0(delta_q))
=============================================================================
