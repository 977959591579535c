------------------------------ MODULE Lossless ------------------------------
(***************************************************************************)
(* The lossless encoder of the reliable stream.  An image of one colour    *)
(* component is encoded in steps of bh pixel rows.  The prepared rows are  *)
(* in a buffer of two steps, used in turn, so that the row above is still  *)
(* there; a pixel is coded as the difference to a prediction from its      *)
(* neighbours or, in the delta-coded stream, if that is shorter for a      *)
(* whole chunk, to the same pixel of the previous frame.  With a colour    *)
(* bias only the upper bits of a pixel are coded.                          *)
(*                                                                         *)
(* Which of the two codings is shorter depends on the Huffman tables and   *)
(* is a free choice.  The decoder is external: it has only what was coded. *)
(***************************************************************************)
EXTENDS Integers, FiniteSets

CONSTANTS
  W,          \* bits of a pixel
  BITS,       \* coded bits to choose from (bb_c)
  BH,         \* rows per step to choose from (bh_c)
  STEPS,      \* steps of an image
  WIDTH,      \* pixels of a row (width_c)
  CHUNK,      \* DELTA_BLOCK_WIDTH_COUNT
  PALETTE     \* PALETTE[h]: the pixels a picture with bh = h is made of

ASSUME LosslessAssumption ==
  /\ W \in Nat \ {0}
  /\ BITS \subseteq 1..W
  /\ BH \subseteq Nat \ {0}
  /\ STEPS \in Nat \ {0} /\ WIDTH \in Nat \ {0} /\ CHUNK \in Nat \ {0}
  /\ WIDTH % CHUNK = 0
  /\ \A h \in BH : PALETTE[h] \subseteq 0..2^W - 1

VARIABLES
  bits,        \* bb_c of the colour bias
  bh,          \* bh_c; 0: the stream is not lossless
  delta_prog,  \* RP_CONFIG: delta-coded stream
  i,           \* step
  by,          \* row of the step about to be encoded
  buf,         \* prepared rows: 2 * bh of them
  prev_pixels, \* prev_coeffs: the rows of the last frame
  src,         \* rows last encoded (history)
  dec          \* rows of the decoder's image (external)

losslessVars == <<bits, bh, delta_prog, i, by, buf, prev_pixels, src, dec>>

Xs == 0..WIDTH - 1
Half == 2^(W - 1)
Lost == W - bits
Iy == (i % 2) * bh + by   \* the row's place in the buffer
Y == i * bh + by          \* the row's place in the image

-----------------------------------------------------------------------------
(* Predictions and residuals. *)

\* The median, as u8 arithmetic computes it.
Median_3(a, b, c) ==
  LET s == {a, b, c}
      max == CHOOSE m \in s : \A n \in s : m >= n
      min == CHOOSE m \in s : \A n \in s : m <= n
  IN  (a + b + c - max - min) % 2^W

\* The prediction from the neighbours that exist: top, left and top left.
Predict(hasTop, hasLeft, t, l, tl) ==
  CASE ~hasTop /\ ~hasLeft -> Half
    [] ~hasTop /\ hasLeft  -> l
    [] hasTop /\ ~hasLeft  -> t
    [] hasTop /\ hasLeft   -> Median_3(t, l, tl)

\* The two's complement value of n bits.
Signed(v, n) == IF v >= 2^(n - 1) THEN v - 2^n ELSE v

\* The residual of pixel c against p, in 0..2^W - 1: both are cut to the coded
\* bits, their difference is sign-extended and moved to the middle.
Residual(c, p) ==
  LET d == (c \div 2^Lost - p \div 2^Lost) % 2^W
      up == (d * 2^Lost) % 2^W
  IN  (Signed(up, W) \div 2^Lost + Half) % 2^W

\* The row above taken from the start of the other half.
Top_row_first == IF by > 0 \/ i % 2 = 1 THEN Iy - 1 ELSE Iy + bh

\* Place in the buffer of the row above, if there is one.
HasTop == by > 0 \/ i > 0
Top_row == IF by > 0 \/ i % 2 = 1 THEN Iy - 1 ELSE Iy + 2 * bh - 1

-----------------------------------------------------------------------------
\* The residual of pixel x against the prediction, b being the buffer.
Pred_pixel(b, x) ==
  LET t == IF HasTop THEN Top_row ELSE Iy
      l == IF x > 0 THEN x - 1 ELSE x
  IN  Residual(b[Iy][x], Predict(HasTop, x > 0, b[t][x], b[Iy][l], b[t][l]))

\* The chunks of a row for which the difference to the last frame is sent.
Flags == LET chunks == 0..(WIDTH \div CHUNK) - 1
         IN  IF delta_prog THEN [chunks -> BOOLEAN] ELSE [chunks -> {FALSE}]

\* The residuals put into the stream.
Encoded(b, flags) ==
  [x \in Xs |-> IF flags[x \div CHUNK] THEN Residual(b[Iy][x], prev_pixels[Y][x])
                ELSE Pred_pixel(b, x)]

\* External: the decoder has the coded bits of the pixels and of nothing else,
\* and predicts from the image it has decoded so far; left is the pixel it has
\* just decoded.
Decoded_pixel(x, left, flags, res) ==
  LET t == IF HasTop THEN dec[Y - 1] ELSE dec[Y]
      p == CASE flags[x \div CHUNK] -> dec[Y][x]
             [] ~flags[x \div CHUNK] /\ x > 0 ->
                  Predict(HasTop, TRUE, t[x], left, t[x - 1])
             [] ~flags[x \div CHUNK] /\ x = 0 ->
                  IF HasTop THEN t[x] ELSE Half \div 2^Lost
  IN  (p + res[x] - Half) % 2^bits

Decoded(flags, res) ==
  LET d[x \in Xs] == Decoded_pixel(x, d[x - 1], flags, res) IN d

\* One row of LosslessEncode::process: it has been prepared, it is encoded,
\* kept for the next frame and decoded at the other end.  Its pixels are drawn
\* here, the rows of a step before it do not read them.
Process_row ==
  /\ bh > 0
  /\ \E g \in [Xs -> PALETTE[bh]], flags \in Flags :
       LET b == [buf EXCEPT ![Iy] = g]
       IN  /\ buf' = b
           /\ src' = [src EXCEPT ![Y] = g]
           /\ prev_pixels' = IF delta_prog THEN [prev_pixels EXCEPT ![Y] = g]
                             ELSE prev_pixels
           /\ dec' = [dec EXCEPT ![Y] = Decoded(flags, Encoded(b, flags))]
  /\ by' = (by + 1) % bh
  /\ i' = IF by' = 0 THEN (i + 1) % STEPS ELSE i
  /\ UNCHANGED <<bits, bh, delta_prog>>

-----------------------------------------------------------------------------
Black(n) == [y \in 0..n - 1 |-> [x \in Xs |-> 0]]

\* The buffers start out zeroed, at both ends.
LosslessInit ==
  /\ bits \in BITS
  /\ bh \in BH
  /\ delta_prog \in BOOLEAN
  /\ i = 0
  /\ by = 0
  /\ buf = Black(2 * bh)
  /\ prev_pixels = Black(STEPS * bh)
  /\ src = Black(STEPS * bh)
  /\ dec = Black(STEPS * bh)

\* The stream is not a lossless one.
LosslessOff ==
  /\ bits = W
  /\ bh = 0
  /\ delta_prog = FALSE
  /\ i = 0
  /\ by = 0
  /\ buf = <<>>
  /\ prev_pixels = <<>>
  /\ src = <<>>
  /\ dec = <<>>

LosslessNext == Process_row

-----------------------------------------------------------------------------
\* The decoder, which never sees the low bits and predicts from its own image,
\* has of every row exactly the coded bits of the pixels that were encoded
\* last, whatever mix of predicted and delta-coded chunks it was sent.
LosslessExact ==
  \A y \in DOMAIN src, x \in Xs : dec[y][x] = src[y][x] \div 2^Lost
=============================================================================
