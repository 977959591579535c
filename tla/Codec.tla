-------------------------------- MODULE Codec --------------------------------
(***************************************************************************)
(* The encoder of a stream: JPEG coefficients with delta-Q or lossless     *)
(* pixels, chosen when the stream is set up.                               *)
(***************************************************************************)
EXTENDS CoefDelta, Lossless

\* Pictures of two rows a step are black and white, the others have a dark
\* grey too, which differs from black in the bits that may be cut.
Palette == [h \in BH |-> {0, 2^W - 1} \cup (IF h = 1 THEN {1} ELSE {})]

vars == <<coefVars, losslessVars>>

\* EncoderShared is one of the two kinds.
Init == \/ CoefInit /\ LosslessOff
        \/ LosslessInit /\ CoefOff

Next == \/ CoefNext /\ UNCHANGED losslessVars
        \/ LosslessNext /\ UNCHANGED coefVars

Spec == Init /\ [][Next]_vars
=============================================================================
