------------------------------- MODULE Selection -------------------------------
(***************************************************************************)
(* A loop over a slice that appends some of its elements to another one.   *)
(***************************************************************************)
EXTENDS Naturals, Sequences, SequencesExt

Kept(s, positions) ==
  FlattenSeq([i \in DOMAIN s |-> IF i \in positions THEN <<s[i]>> ELSE <<>>])
=============================================================================
