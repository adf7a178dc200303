---------------------------- MODULE MCLocalIndex ----------------------------
(***************************************************************************)
(* An instance of LocalIndex for TLC: two terms that occur once, or so     *)
(* often that a frequency crosses a byte, and docnos of 0 or 2 characters. *)
(***************************************************************************)
EXTENDS LocalIndex

MCFreqs == UNION {[ts -> {1, 2, 6}] : ts \in SUBSET {1, 2}}

MCDocs == [docno : {0, 2}, freqs : MCFreqs]

MCBases == {1, 3}

=============================================================================
