--------------------------- MODULE MCEffectLedger ---------------------------
(* EffectLedger for TLC. *)
EXTENDS EffectLedger, TLC

CONSTANTS c1, c2, c3, k1, k2, h1, h2

MCCalls == {c1, c2, c3}
MCKeys == {k1, k2}
MCHashes == {h1, h2}

\* Calls, keys and hashes are only compared with each other.
MCSymmetry == Permutations(MCCalls) \cup Permutations(MCKeys) \cup Permutations(MCHashes)
=============================================================================
