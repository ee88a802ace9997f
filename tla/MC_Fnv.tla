------------------------------- MODULE MC_Fnv -------------------------------
EXTENDS Fnv

(* Published FNV-1a 32-bit vectors ("", "a", "foobar") and the identities *)
(* the converter derives for two service names of the repository's       *)
(* manifests: the reference definition reproduces them, and the run      *)
(* checks the modelled loop against the reference.                        *)
Vectors ==
  { <<<<>>, [hi |-> 33052, lo |-> 40389]>>,
    <<<<97>>, [hi |-> 58380, lo |-> 10540]>>,
    <<<<102, 111, 111, 98, 97, 114>>, [hi |-> 49052, lo |-> 63848]>>,
    <<<<66, 114, 97, 107, 101, 67, 111, 110, 116, 114, 111, 108>>,
      [hi |-> 62716, lo |-> 33077]>>,
    <<<<82, 97, 100, 97, 114>>, [hi |-> 19337, lo |-> 28603]>> }

ASSUME FnvVectors ==
  \A v \in Vectors : RefHash(v[1]) = Limbs(v[2])

MCAlphabet == {0, 97, 128, 255}
=============================================================================
