----------------------------- MODULE MCCitedRag -----------------------------
(***************************************************************************)
(* Instances of CitedRag for TLC.  The .cfg files choose the processes and *)
(* the bounds; processes of one kind are interchangeable.                  *)
(***************************************************************************)
EXTENDS DocumentedClaims, Invariants, TLC

\* The version ids of an instance with one, two or three versions.
OneVersion == 1..1
TwoVersions == 1..2
ThreeVersions == 1..3

Symmetry ==
    Permutations(Workers) \cup Permutations(Cleaners) \cup Permutations(Uploaders)
        \cup Permutations(Deleters) \cup Permutations(Documents) \cup Permutations(Hashes)
=============================================================================
