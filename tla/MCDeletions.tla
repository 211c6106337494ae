---------------------------- MODULE MCDeletions ----------------------------
(* Small instances of Deletions for TLC. *)
EXTENDS Deletions

CONSTANTS a1, a2, a3, c1, c2, c3

\* Three assets of different contents.
Distinct == [a \in Asset |-> IF a = a1 THEN c1 ELSE IF a = a2 THEN c2 ELSE c3]

\* One content that comes back under a second id.
ComesBack == [a \in Asset |-> c1]
=============================================================================
