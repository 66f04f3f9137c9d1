--------------------------- MODULE MCUpdateBuffer ---------------------------
(* The small instance of UpdateBuffer that TLC explores.                    *)
EXTENDS UpdateBuffer, TLC

CONSTANTS h1, h2, h3, u1, u2, u3, u4, v1

MCSymmetry == Permutations(Handlers) \cup Permutations(Updates)

=============================================================================
