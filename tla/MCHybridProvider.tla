-------------------------- MODULE MCHybridProvider --------------------------
(* The small instance of HybridProvider that TLC explores.                  *)
EXTENDS HybridProvider

CONSTANTS c1, c2, c3, p1, k1, k2

=============================================================================
