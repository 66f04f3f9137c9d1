----------------------------- MODULE MCCopilot -----------------------------
(* The small instance of Copilot that TLC explores: the last card planned is *)
(* urgent and moves to the front, so that it shifts the others.              *)
EXTENDS Copilot

=============================================================================
