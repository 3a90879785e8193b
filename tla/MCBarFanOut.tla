----------------------------- MODULE MCBarFanOut -----------------------------
(* Every strategy trades on S; the bars of T are nobody's. *)
EXTENDS BarFanOut

CONSTANTS S, T

MCStreamOf(key) == S
=============================================================================
