----------------------------- MODULE MCLoopLimiter -----------------------------
(* LoopLimiter for TLC: two loops inside a third, so that one follows the other  *)
(* in the same body and both are entered again; or one loop inside another.      *)
EXTENDS LoopLimiter

TwoInside == <<0, 1, 1>>
OneInside == <<0, 1>>
=============================================================================
