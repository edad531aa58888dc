----------------------------- MODULE MCSessions -----------------------------
(* The tabs of a browser are the calls it has under way.                   *)
EXTENDS Sessions

CONSTANTS b1, b2
=============================================================================
