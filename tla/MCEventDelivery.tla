-------------------------- MODULE MCEventDelivery --------------------------
(* Two requests and two definitions; the definitions are interchangeable,  *)
(* but liveness is checked, so no symmetry is declared.                    *)
EXTENDS EventDelivery

CONSTANTS q1, q2, d1, d2
=============================================================================
