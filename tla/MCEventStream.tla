--------------------------- MODULE MCEventStream ----------------------------
(* EventStream, with the intake it extends, for TLC. *)
EXTENDS EventStream

CONSTANTS e1, e2, d1, d2, w1, s1

MCEvents == {e1, e2}
MCDeliveries == {d1, d2}
MCRequests == {w1}
MCStreams == {s1}
=============================================================================
