------------------------- MODULE MCQuerySubscription -------------------------
(* QuerySubscription on small sets: two items, so that one comes and goes while
   the other stays; a window of two cycles, so that the ring wraps; two polls,
   so that a cancelled one meets its successor. *)
EXTENDS QuerySubscription
===============================================================================
