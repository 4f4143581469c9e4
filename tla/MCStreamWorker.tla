---------------------------- MODULE MCStreamWorker ----------------------------
(* StreamWorker on small sets.  Two stream slots let a dead stream still emit
   events while its successor is opened; two poller slots let a second chain
   start if the code allowed one. *)
EXTENDS StreamWorker, TLC

(* Stream and poller slots are interchangeable.  Safety runs only. *)
Symmetry == Permutations(Stream) \cup Permutations(Poller)
===============================================================================
