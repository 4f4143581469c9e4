----------------------------- MODULE MCRestWorker -----------------------------
(* RestWorker on small sets.  Two call slots: a cancelled promise beside the
   next one.  Two stop() promises: one from before a restart. *)
EXTENDS RestWorker
===============================================================================
