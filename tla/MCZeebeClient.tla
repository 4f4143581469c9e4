----------------------------- MODULE MCZeebeClient -----------------------------
(* ZeebeClient on small sets: one command that retries for ever and one job
   action that retries once, so that both meet close() and the status timers. *)
EXTENDS ZeebeClient
===============================================================================
