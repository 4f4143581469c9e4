--------------------------- MODULE MCPollingOperation ---------------------------
(* PollingOperation with the default limit of two retries. *)
EXTENDS PollingOperation
===============================================================================
