----------------------------- MODULE MCPollWorker -----------------------------
(* PollWorker on small sets.  Two stream slots: a poll beside the stream of an
   earlier one.  Four jobs: the worker polls again with one still active, and
   does not with two leaked ones. *)
EXTENDS PollWorker
===============================================================================
