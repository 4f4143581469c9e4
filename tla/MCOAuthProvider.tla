--------------------------- MODULE MCOAuthProvider ---------------------------
(* OAuthProvider on small sets: two processes with a provider each, so that
   they share files and nothing else; two calls, so that they coalesce; two
   requests, so that a token is renewed, a failure retried and a refusal
   cleared.  p2 fails fast, p1 backs off. *)
EXTENDS OAuthProvider
===============================================================================
