--------------------------- MODULE MCRateLimiter ---------------------------
(* Two tokens every three seconds, bursts of two, one client too many. *)
EXTENDS RateLimiter
=============================================================================
