---------------------------- MODULE MCRateLimits ----------------------------
(* Every limiter on every backend.                                         *)
EXTENDS RateLimits

MCSetups == Limiters \X Backends
=============================================================================
