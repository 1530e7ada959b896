---------------------------- MODULE MCRateLimiter ----------------------------
(* TLC instance of RateLimiter: a route with two requests in three seconds. *)
EXTENDS RateLimiter, TLC

TwoPerRoute == [r \in Routes |-> 2]

ThreeSeconds == [r \in Routes |-> 3]

=============================================================================
