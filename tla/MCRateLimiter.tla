---------------------------- MODULE MCRateLimiter ----------------------------
(* The rate limiter as settings.rate_limit() builds it from a rate and a      *)
(* burst, both in requests per Share minutes so that a rate may be below one. *)
EXTENDS RateLimiter

CONSTANTS Rate, Burst, Share

Minute == 3   \* clock ticks to a minute

MCCapacity == PerMinute(Rate, Burst, Minute).capacity
MCRefill == PerMinute(Rate, Burst, Minute).refill
MCToken == Minute * Share
=============================================================================
