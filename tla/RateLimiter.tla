---------------------------- MODULE RateLimiter ----------------------------
(***************************************************************************)
(* The rate limiters of the price sources (crates/rate-limit/src/lib.rs),  *)
(* one for each source, shared by all requests to it.  drop_requests_until *)
(* is kept as the time that is left.                                       *)
(***************************************************************************)
EXTENDS Integers

CONSTANTS
  Source,
  min_back_off, max_back_off, back_off_growth_factor,
  MaxTimes   \* bound: limited answers in a row

ASSUME BackOffAssumption ==
  /\ {min_back_off, max_back_off, MaxTimes} \subseteq Nat
  /\ min_back_off <= max_back_off
  /\ back_off_growth_factor \in Nat \ {0}

VARIABLES
  times_rate_limited,   \* source -> limited answers in a row
  drop_requests_until   \* source -> time left, 0 when requests are allowed

limiters == <<times_rate_limited, drop_requests_until>>

MinOf(x, y) == IF x < y THEN x ELSE y

LimiterInit ==
  /\ times_rate_limited = [s \in Source |-> 0]
  /\ drop_requests_until = [s \in Source |-> 0]

get_current_back_off(s) ==
  MinOf(min_back_off * back_off_growth_factor ^ times_rate_limited[s], max_back_off)

Allowed(s) == drop_requests_until[s] = 0

\* Mutant of response_rate_limited: every limited answer extends the back-off.
response_rate_limited_always(s, previous) ==
  /\ times_rate_limited' = [times_rate_limited EXCEPT ![s] = @ + 1]
  /\ drop_requests_until' = [drop_requests_until EXCEPT ![s] = get_current_back_off(s)]

\* The back-off grows unless other answers changed it since the request was sent.
response_rate_limited(s, previous) ==
  IF times_rate_limited[s] # previous THEN UNCHANGED limiters
  ELSE /\ times_rate_limited' = [times_rate_limited EXCEPT ![s] = @ + 1]
       /\ drop_requests_until' = [drop_requests_until EXCEPT ![s] = get_current_back_off(s)]

\* An answer ends the back-off, also one that answers to later requests started.
response_ok(s) ==
  /\ times_rate_limited' = [times_rate_limited EXCEPT ![s] = 0]
  /\ drop_requests_until' = [drop_requests_until EXCEPT ![s] = 0]

LimiterTick ==
  /\ drop_requests_until' = [s \in Source |-> IF Allowed(s) THEN 0 ELSE drop_requests_until[s] - 1]
  /\ UNCHANGED times_rate_limited

============================================================================
