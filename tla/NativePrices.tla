---------------------------- MODULE NativePrices ----------------------------
(***************************************************************************)
(* Native prices of tokens: the cache with its background task             *)
(* (crates/shared/src/price_estimation/native_price_cache.rs) over the     *)
(* competition of price sources (price_estimation/competition/mod.rs),     *)
(* whose requests are shared (request_sharing.rs) and rate limited.        *)
(*                                                                         *)
(* Time passes in units of the update interval; ages are counted up to     *)
(* max_age.  An estimation takes MaxEstimationTime at most.                *)
(***************************************************************************)
EXTENDS RateLimiter, Sequences, FiniteSets

CONSTANTS
  Token, Client,
  Result,            \* what sources say; UnsupportedToken and the rarer errors are left out
  Stages,            \* sequence of sets of sources
  results_required,  \* usable_results_for_early_return
  max_age, prefetch_time, MaxEstimationTime,
  update_size

ASSUME PriceAssumption ==
  /\ IsFiniteSet(Token) /\ IsFiniteSet(Source)
  /\ Result \subseteq {"Price", "NoLiquidity", "EstimatorInternal", "RateLimited"}
  /\ results_required \in Nat \ {0}
  /\ {max_age, prefetch_time, MaxEstimationTime} \subseteq Nat
  /\ prefetch_time < max_age
  /\ update_size \in Nat \ {0}

\* Every source belongs to a stage.
ASSUME StagesAssumption ==
  Stages \in Seq(SUBSET Source) /\ Source = UNION {Stages[i] : i \in DOMAIN Stages}

\* Workers are told apart.
ASSUME WorkerAssumption == Client \cap Token = {}

VARIABLES
  cache,           \* token -> CachedResult
  due,             \* "yes" when the update interval has passed
  batch,           \* task: tokens of this run that are not done
  jobs,            \* client, or token of the task -> its estimation
  flight,          \* token -> source -> its request that is out
  unfailed         \* history: tokens whose last estimation went well

vars == <<times_rate_limited, drop_requests_until, cache, due, batch, jobs, flight, unfailed>>

NoEntry == [result |-> "None", age |-> max_age, unanimous |-> TRUE]
Placeholder == [result |-> "Zero", age |-> max_age, unanimous |-> TRUE]
NoJob == [token |-> "None", stage |-> 0, time |-> 0, waiting |-> {},
          results |-> [s \in Source |-> "None"]]
NotSent == [previous |-> -1, wave |-> "new"]
Worker == Client \cup Token

Init ==
  /\ LimiterInit
  /\ cache = [t \in Token |-> NoEntry]
  /\ due = "yes" /\ batch = {}
  /\ jobs = [w \in Worker |-> NoJob]
  /\ flight = [t \in Token |-> [s \in Source |-> NotSent]]
  /\ unfailed = {}
----------------------------------------------------------------------------
(* The cache.                                                              *)

\* get_cached_price: is_recent.
Fresh(t, age) == cache[t] # NoEntry /\ cache[t].age < age

\* get_cached_prices while an auction with tokens ts is built: what is missing gets an
\* outdated entry.
GetCachedPrices(ts) ==
  /\ \E t \in ts : cache[t] = NoEntry
  /\ cache' = [t \in Token |-> IF t \in ts /\ cache[t] = NoEntry THEN Placeholder ELSE cache[t]]
  /\ UNCHANGED <<limiters, due, batch, jobs, flight, unfailed>>

\* Mutant of Outdated: prices are renewed once they have expired.
OutdatedExpired == {t \in Token : cache[t] # NoEntry /\ cache[t].age >= max_age}

\* sorted_tokens_to_update; which of them come first is left open.
Outdated == {t \in Token : cache[t] # NoEntry /\ cache[t].age > max_age - prefetch_time}

\* single_update, once per update interval.
StartRun(ts) ==
  /\ due = "yes" /\ batch = {}
  /\ ts \subseteq Outdated
  /\ Cardinality(ts) = MinOf(update_size, Cardinality(Outdated))
  /\ due' = "no"
  /\ batch' = ts
  /\ UNCHANGED <<limiters, cache, jobs, flight, unfailed>>

----------------------------------------------------------------------------
(* The competition of sources.                                             *)

Prices(results) == Cardinality({s \in Source : results[s] = "Price"})

missing_results(results) == results_required - MinOf(Prices(results), results_required)

\* Stages are taken until they can produce the missing results.
LastStage(job) ==
  LET sources(n) == UNION {Stages[i] : i \in job.stage + 1 .. n}
      enough == {n \in job.stage + 1 .. Len(Stages) :
                   Cardinality(sources(n)) >= missing_results(job.results)}
  IN  IF enough = {} THEN Len(Stages) ELSE CHOOSE n \in enough : \A i \in enough : n <= i

\* Sources are asked: a request that is out is shared, a limited one dropped.
Ask(w, job) ==
  LET t == job.token
      asked == UNION {Stages[i] : i \in job.stage + 1 .. LastStage(job)}
      sent == {s \in asked : flight[t][s] = NotSent /\ Allowed(s)}
      dropped == {s \in asked : flight[t][s] = NotSent /\ ~Allowed(s)}
  IN  /\ flight' = [flight EXCEPT ![t] = [s \in Source |->
           IF s \in sent THEN [previous |-> times_rate_limited[s], wave |-> "new"] ELSE @[s]]]
      /\ jobs' = [jobs EXCEPT ![w] =
           [job EXCEPT !.stage = LastStage(job), !.waiting = asked \ dropped,
                       !.results = [s \in Source |-> IF s \in dropped THEN "RateLimited" ELSE @[s]]]]

\* estimate_native_price of the cache for a client.
Estimate(c, t) ==
  /\ jobs[c] = NoJob
  /\ IF Fresh(t, max_age)
     THEN UNCHANGED <<jobs, flight>>
     ELSE Ask(c, [NoJob EXCEPT !.token = t])
  /\ UNCHANGED <<limiters, cache, due, batch, unfailed>>

\* The task takes a token of its run, unless it is fresh by now.
TaskEstimate(t) ==
  /\ t \in batch /\ jobs[t] = NoJob
  /\ IF Fresh(t, max_age - prefetch_time)
     THEN batch' = batch \ {t} /\ UNCHANGED <<jobs, flight>>
     ELSE Ask(t, [NoJob EXCEPT !.token = t]) /\ UNCHANGED batch
  /\ UNCHANGED <<limiters, cache, due, unfailed>>

\* rate_limited: an answer that is too slow counts as limited.
requires_back_off(result, speed) == speed = "slow" \/ result = "RateLimited"

\* A source answers all that wait for it.
SourceAnswers(t, s, result, speed) ==
  LET request == flight[t][s]
      limited == requires_back_off(result, speed)
      grows == limited /\ times_rate_limited[s] = request.previous
  IN  /\ request # NotSent
      /\ limited => times_rate_limited[s] < MaxTimes
      /\ IF limited THEN response_rate_limited(s, request.previous) ELSE response_ok(s)
      /\ flight' = [u \in Token |-> [x \in Source |->
           IF x # s \/ flight[u][x] = NotSent THEN flight[u][x]
           ELSE IF u = t THEN NotSent
           ELSE [flight[u][x] EXCEPT !.wave = IF ~limited THEN "ended"
                                         ELSE IF grows /\ @ = "new" THEN "extended" ELSE @]]]
      /\ jobs' = [w \in Worker |->
           IF jobs[w].token = t /\ s \in jobs[w].waiting
           THEN [jobs[w] EXCEPT !.waiting = @ \ {s}, !.results[s] = result] ELSE jobs[w]]
      /\ UNCHANGED <<cache, due, batch, unfailed>>

\* Mutant of error_priority: an error that can be cached is preferred.
error_priority_inverse(error) ==
  IF error = "NoLiquidity" THEN 3 ELSE IF error = "EstimatorInternal" THEN 2
  ELSE IF error = "RateLimited" THEN 1 ELSE 0

\* compare_error: transient errors win over those that can be cached.
error_priority(error) ==
  IF error = "RateLimited" THEN 3 ELSE IF error = "EstimatorInternal" THEN 2
  ELSE IF error = "NoLiquidity" THEN 1 ELSE 0

Winner(results) ==
  LET given == {results[s] : s \in Source}
  IN  IF "Price" \in given THEN "Price"
      ELSE CHOOSE r \in given : \A x \in given : error_priority(x) <= error_priority(r)

should_cache(result) == result \in {"Price", "NoLiquidity"}

\* Sources that others wait for as well: their requests outlive the estimation of w.
Shared(w, t) == UNION {jobs[x].waiting : x \in {y \in Worker \ {w} : jobs[y].token = t}}

\* produce_results goes on with the next stages, or its winner enters the cache.
Proceed(w) ==
  LET job == jobs[w]
      t == job.token
      result == Winner(job.results)
      ended == missing_results(job.results) = 0 \/ (job.waiting = {} /\ job.stage = Len(Stages))
  IN  /\ job # NoJob
      /\ ended \/ job.waiting = {}
      /\ IF ~ended
         THEN Ask(w, job) /\ UNCHANGED <<cache, batch, unfailed>>
         ELSE /\ jobs' = [jobs EXCEPT ![w] = NoJob]
              /\ flight' = [flight EXCEPT ![t] = [s \in Source |-> IF s \in Shared(w, t) THEN @[s] ELSE NotSent]]
              /\ batch' = batch \ {w}
              /\ IF should_cache(result)
                 THEN /\ cache' = [cache EXCEPT ![t] = [result |-> result, age |-> 0,
                           unanimous |-> \A s \in Source : job.results[s] = result]]
                      /\ unfailed' = unfailed \cup {t}
                 ELSE unfailed' = unfailed \ {t} /\ UNCHANGED cache
      /\ UNCHANGED <<limiters, due>>

----------------------------------------------------------------------------

\* Time passes unless an estimation or the next run is due.
Tick ==
  /\ \A w \in Worker : jobs[w] # NoJob => jobs[w].time < MaxEstimationTime
  /\ ~(due = "yes" /\ batch = {})
  /\ \A t \in batch : jobs[t] # NoJob
  /\ LimiterTick
  /\ due' = "yes"
  /\ cache' = [t \in Token |-> [cache[t] EXCEPT !.age = MinOf(@ + 1, max_age)]]
  /\ jobs' = [w \in Worker |-> IF jobs[w] = NoJob THEN NoJob ELSE [jobs[w] EXCEPT !.time = @ + 1]]
  /\ UNCHANGED <<batch, flight, unfailed>>

Next ==
  \/ \E ts \in SUBSET Token : GetCachedPrices(ts)
  \/ \E c \in Client, t \in Token : Estimate(c, t)
  \/ \E ts \in SUBSET Token : StartRun(ts)
  \/ \E t \in Token : TaskEstimate(t)
  \/ \E t \in Token, s \in Source, result \in Result, speed \in {"slow", "in time"} :
       SourceAnswers(t, s, result, speed)
  \/ \E w \in Worker : Proceed(w)
  \/ Tick

Spec == Init /\ [][Next]_vars

----------------------------------------------------------------------------
(* Properties.                                                             *)

\* "No liquidity" is cached, and served as long as a price, only if every source of
\* every stage said so: one that was limited, failed or was not asked prevents it.
NoLiquidityIsUnanimous ==
  \A t \in Token : cache[t].result = "NoLiquidity" => cache[t].unanimous

\* With room for all tokens in a run, a result does not expire before it is renewed,
\* unless its last estimation failed: prefetch_time covers the update interval and
\* the time of two estimations.
KeptWarm ==
  update_size >= Cardinality(Token) => \A t \in unfailed : cache[t].age < max_age

\* A request that was out when the back-off was extended does not extend it again,
\* unless an answer has ended the back-off since the request was sent.
OneGrowthPerWave ==
  [][\A t \in Token, s \in Source :
       times_rate_limited'[s] > times_rate_limited[s] /\ flight[t][s] # NotSent
         /\ flight'[t][s] = NotSent => flight[t][s].wave # "extended"]_vars
============================================================================
