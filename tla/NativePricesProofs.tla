------------------------- MODULE NativePricesProofs -------------------------
(***************************************************************************)
(* Proofs for NativePrices: what may be cached of a competition that found *)
(* no price, that the background task keeps prices warm, and that one wave *)
(* of limited answers extends a back-off once, for any tokens, sources,    *)
(* stages and times.                                                       *)
(***************************************************************************)
EXTENDS NativePrices, FiniteSetTheorems, WellFoundedInduction, TLAPS

Answer == {"Price", "NoLiquidity", "EstimatorInternal", "RateLimited"}
Job == [token : Token \cup {"None"}, stage : 0 .. Len(Stages), time : Nat,
        waiting : SUBSET Source, results : [Source -> Answer \cup {"None"}]]
Entry == [result : Answer \cup {"None", "Zero"}, age : Nat, unanimous : BOOLEAN]
Flight == [previous : Int, wave : {"new", "extended", "ended"}]

TypeInv ==
  /\ times_rate_limited \in [Source -> Nat]
  /\ cache \in [Token -> Entry]
  /\ due \in {"yes", "no"} /\ batch \in SUBSET Token
  /\ jobs \in [Worker -> Job]
  /\ flight \in [Token -> [Source -> Flight]]
  /\ unfailed \in SUBSET Token

\* The sources of the stages that were taken have answered, or are waited for.
AskedInv ==
  \A w \in Worker :
    /\ jobs[w] # NoJob => jobs[w].token \in Token
    /\ \A i \in 1 .. jobs[w].stage : \A s \in Stages[i] :
         s \in jobs[w].waiting \/ jobs[w].results[s] # "None"

\* A request remembers the state of its limiter until answers change it.
WaveInv ==
  \A t \in Token, s \in Source : flight[t][s] # NotSent =>
    /\ flight[t][s].previous \in Nat
    /\ flight[t][s].wave = "new" => times_rate_limited[s] = flight[t][s].previous
    /\ flight[t][s].wave = "extended" => times_rate_limited[s] > flight[t][s].previous

IInv == TypeInv /\ AskedInv /\ WaveInv /\ NoLiquidityIsUnanimous

----------------------------------------------------------------------------
(* The competition.                                                        *)

\* A set of natural numbers has a least element.
LEMMA LeastNumber ==
  ASSUME NEW S \in SUBSET Nat, S # {}
  PROVE  \E n \in S : \A i \in S : n <= i
<1>1. PICK n \in S : \A i \in S : ~(<<i, n>> \in OpToRel(<, Nat))
  BY NatLessThanWellFounded, WFMin
<1>2. ASSUME NEW i \in S PROVE n <= i
  <2>1. ~(<<i, n>> \in OpToRel(<, Nat))
    BY <1>1
  <2>2. ~(i < n)
    BY <2>1 DEF OpToRel
  <2> QED
    BY <2>2
<1> QED
  BY <1>2

\* The competition moves on until its last stage.
LEMMA LastStageMoves ==
  ASSUME NEW job \in Job
  PROVE  /\ LastStage(job) \in 0 .. Len(Stages) /\ job.stage <= LastStage(job)
         /\ job.stage < Len(Stages) => job.stage < LastStage(job)
<1> DEFINE sources(n) == UNION {Stages[i] : i \in job.stage + 1 .. n}
           enough == {n \in job.stage + 1 .. Len(Stages) :
                        Cardinality(sources(n)) >= missing_results(job.results)}
<1>1. LastStage(job) = IF enough = {} THEN Len(Stages)
                       ELSE CHOOSE n \in enough : \A i \in enough : n <= i
  BY DEF LastStage
<1>2. job.stage \in Nat /\ Len(Stages) \in Nat /\ job.stage <= Len(Stages)
  BY StagesAssumption DEF Job
<1>3. enough \subseteq job.stage + 1 .. Len(Stages) /\ enough \in SUBSET Nat
  BY <1>2
<1> HIDE DEF enough
<1>4. CASE enough = {}
  BY <1>1, <1>2, <1>4
<1>5. CASE enough # {}
  <2>1. LastStage(job) \in enough
    <3>1. \E n \in enough : \A i \in enough : n <= i
      BY <1>3, <1>5, LeastNumber
    <3>2. (CHOOSE n \in enough : \A i \in enough : n <= i) \in enough
      BY <3>1, Zenon
    <3> QED
      BY <1>1, <1>5, <3>2, Zenon
  <2>2. LastStage(job) \in job.stage + 1 .. Len(Stages)
    BY <1>3, <2>1, Zenon
  <2> QED
    BY <1>2, <2>2
<1> QED
  BY <1>4, <1>5

\* Ask: what changes for its job and for the requests that are out.
LEMMA AskIs ==
  ASSUME TypeInv, NEW w \in Worker, NEW job \in Job, job.token \in Token, Ask(w, job),
         \A i \in 1 .. job.stage : \A s \in Stages[i] : job.results[s] # "None"
  PROVE  /\ jobs' \in [Worker -> Job] /\ \A x \in Worker : x # w => jobs'[x] = jobs[x]
         /\ jobs'[w].token = job.token /\ jobs'[w].time = job.time
         /\ job.stage < Len(Stages) => jobs'[w].stage > job.stage
         /\ \A i \in 1 .. jobs'[w].stage : \A s \in Stages[i] :
              s \in jobs'[w].waiting \/ jobs'[w].results[s] # "None"
         /\ flight' \in [Token -> [Source -> Flight]]
         /\ \A t \in Token, s \in Source :
              \/ flight'[t][s] = flight[t][s]
              \/ /\ flight[t][s] = NotSent
                 /\ flight'[t][s] = [previous |-> times_rate_limited[s], wave |-> "new"]
<1> DEFINE t == job.token
           last == LastStage(job)
           asked == UNION {Stages[i] : i \in job.stage + 1 .. last}
           sent == {s \in asked : flight[t][s] = NotSent /\ Allowed(s)}
           dropped == {s \in asked : flight[t][s] = NotSent /\ ~Allowed(s)}
           row == [s \in Source |-> IF s \in sent
                                    THEN [previous |-> times_rate_limited[s], wave |-> "new"]
                                    ELSE flight[t][s]]
           answers == [s \in Source |-> IF s \in dropped THEN "RateLimited" ELSE job.results[s]]
           new == [job EXCEPT !.stage = last, !.waiting = asked \ dropped, !.results = answers]
<1>1. flight' = [flight EXCEPT ![t] = row] /\ jobs' = [jobs EXCEPT ![w] = new]
  BY DEF Ask
<1>2. /\ last \in 0 .. Len(Stages) /\ job.stage <= last /\ Len(Stages) \in Nat
      /\ job.stage < Len(Stages) => job.stage < last
      /\ job.stage \in Nat /\ last \in Nat
  BY LastStageMoves, StagesAssumption DEF Job
<1>3. \A i \in 1 .. Len(Stages) : Stages[i] \in SUBSET Source
  BY StagesAssumption
<1>4. asked \in SUBSET Source
  BY <1>2, <1>3
<1>5. answers \in [Source -> Answer \cup {"None"}]
  BY DEF Job, Answer
<1>6. ASSUME NEW i \in 1 .. last, NEW s \in Stages[i]
      PROVE  s \in asked \ dropped \/ answers[s] # "None"
  <2>1. s \in Source
    BY <1>2, <1>3
  <2>2. CASE i <= job.stage
    BY <1>2, <2>1, <2>2
  <2>3. CASE i > job.stage
    <3>1. s \in asked
      BY <1>2, <2>3
    <3> HIDE DEF asked, last
    <3> QED
      BY <2>1, <3>1
  <2> QED
    BY <1>2, <2>2, <2>3
<1>7. row \in [Source -> Flight]
  BY DEF TypeInv, Flight
<1>8. /\ flight' \in [Token -> [Source -> Flight]] /\ flight'[t] = row
      /\ \A v \in Token : v # t => flight'[v] = flight[v]
  <2> HIDE DEF row
  <2> QED
    BY <1>1, <1>7 DEF TypeInv
<1>9. \A s \in Source :
        \/ row[s] = flight[t][s]
        \/ /\ flight[t][s] = NotSent
           /\ row[s] = [previous |-> times_rate_limited[s], wave |-> "new"]
  <2> HIDE DEF asked
  <2> QED
    OBVIOUS
<1> HIDE DEF row, answers, dropped, asked, last
<1>10. /\ new \in Job /\ new.token = job.token /\ new.time = job.time /\ new.stage = last
       /\ new.waiting = asked \ dropped /\ new.results = answers
  BY <1>2, <1>4, <1>5 DEF Job
<1> HIDE DEF new
<1>11. /\ jobs' \in [Worker -> Job] /\ jobs'[w] = new
       /\ \A x \in Worker : x # w => jobs'[x] = jobs[x]
  BY <1>1, <1>10 DEF TypeInv
<1>12. /\ jobs'[w].stage = last /\ jobs'[w].waiting = asked \ dropped
       /\ jobs'[w].results = answers
  BY <1>10, <1>11
<1>13. \A i \in 1 .. jobs'[w].stage : \A s \in Stages[i] :
         s \in jobs'[w].waiting \/ jobs'[w].results[s] # "None"
  BY <1>6, <1>12
<1>14. \A v \in Token, s \in Source :
         \/ flight'[v][s] = flight[v][s]
         \/ /\ flight[v][s] = NotSent
            /\ flight'[v][s] = [previous |-> times_rate_limited[s], wave |-> "new"]
  BY <1>8, <1>9
<1> QED
  BY <1>2, <1>8, <1>10, <1>11, <1>12, <1>13, <1>14

\* Transient errors have the higher priority: an error that can be cached only wins
\* when no source said anything else.
LEMMA NoLiquidityWins ==
  ASSUME NEW results \in [Source -> Answer \cup {"None"}], Winner(results) = "NoLiquidity",
         \A s \in Source : results[s] # "None"
  PROVE  \A s \in Source : results[s] = "NoLiquidity"
<1> DEFINE given == {results[s] : s \in Source}
           Best(r) == \A x \in given : error_priority(x) <= error_priority(r)
<1> SUFFICES ASSUME NEW s \in Source, results[s] # "NoLiquidity" PROVE FALSE
  OBVIOUS
<1>1. /\ results[s] \in given /\ "Price" \notin given
      /\ \A x \in given : x \in {"NoLiquidity", "EstimatorInternal", "RateLimited"}
  BY DEF Winner, Answer
<1>2. Winner(results) = CHOOSE r \in given : Best(r)
  BY <1>1, Zenon DEF Winner
<1>3. \E r \in given : Best(r)
  <2>1. CASE "RateLimited" \in given
    BY <1>1, <2>1 DEF error_priority
  <2>2. CASE "RateLimited" \notin given /\ "EstimatorInternal" \in given
    BY <1>1, <2>2 DEF error_priority
  <2>3. CASE "RateLimited" \notin given /\ "EstimatorInternal" \notin given
    BY <1>1, <2>3 DEF error_priority
  <2> QED
    BY <2>1, <2>2, <2>3
<1>4. Best("NoLiquidity")
  BY <1>2, <1>3, Zenon
<1> QED
  BY <1>1, <1>4 DEF error_priority, Answer

\* A competition without a price ends when all sources of all stages have answered.
LEMMA EndedWithoutPrice ==
  ASSUME NEW job \in Job, \A s \in Source : job.results[s] # "Price",
         \/ missing_results(job.results) = 0
         \/ job.waiting = {} /\ job.stage = Len(Stages),
         \A i \in 1 .. job.stage : \A s \in Stages[i] :
           s \in job.waiting \/ job.results[s] # "None"
  PROVE  \A s \in Source : job.results[s] # "None"
<1>1. missing_results(job.results) # 0
  <2>1. {s \in Source : job.results[s] = "Price"} = {}
    OBVIOUS
  <2>2. Prices(job.results) = 0
    BY <2>1, FS_EmptySet DEF Prices
  <2> QED
    BY <2>2, PriceAssumption DEF missing_results, MinOf
<1>2. job.waiting = {} /\ job.stage = Len(Stages)
  BY <1>1
<1>3. ASSUME NEW s \in Source PROVE \E i \in 1 .. Len(Stages) : s \in Stages[i]
  BY StagesAssumption
<1> QED
  BY <1>2, <1>3

----------------------------------------------------------------------------
(* The steps.                                                              *)

\* Nothing is cached and nothing is asked.
LEMMA InitIInv == Init => IInv
<1> SUFFICES ASSUME Init PROVE IInv
  OBVIOUS
<1>1. NoJob \in Job /\ NoJob.stage = 0
  BY StagesAssumption DEF NoJob, Job
<1>2. NoEntry \in Entry /\ NoEntry.result = "None"
  BY PriceAssumption DEF NoEntry, Entry
<1>3. NotSent \in Flight
  BY DEF NotSent, Flight
<1>4. TypeInv
  BY <1>1, <1>2, <1>3 DEF Init, LimiterInit, TypeInv
<1>5. AskedInv /\ WaveInv /\ NoLiquidityIsUnanimous
  BY <1>1, <1>2 DEF Init, AskedInv, WaveInv, NoLiquidityIsUnanimous
<1> QED
  BY <1>4, <1>5 DEF IInv

\* No step but an answer changes the number of limited answers, and only results
\* enter the cache.
LEMMA QuietIInv ==
  ASSUME IInv, UNCHANGED times_rate_limited,
         due' \in {"yes", "no"}, batch' \in SUBSET Token, unfailed' \in SUBSET Token,
         cache' \in [Token -> Entry], jobs' \in [Worker -> Job],
         flight' \in [Token -> [Source -> Flight]],
         \A t \in Token : \/ cache'[t].result # "NoLiquidity"
                          \/ /\ cache'[t].result = cache[t].result
                             /\ cache'[t].unanimous = cache[t].unanimous,
         AskedInv',
         \A t \in Token, s \in Source :
           \/ flight'[t][s] = flight[t][s]
           \/ flight'[t][s] = NotSent
           \/ flight'[t][s] = [previous |-> times_rate_limited[s], wave |-> "new"]
  PROVE  IInv'
<1>1. TypeInv'
  BY DEF IInv, TypeInv
<1>2. WaveInv'
  <2> SUFFICES ASSUME NEW t \in Token, NEW s \in Source, flight'[t][s] # NotSent
               PROVE  LET f == flight'[t][s] IN
                      /\ f.previous \in Nat
                      /\ f.wave = "new" => times_rate_limited[s] = f.previous
                      /\ f.wave = "extended" => times_rate_limited[s] > f.previous
    BY DEF WaveInv
  <2>1. CASE flight'[t][s] = flight[t][s]
    BY <2>1 DEF IInv, WaveInv
  <2>2. CASE flight'[t][s] = [previous |-> times_rate_limited[s], wave |-> "new"]
    BY <2>2 DEF IInv, TypeInv
  <2> QED
    BY <2>1, <2>2
<1>3. NoLiquidityIsUnanimous'
  BY DEF IInv, NoLiquidityIsUnanimous
<1> QED
  BY <1>1, <1>2, <1>3 DEF IInv

\* Placeholders, the start of a run and time.
LEMMA CacheIInv ==
  ASSUME IInv,
         \/ \E ts \in SUBSET Token : GetCachedPrices(ts)
         \/ \E ts \in SUBSET Token : StartRun(ts)
         \/ Tick
         \/ UNCHANGED vars
  PROVE  IInv'
<1>1. /\ jobs \in [Worker -> Job] /\ cache \in [Token -> Entry]
      /\ flight \in [Token -> [Source -> Flight]]
      /\ due \in {"yes", "no"} /\ batch \in SUBSET Token /\ unfailed \in SUBSET Token
  BY DEF IInv, TypeInv
<1>2. CASE \E ts \in SUBSET Token : GetCachedPrices(ts)
  <2>1. PICK ts \in SUBSET Token : GetCachedPrices(ts)
    BY <1>2
  <2>2. Placeholder \in Entry /\ Placeholder.result # "NoLiquidity"
    BY PriceAssumption DEF Placeholder, Entry
  <2>3. /\ UNCHANGED <<times_rate_limited, due, batch, jobs, flight, unfailed>>
        /\ cache' = [t \in Token |-> IF t \in ts /\ cache[t] = NoEntry THEN Placeholder
                                                                       ELSE cache[t]]
    BY <2>1 DEF GetCachedPrices, limiters
  <2>4. cache' \in [Token -> Entry] /\ \A t \in Token : cache'[t] \in {Placeholder, cache[t]}
    BY <1>1, <2>2, <2>3
  <2>5. AskedInv'
    BY <2>3 DEF IInv, AskedInv
  <2> QED
    BY <1>1, <2>2, <2>3, <2>4, <2>5, QuietIInv
<1>3. CASE \E ts \in SUBSET Token : StartRun(ts)
  <2>1. /\ UNCHANGED <<times_rate_limited, cache, jobs, flight, unfailed>>
        /\ due' = "no" /\ batch' \in SUBSET Token
    BY <1>3 DEF StartRun, limiters
  <2>2. AskedInv'
    BY <2>1 DEF IInv, AskedInv
  <2> QED
    BY <1>1, <2>1, <2>2, QuietIInv
<1>4. CASE Tick
  <2>1. /\ UNCHANGED <<times_rate_limited, batch, flight, unfailed>> /\ due' = "yes"
        /\ cache' = [t \in Token |-> [cache[t] EXCEPT !.age = MinOf(cache[t].age + 1, max_age)]]
        /\ jobs' = [w \in Worker |-> IF jobs[w] = NoJob THEN NoJob
                                     ELSE [jobs[w] EXCEPT !.time = jobs[w].time + 1]]
    BY <1>4 DEF Tick, LimiterTick
  <2>2. ASSUME NEW t \in Token
        PROVE  /\ cache'[t] \in Entry /\ cache'[t].result = cache[t].result
               /\ cache'[t].unanimous = cache[t].unanimous
    <3>1. cache[t] \in Entry
      BY <1>1
    <3>2. cache'[t] = [cache[t] EXCEPT !.age = MinOf(cache[t].age + 1, max_age)]
      BY <2>1
    <3>3. MinOf(cache[t].age + 1, max_age) \in Nat
      BY <3>1, PriceAssumption DEF MinOf, Entry
    <3> QED
      BY <3>1, <3>2, <3>3 DEF Entry
  <2>3. ASSUME NEW w \in Worker
        PROVE  /\ jobs'[w] \in Job /\ jobs'[w].token = jobs[w].token
               /\ jobs'[w].stage = jobs[w].stage /\ jobs'[w].waiting = jobs[w].waiting
               /\ jobs'[w].results = jobs[w].results
               /\ jobs'[w] # NoJob => jobs[w] # NoJob
    <3>1. jobs[w] \in Job
      BY <1>1
    <3>2. CASE jobs[w] = NoJob
      BY <2>1, <3>1, <3>2
    <3>3. CASE jobs[w] # NoJob
      BY <2>1, <3>1, <3>3 DEF Job
    <3> QED
      BY <3>2, <3>3
  <2>4. cache' \in [Token -> Entry] /\ jobs' \in [Worker -> Job]
    BY <2>1, <2>2, <2>3
  <2>5. AskedInv'
    <3> SUFFICES ASSUME NEW w \in Worker
                 PROVE  /\ jobs'[w] # NoJob => jobs'[w].token \in Token
                        /\ \A i \in 1 .. jobs'[w].stage : \A s \in Stages[i] :
                             s \in jobs'[w].waiting \/ jobs'[w].results[s] # "None"
      BY DEF AskedInv
    <3>1. /\ jobs[w] # NoJob => jobs[w].token \in Token
          /\ \A i \in 1 .. jobs[w].stage : \A s \in Stages[i] :
               s \in jobs[w].waiting \/ jobs[w].results[s] # "None"
      BY DEF IInv, AskedInv
    <3>2. /\ jobs'[w].token = jobs[w].token
          /\ jobs'[w] # NoJob => jobs[w] # NoJob
          /\ jobs'[w].stage = jobs[w].stage /\ jobs'[w].waiting = jobs[w].waiting
          /\ jobs'[w].results = jobs[w].results
      BY <2>3
    <3> QED
      BY <3>1, <3>2
  <2> QED
    BY <1>1, <2>1, <2>2, <2>4, <2>5, QuietIInv
<1>5. CASE UNCHANGED vars
  <2>1. UNCHANGED <<times_rate_limited, cache, due, batch, jobs, flight, unfailed>>
    BY <1>5 DEF vars
  <2>2. AskedInv'
    BY <2>1 DEF IInv, AskedInv
  <2> QED
    BY <1>1, <2>1, <2>2, QuietIInv
<1> QED
  BY <1>2, <1>3, <1>4, <1>5

\* Asking the sources of the next stages.
LEMMA AskIInv ==
  ASSUME IInv, NEW w \in Worker, NEW job \in Job, job.token \in Token, Ask(w, job),
         \A i \in 1 .. job.stage : \A s \in Stages[i] : job.results[s] # "None",
         UNCHANGED <<times_rate_limited, cache, due, unfailed>>, batch' \in SUBSET Token
  PROVE  IInv'
<1>1. TypeInv
  BY DEF IInv
<1>2. /\ jobs' \in [Worker -> Job] /\ \A x \in Worker : x # w => jobs'[x] = jobs[x]
      /\ jobs'[w].token = job.token
      /\ \A i \in 1 .. jobs'[w].stage : \A s \in Stages[i] :
           s \in jobs'[w].waiting \/ jobs'[w].results[s] # "None"
      /\ flight' \in [Token -> [Source -> Flight]]
      /\ \A t \in Token, s \in Source :
           \/ flight'[t][s] = flight[t][s]
           \/ flight'[t][s] = [previous |-> times_rate_limited[s], wave |-> "new"]
  BY <1>1, AskIs
<1>3. AskedInv'
  <2> SUFFICES ASSUME NEW x \in Worker
               PROVE  /\ jobs'[x] # NoJob => jobs'[x].token \in Token
                      /\ \A i \in 1 .. jobs'[x].stage : \A s \in Stages[i] :
                           s \in jobs'[x].waiting \/ jobs'[x].results[s] # "None"
    BY DEF AskedInv
  <2>1. CASE x = w
    BY <1>2, <2>1
  <2>2. CASE x # w
    <3>1. jobs'[x] = jobs[x]
      BY <1>2, <2>2
    <3> QED
      BY <3>1 DEF IInv, AskedInv
  <2> QED
    BY <2>1, <2>2
<1>4. /\ cache' \in [Token -> Entry] /\ due' \in {"yes", "no"} /\ unfailed' \in SUBSET Token
      /\ \A t \in Token : cache'[t] = cache[t]
  BY <1>1 DEF TypeInv
<1> QED
  BY <1>2, <1>3, <1>4, QuietIInv

\* A new estimation for a token starts before the first stage.
LEMMA NewJob ==
  ASSUME NEW t \in Token
  PROVE  LET job == [NoJob EXCEPT !.token = t] IN
         job \in Job /\ job.token = t /\ job.stage = 0 /\ job.time = 0
<1>1. NoJob \in Job /\ NoJob.stage = 0 /\ NoJob.time = 0
  BY StagesAssumption DEF NoJob, Job
<1> QED
  BY <1>1 DEF Job

\* Clients and the task start estimations.
LEMMA EstimateIInv ==
  ASSUME IInv,
         \/ \E c \in Client, t \in Token : Estimate(c, t)
         \/ \E t \in Token : TaskEstimate(t)
  PROVE  IInv'
<1>1. batch \in SUBSET Token /\ TypeInv
  BY DEF IInv, TypeInv
<1>2. ASSUME NEW t \in Token, NEW w \in Worker, Ask(w, [NoJob EXCEPT !.token = t]),
             UNCHANGED <<times_rate_limited, cache, due, batch, unfailed>>
      PROVE  IInv'
  <2> DEFINE job == [NoJob EXCEPT !.token = t]
  <2>1. job \in Job /\ job.token = t /\ job.stage = 0
    BY NewJob
  <2>2. \A i \in 1 .. job.stage : \A s \in Stages[i] : job.results[s] # "None"
    BY <2>1
  <2>3. Ask(w, job)
    BY <1>2
  <2> HIDE DEF job
  <2> QED
    BY <1>1, <1>2, <2>1, <2>2, <2>3, AskIInv
<1>3. ASSUME UNCHANGED <<times_rate_limited, cache, due, jobs, flight, unfailed>>,
             batch' \in SUBSET Token
      PROVE  IInv'
  <2>1. AskedInv'
    BY <1>3 DEF IInv, AskedInv
  <2> QED
    BY <1>1, <1>3, <2>1, QuietIInv DEF TypeInv
<1>4. CASE \E c \in Client, t \in Token : Estimate(c, t)
  <2>1. PICK c \in Client, t \in Token : Estimate(c, t)
    BY <1>4
  <2>2. c \in Worker /\ UNCHANGED <<times_rate_limited, cache, due, batch, unfailed>>
    BY <2>1 DEF Worker, Estimate, limiters
  <2>3. UNCHANGED <<jobs, flight>> \/ Ask(c, [NoJob EXCEPT !.token = t])
    BY <2>1 DEF Estimate
  <2> QED
    BY <1>1, <1>2, <1>3, <2>2, <2>3
<1>5. CASE \E t \in Token : TaskEstimate(t)
  <2>1. PICK t \in Token : TaskEstimate(t)
    BY <1>5
  <2>2. t \in Worker /\ UNCHANGED <<times_rate_limited, cache, due, unfailed>>
    BY <2>1 DEF Worker, TaskEstimate, limiters
  <2>3. \/ batch' = batch \ {t} /\ UNCHANGED <<jobs, flight>>
        \/ Ask(t, [NoJob EXCEPT !.token = t]) /\ UNCHANGED batch
    BY <2>1 DEF TaskEstimate
  <2> QED
    BY <1>1, <1>2, <1>3, <2>2, <2>3
<1> QED
  BY <1>4, <1>5

\* What an answer changes for a worker.
LEMMA AnswerJobs ==
  ASSUME TypeInv, NEW t \in Token, NEW s \in Source, NEW result \in Result, NEW speed,
         SourceAnswers(t, s, result, speed), NEW w \in Worker
  PROVE  \/ jobs'[w] = jobs[w]
         \/ /\ jobs[w] # NoJob /\ jobs'[w] # NoJob /\ jobs'[w] \in Job
            /\ jobs'[w].token = jobs[w].token /\ jobs'[w].time = jobs[w].time
            /\ jobs'[w].stage = jobs[w].stage /\ jobs'[w].waiting = jobs[w].waiting \ {s}
            /\ jobs'[w].results[s] # "None"
            /\ \A x \in Source : x # s => jobs'[w].results[x] = jobs[w].results[x]
<1> DEFINE job == [jobs[w] EXCEPT !.waiting = jobs[w].waiting \ {s}, !.results[s] = result]
<1>1. jobs'[w] = IF jobs[w].token = t /\ s \in jobs[w].waiting THEN job ELSE jobs[w]
  BY DEF SourceAnswers
<1>2. jobs[w] \in Job
  BY DEF TypeInv
<1>3. result \in Answer
  BY PriceAssumption DEF Answer
<1>4. /\ job.token = jobs[w].token /\ job.time = jobs[w].time /\ job.stage = jobs[w].stage
      /\ job.waiting = jobs[w].waiting \ {s} /\ job.results[s] = result /\ job \in Job
      /\ \A x \in Source : x # s => job.results[x] = jobs[w].results[x]
  BY <1>2, <1>3 DEF Job
<1>5. job # NoJob
  <2>1. NoJob.results[s] = "None"
    BY DEF NoJob
  <2>2. job.results[s] # "None"
    BY <1>3, <1>4 DEF Answer
  <2> HIDE DEF job
  <2> QED
    BY <2>1, <2>2
<1>6. s \in jobs[w].waiting => jobs[w] # NoJob
  BY DEF NoJob
<1>7. "None" \notin Answer
  BY DEF Answer
<1> HIDE DEF job
<1> QED
  BY <1>1, <1>3, <1>4, <1>5, <1>6, <1>7

\* What an answer changes for a request and its limiter.
LEMMA AnswerFlight ==
  ASSUME TypeInv, WaveInv, NEW t \in Token, NEW s \in Source, NEW result, NEW speed,
         SourceAnswers(t, s, result, speed), NEW u \in Token, NEW x \in Source
  PROVE  /\ flight'[u][x] \in Flight
         /\ \/ flight'[u][x] = NotSent
            \/ /\ flight[u][x] # NotSent /\ flight'[u][x] # NotSent /\ (u # t \/ x # s)
               /\ flight'[u][x].previous = flight[u][x].previous
               /\ flight'[u][x].wave = "new" => times_rate_limited'[x] = flight[u][x].previous
               /\ flight'[u][x].wave = "extended" =>
                    times_rate_limited'[x] > flight[u][x].previous
         /\ times_rate_limited'[x] > times_rate_limited[x] =>
              x = s /\ times_rate_limited[x] = flight[t][s].previous
         /\ flight[u][x] # NotSent /\ (u # t \/ x # s) => flight'[u][x] # NotSent
<1> DEFINE limited == requires_back_off(result, speed)
           grows == limited /\ times_rate_limited[s] = flight[t][s].previous
           f == flight[u][x]
           wave == IF ~limited THEN "ended"
                   ELSE IF grows /\ f.wave = "new" THEN "extended" ELSE f.wave
           g == [f EXCEPT !.wave = wave]
<1>1. flight'[u][x] = IF x # s \/ f = NotSent THEN f ELSE IF u = t THEN NotSent ELSE g
  BY DEF SourceAnswers
<1>2. times_rate_limited' = IF ~limited THEN [times_rate_limited EXCEPT ![s] = 0]
                            ELSE IF grows
                            THEN [times_rate_limited EXCEPT ![s] = times_rate_limited[s] + 1]
                            ELSE times_rate_limited
  BY DEF SourceAnswers, response_rate_limited, response_ok, limiters
<1>3. times_rate_limited \in [Source -> Nat] /\ f \in Flight
  BY DEF TypeInv
<1>4. f # NotSent => /\ f.previous \in Nat
                     /\ f.wave = "new" => times_rate_limited[x] = f.previous
                     /\ f.wave = "extended" => times_rate_limited[x] > f.previous
  BY DEF WaveInv
<1>5. NotSent \in Flight /\ NotSent.previous = -1
  BY DEF NotSent, Flight
<1>6. g \in Flight /\ g.previous = f.previous /\ g.wave = wave
  BY <1>3 DEF Flight
<1>7. f # NotSent => g # NotSent
  <2> HIDE DEF f, g
  <2> SUFFICES ASSUME f # NotSent, g = NotSent PROVE FALSE
    OBVIOUS
  <2>1. f.previous = -1 /\ f.previous \in Nat
    BY <1>4, <1>5, <1>6
  <2> QED
    BY <2>1
<1>8. /\ times_rate_limited'[x] > times_rate_limited[x] => x = s /\ grows
      /\ x # s => times_rate_limited'[x] = times_rate_limited[x]
      /\ ~limited => times_rate_limited'[s] = 0
      /\ grows => times_rate_limited'[s] = times_rate_limited[s] + 1
      /\ limited /\ ~grows => times_rate_limited'[s] = times_rate_limited[s]
  <2> HIDE DEF limited
  <2> QED
    BY <1>2, <1>3
<1> HIDE DEF f, g, limited
<1>9. CASE x # s \/ f = NotSent
  BY <1>1, <1>3, <1>4, <1>8, <1>9 DEF f
<1>10. CASE x = s /\ f # NotSent /\ u = t
  BY <1>1, <1>5, <1>8, <1>10 DEF f
<1>11. CASE x = s /\ f # NotSent /\ u # t
  <2>1. flight'[u][x] = g
    BY <1>1, <1>11
  <2>2. f.previous \in Nat /\ times_rate_limited[x] \in Nat
    BY <1>3, <1>4, <1>11
  <2>3. CASE ~limited
    BY <1>6, <1>7, <1>8, <1>11, <2>1, <2>3 DEF f
  <2>4. CASE limited /\ grows
    BY <1>4, <1>6, <1>7, <1>8, <1>11, <2>1, <2>2, <2>4 DEF f
  <2>5. CASE limited /\ ~grows
    BY <1>4, <1>6, <1>7, <1>8, <1>11, <2>1, <2>2, <2>5 DEF f
  <2> QED
    BY <2>3, <2>4, <2>5
<1> QED
  BY <1>9, <1>10, <1>11

\* A request that is answered when the back-off grows made it grow.
LEMMA AnswerGrowth ==
  ASSUME TypeInv, WaveInv, NEW t \in Token, NEW s \in Source, NEW result, NEW speed,
         SourceAnswers(t, s, result, speed), NEW u \in Token, NEW x \in Source,
         times_rate_limited'[x] > times_rate_limited[x],
         flight[u][x] # NotSent, flight'[u][x] = NotSent
  PROVE  x = s /\ times_rate_limited[x] = flight[t][s].previous /\ u = t
<1>1. /\ times_rate_limited'[x] > times_rate_limited[x] =>
           x = s /\ times_rate_limited[x] = flight[t][s].previous
      /\ flight[u][x] # NotSent /\ (u # t \/ x # s) => flight'[u][x] # NotSent
  BY AnswerFlight
<1> QED
  BY <1>1, Zenon

\* A source answers.
LEMMA AnswerIInv ==
  ASSUME IInv, NEW t \in Token, NEW s \in Source, NEW result \in Result, NEW speed,
         SourceAnswers(t, s, result, speed)
  PROVE  IInv'
<1>1. TypeInv /\ WaveInv /\ UNCHANGED <<cache, due, batch, unfailed>>
  BY DEF IInv, SourceAnswers
<1>2. times_rate_limited' \in [Source -> Nat]
  <2>1. \/ UNCHANGED times_rate_limited
        \/ times_rate_limited' = [times_rate_limited EXCEPT ![s] = times_rate_limited[s] + 1]
        \/ times_rate_limited' = [times_rate_limited EXCEPT ![s] = 0]
    BY DEF SourceAnswers, response_rate_limited, response_ok, limiters
  <2>2. times_rate_limited \in [Source -> Nat]
    BY <1>1 DEF TypeInv
  <2> QED
    BY <2>1, <2>2
<1>3. jobs' \in [Worker -> Job]
  <2>1. \A w \in Worker : jobs'[w] \in Job
    BY <1>1, AnswerJobs DEF TypeInv
  <2>2. jobs' = [w \in Worker |-> jobs'[w]]
    BY DEF SourceAnswers
  <2> QED
    BY <2>1, <2>2
<1>4. flight' \in [Token -> [Source -> Flight]]
  <2>1. \A u \in Token, x \in Source : flight'[u][x] \in Flight
    BY <1>1, AnswerFlight
  <2>2. flight' = [u \in Token |-> [x \in Source |-> flight'[u][x]]]
    BY DEF SourceAnswers
  <2> QED
    BY <2>1, <2>2
<1>5. TypeInv'
  BY <1>1, <1>2, <1>3, <1>4 DEF TypeInv
<1>6. AskedInv'
  <2> SUFFICES ASSUME NEW w \in Worker
               PROVE  /\ jobs'[w] # NoJob => jobs'[w].token \in Token
                      /\ \A i \in 1 .. jobs'[w].stage : \A y \in Stages[i] :
                           y \in jobs'[w].waiting \/ jobs'[w].results[y] # "None"
    BY DEF AskedInv
  <2>1. /\ jobs[w] # NoJob => jobs[w].token \in Token
        /\ \A i \in 1 .. jobs[w].stage : \A y \in Stages[i] :
             y \in jobs[w].waiting \/ jobs[w].results[y] # "None"
    BY DEF IInv, AskedInv
  <2>2. CASE jobs'[w] = jobs[w]
    BY <2>1, <2>2
  <2>3. CASE /\ jobs[w] # NoJob /\ jobs'[w] # NoJob /\ jobs'[w] \in Job
             /\ jobs'[w].token = jobs[w].token /\ jobs'[w].time = jobs[w].time
             /\ jobs'[w].stage = jobs[w].stage /\ jobs'[w].waiting = jobs[w].waiting \ {s}
             /\ jobs'[w].results[s] # "None"
             /\ \A x \in Source : x # s => jobs'[w].results[x] = jobs[w].results[x]
    <3>1. \A i \in 1 .. jobs'[w].stage : Stages[i] \in SUBSET Source
      BY <2>3, StagesAssumption DEF Job
    <3> QED
      BY <2>1, <2>3, <3>1
  <2> QED
    BY <1>1, <2>2, <2>3, AnswerJobs
<1>7. WaveInv'
  <2> SUFFICES ASSUME NEW u \in Token, NEW x \in Source, flight'[u][x] # NotSent
               PROVE  LET f == flight'[u][x] IN
                      /\ f.previous \in Nat
                      /\ f.wave = "new" => times_rate_limited'[x] = f.previous
                      /\ f.wave = "extended" => times_rate_limited'[x] > f.previous
    BY DEF WaveInv
  <2>1. /\ flight[u][x] # NotSent
        /\ flight'[u][x].previous = flight[u][x].previous
        /\ flight'[u][x].wave = "new" => times_rate_limited'[x] = flight[u][x].previous
        /\ flight'[u][x].wave = "extended" => times_rate_limited'[x] > flight[u][x].previous
    BY <1>1, AnswerFlight
  <2> QED
    BY <1>1, <2>1 DEF WaveInv
<1>8. NoLiquidityIsUnanimous'
  BY <1>1 DEF IInv, NoLiquidityIsUnanimous
<1> QED
  BY <1>5, <1>6, <1>7, <1>8 DEF IInv

\* An estimation goes on, or ends and its winner is cached.
LEMMA ProceedIInv ==
  ASSUME IInv, NEW w \in Worker, Proceed(w)
  PROVE  IInv'
<1> DEFINE job == jobs[w]
           t == job.token
           result == Winner(job.results)
           ended == \/ missing_results(job.results) = 0
                    \/ job.waiting = {} /\ job.stage = Len(Stages)
           row == [s \in Source |-> IF s \in Shared(w, t) THEN flight[t][s] ELSE NotSent]
           entry == [result |-> result, age |-> 0,
                     unanimous |-> \A s \in Source : job.results[s] = result]
<1>1. TypeInv /\ job \in Job /\ job # NoJob /\ UNCHANGED <<times_rate_limited, due>>
  BY DEF IInv, TypeInv, Proceed, limiters
<1>2. /\ t \in Token
      /\ \A i \in 1 .. job.stage : \A s \in Stages[i] :
           s \in job.waiting \/ job.results[s] # "None"
  BY <1>1 DEF IInv, AskedInv
<1>3. CASE ~ended
  <2>1. job.waiting = {} /\ Ask(w, job) /\ UNCHANGED <<cache, batch, unfailed>>
    BY <1>3 DEF Proceed
  <2>2. \A i \in 1 .. job.stage : \A s \in Stages[i] : job.results[s] # "None"
    BY <1>2, <2>1
  <2>3. batch' \in SUBSET Token
    BY <1>1, <2>1 DEF TypeInv
  <2> HIDE DEF job
  <2> QED
    BY <1>1, <1>2, <2>1, <2>2, <2>3, AskIInv
<1>4. CASE ended
  <2>1. /\ jobs' = [jobs EXCEPT ![w] = NoJob] /\ batch' = batch \ {w}
        /\ flight' = [flight EXCEPT ![t] = row]
        /\ \/ UNCHANGED cache
           \/ cache' = [cache EXCEPT ![t] = entry] /\ result \in {"Price", "NoLiquidity"}
        /\ unfailed' \in {unfailed \cup {t}, unfailed \ {t}}
    BY <1>4 DEF Proceed, should_cache
  <2>2. NoJob \in Job /\ NoJob.stage = 0
    BY StagesAssumption DEF NoJob, Job
  <2>3. jobs' \in [Worker -> Job] /\ \A x \in Worker : jobs'[x] \in {NoJob, jobs[x]}
    BY <1>1, <2>1, <2>2 DEF TypeInv
  <2>4. flight' \in [Token -> [Source -> Flight]]
    <3>1. row \in [Source -> Flight]
      BY <1>1, <1>2 DEF TypeInv, Flight, NotSent
    <3> HIDE DEF row
    <3> QED
      BY <1>1, <2>1, <3>1 DEF TypeInv
  <2>5. \A u \in Token, s \in Source : flight'[u][s] \in {NotSent, flight[u][s]}
    <3>1. \A s \in Source : row[s] \in {NotSent, flight[t][s]}
      OBVIOUS
    <3>2. \A u \in Token : flight'[u] = IF u = t THEN row ELSE flight[u]
      <4> HIDE DEF row
      <4> QED
        BY <1>1, <2>1 DEF TypeInv
    <3> HIDE DEF row
    <3> QED
      BY <3>1, <3>2
  <2>6. AskedInv'
    <3> SUFFICES ASSUME NEW x \in Worker
                 PROVE  /\ jobs'[x] # NoJob => jobs'[x].token \in Token
                        /\ \A i \in 1 .. jobs'[x].stage : \A s \in Stages[i] :
                             s \in jobs'[x].waiting \/ jobs'[x].results[s] # "None"
      BY DEF AskedInv
    <3>1. CASE jobs'[x] = NoJob
      BY <2>2, <3>1
    <3>2. CASE jobs'[x] = jobs[x]
      BY <3>2 DEF IInv, AskedInv
    <3> QED
      BY <2>3, <3>1, <3>2
  <2>7. batch' \in SUBSET Token /\ unfailed' \in SUBSET Token /\ due' \in {"yes", "no"}
    BY <1>1, <1>2, <2>1 DEF TypeInv
  <2>8. CASE UNCHANGED cache
    <3>1. cache' \in [Token -> Entry]
      BY <1>1, <2>8 DEF TypeInv
    <3> HIDE DEF job, row, entry
    <3> QED
      BY <1>1, <2>3, <2>4, <2>5, <2>6, <2>7, <2>8, <3>1, QuietIInv
  <2>9. CASE cache' = [cache EXCEPT ![t] = entry] /\ result \in {"Price", "NoLiquidity"}
    <3>1. entry \in Entry /\ entry.result = result
      BY <2>9 DEF Entry, Answer
    <3>2. result = "NoLiquidity" => entry.unanimous
      <4> SUFFICES ASSUME result = "NoLiquidity" PROVE \A s \in Source : job.results[s] = result
        OBVIOUS
      <4>1. \A s \in Source : job.results[s] # "Price"
        <5> SUFFICES ASSUME "Price" \in {job.results[s] : s \in Source} PROVE FALSE
          OBVIOUS
        <5>1. Winner(job.results) = "Price"
          BY Zenon DEF Winner
        <5> QED
          BY <5>1
      <4>2. \A s \in Source : job.results[s] # "None"
        BY <1>1, <1>2, <1>4, <4>1, EndedWithoutPrice
      <4>3. job.results \in [Source -> Answer \cup {"None"}]
        BY <1>1 DEF Job
      <4> QED
        BY <4>2, <4>3, NoLiquidityWins
    <3> HIDE DEF entry
    <3>3. /\ cache' \in [Token -> Entry] /\ cache'[t] = entry
          /\ \A u \in Token : u # t => cache'[u] = cache[u]
      BY <1>1, <1>2, <2>9, <3>1 DEF TypeInv
    <3>4. NoLiquidityIsUnanimous'
      BY <3>1, <3>2, <3>3 DEF IInv, NoLiquidityIsUnanimous
    <3>5. TypeInv'
      BY <1>1, <2>3, <2>4, <2>7, <3>3 DEF TypeInv
    <3>6. WaveInv'
      BY <1>1, <2>5 DEF IInv, WaveInv
    <3> QED
      BY <2>6, <3>4, <3>5, <3>6 DEF IInv
  <2> QED
    BY <2>1, <2>8, <2>9
<1> QED
  BY <1>3, <1>4

\* Every step keeps the invariant.
LEMMA NextIInv == IInv /\ [Next]_vars => IInv'
<1> SUFFICES ASSUME IInv, [Next]_vars PROVE IInv'
  OBVIOUS
<1>1. CASE \/ \E ts \in SUBSET Token : GetCachedPrices(ts)
           \/ \E ts \in SUBSET Token : StartRun(ts)
           \/ Tick
           \/ UNCHANGED vars
  BY <1>1, CacheIInv
<1>2. CASE \/ \E c \in Client, t \in Token : Estimate(c, t)
           \/ \E t \in Token : TaskEstimate(t)
  BY <1>2, EstimateIInv
<1>3. CASE \E t \in Token, s \in Source, result \in Result, speed \in {"slow", "in time"} :
             SourceAnswers(t, s, result, speed)
  BY <1>3, AnswerIInv
<1>4. CASE \E w \in Worker : Proceed(w)
  BY <1>4, ProceedIInv
<1> QED
  BY <1>1, <1>2, <1>3, <1>4 DEF Next

\* Whatever the stages and the order of the answers, "no liquidity" is only cached when
\* every source of every stage said so (CachingNativePriceEstimator over
\* CompetitionEstimator).
THEOREM CachedErrorsAreUnanimous == Spec => []NoLiquidityIsUnanimous
<1>1. IInv => NoLiquidityIsUnanimous
  BY DEF IInv
<1> QED
  BY <1>1, InitIInv, NextIInv, PTL DEF Spec

\* The requests that were out when a back-off grew do not make it grow again, for any
\* number of tokens, clients and limited answers (RateLimiter::response_rate_limited).
THEOREM BackOffGrowsOnce == Spec => OneGrowthPerWave
<1> DEFINE OneGrowth ==
      \A t \in Token, s \in Source :
        times_rate_limited'[s] > times_rate_limited[s] /\ flight[t][s] # NotSent
          /\ flight'[t][s] = NotSent => flight[t][s].wave # "extended"
<1>0. \A n \in Nat : ~(n > n)
  OBVIOUS
<1>1. IInv /\ [Next]_vars => [OneGrowth]_vars
  <2> SUFFICES ASSUME IInv, Next, NEW u \in Token, NEW x \in Source,
                      times_rate_limited'[x] > times_rate_limited[x],
                      flight[u][x] # NotSent, flight'[u][x] = NotSent
               PROVE  flight[u][x].wave # "extended"
    OBVIOUS
  <2>1. /\ TypeInv /\ WaveInv /\ times_rate_limited[x] \in Nat
        /\ flight[u][x].previous \in Nat
        /\ flight[u][x].wave = "extended" => times_rate_limited[x] > flight[u][x].previous
    BY DEF IInv, TypeInv, WaveInv
  <2>2. ~UNCHANGED times_rate_limited
    BY <2>1
  <2>3. PICK t \in Token, s \in Source, result \in Result, speed \in {"slow", "in time"} :
          SourceAnswers(t, s, result, speed)
    BY <2>2 DEF Next, GetCachedPrices, Estimate, StartRun, TaskEstimate, Proceed, Tick,
                LimiterTick, limiters
  <2>4. x = s /\ times_rate_limited[x] = flight[t][s].previous /\ u = t
    BY <2>1, <2>3, AnswerGrowth
  <2>5. times_rate_limited[x] = flight[u][x].previous
    BY <2>4, Zenon
  <2> SUFFICES ASSUME flight[u][x].wave = "extended" PROVE FALSE
    OBVIOUS
  <2>6. times_rate_limited[x] > times_rate_limited[x]
    BY <2>1, <2>5, Zenon
  <2> QED
    BY <1>0, <2>1, <2>6, Zenon
<1> QED
  BY <1>1, InitIInv, NextIInv, PTL DEF Spec, OneGrowthPerWave

----------------------------------------------------------------------------
(* The background task.                                                    *)

\* The longest time from one run of the task to the next.
RunTime == IF MaxEstimationTime > 1 THEN MaxEstimationTime ELSE 1

\* The prefetch time covers a run and the estimation of the next one.
PrefetchCovers == RunTime + MaxEstimationTime < prefetch_time

RoomForAll == update_size >= Cardinality(Token)

\* Age from which a run takes a token.
Renewed == max_age - prefetch_time

\* The estimations of a run begin before time passes, and so take equally long.
RunInv ==
  /\ \A w \in Worker : jobs[w].time <= MaxEstimationTime
  /\ \A t \in Token : t \notin batch => jobs[t] = NoJob
  /\ \A t \in Token : jobs[t] # NoJob => jobs[t].token = t
  /\ due = "no" => \A x \in batch : jobs[x].time = 0
  /\ due = "yes" => \A x \in batch : jobs[x] # NoJob
  /\ due = "yes" => \A x, y \in batch : jobs[x].time = jobs[y].time

\* How old a result may be, depending on how far the run has come.
AgeBound(t) ==
  /\ cache[t].result \in {"Price", "NoLiquidity"}
  /\ t \in batch => cache[t].age <= Renewed + RunTime + jobs[t].time
  /\ t \notin batch /\ due = "no" => cache[t].age <= Renewed
  /\ t \notin batch /\ due = "yes" /\ batch = {} => cache[t].age <= Renewed + RunTime
  /\ t \notin batch /\ due = "yes" => \A x \in batch : cache[t].age <= Renewed + jobs[x].time

WarmInv == IInv /\ RunInv /\ \A t \in unfailed : AgeBound(t)

\* The times are natural numbers.
LEMMA WarmTypes ==
  ASSUME IInv
  PROVE  /\ {MaxEstimationTime, RunTime, Renewed, max_age, prefetch_time} \subseteq Nat
         /\ MaxEstimationTime <= RunTime /\ 1 <= RunTime
         /\ Renewed + prefetch_time = max_age
         /\ \A t \in Token : cache[t].age \in Nat /\ cache[t] \in Entry
         /\ \A w \in Worker : jobs[w].time \in Nat /\ jobs[w] \in Job
         /\ Token \subseteq Worker /\ batch \subseteq Token /\ unfailed \subseteq Token
         /\ due \in {"yes", "no"}
<1>1. /\ {MaxEstimationTime, RunTime, Renewed, max_age, prefetch_time} \subseteq Nat
      /\ MaxEstimationTime <= RunTime /\ 1 <= RunTime /\ Renewed + prefetch_time = max_age
  BY PriceAssumption DEF RunTime, Renewed
<1>2. \A t \in Token : cache[t].age \in Nat /\ cache[t] \in Entry
  BY DEF IInv, TypeInv, Entry
<1>3. \A w \in Worker : jobs[w].time \in Nat /\ jobs[w] \in Job
  BY DEF IInv, TypeInv, Job
<1>4. /\ Token \subseteq Worker /\ batch \subseteq Token /\ unfailed \subseteq Token
      /\ due \in {"yes", "no"}
  BY DEF IInv, TypeInv, Worker
<1> QED
  BY <1>1, <1>2, <1>3, <1>4

\* Nobody waits longer than an estimation takes.
LEMMA WarmImpliesKeptWarm == PrefetchCovers /\ WarmInv => KeptWarm
<1> SUFFICES ASSUME PrefetchCovers, WarmInv, NEW t \in unfailed PROVE cache[t].age < max_age
  BY DEF KeptWarm
<1>1. /\ IInv /\ AgeBound(t) /\ RunInv
  BY DEF WarmInv
<1>2. /\ {MaxEstimationTime, RunTime, Renewed, max_age, prefetch_time} \subseteq Nat
      /\ MaxEstimationTime <= RunTime /\ Renewed + prefetch_time = max_age
      /\ cache[t].age \in Nat /\ t \in Token /\ due \in {"yes", "no"}
      /\ \A x \in batch : jobs[x].time \in Nat /\ jobs[x].time <= MaxEstimationTime
  BY <1>1, WarmTypes DEF RunInv
<1>3. RunTime + MaxEstimationTime < prefetch_time
  BY DEF PrefetchCovers
<1>4. CASE t \in batch
  BY <1>1, <1>2, <1>3, <1>4 DEF AgeBound
<1>5. CASE t \notin batch /\ due = "no"
  BY <1>1, <1>2, <1>3, <1>5 DEF AgeBound
<1>6. CASE t \notin batch /\ due = "yes" /\ batch = {}
  BY <1>1, <1>2, <1>3, <1>6 DEF AgeBound
<1>7. CASE t \notin batch /\ due = "yes" /\ batch # {}
  <2>1. PICK x \in batch : TRUE
    BY <1>7
  <2>2. cache[t].age <= Renewed + jobs[x].time
    BY <1>1, <1>7 DEF AgeBound
  <2> QED
    BY <1>2, <1>3, <2>1, <2>2
<1> QED
  BY <1>2, <1>4, <1>5, <1>6, <1>7

\* Steps that only move estimations forward.
LEMMA JobsWarm ==
  ASSUME WarmInv, IInv', UNCHANGED <<cache, due, batch, unfailed>>,
         \A w \in Worker : jobs'[w].time <= MaxEstimationTime,
         \A t \in Token : /\ jobs'[t].time = jobs[t].time
                          /\ t \notin batch => jobs'[t] = NoJob
                          /\ jobs'[t] # NoJob => jobs'[t].token = t
                          /\ jobs[t] # NoJob => jobs'[t] # NoJob
  PROVE  WarmInv'
<1>1. RunInv /\ batch \subseteq Token /\ unfailed \subseteq Token
  BY WarmTypes DEF WarmInv
<1>2. RunInv'
  BY <1>1 DEF RunInv
<1>3. ASSUME NEW t \in unfailed PROVE AgeBound(t)'
  <2>1. AgeBound(t) /\ \A x \in batch : jobs'[x].time = jobs[x].time
    BY <1>1 DEF WarmInv
  <2> QED
    BY <1>1, <2>1 DEF AgeBound
<1> QED
  BY <1>2, <1>3 DEF WarmInv

\* Asking keeps the time of an estimation.
LEMMA AskWarm ==
  ASSUME WarmInv, IInv', NEW w \in Worker, NEW job \in Job, job.token \in Token, Ask(w, job),
         \A i \in 1 .. job.stage : \A s \in Stages[i] : job.results[s] # "None",
         UNCHANGED <<cache, due, batch, unfailed>>,
         job.stage < Len(Stages) \/ jobs[w] = NoJob,
         w \in Token => w \in batch /\ job.token = w,
         job.time = jobs[w].time
  PROVE  WarmInv'
<1>1. IInv /\ TypeInv /\ RunInv /\ Token \subseteq Worker
  BY WarmTypes DEF WarmInv, IInv
<1>2. /\ \A x \in Worker : x # w => jobs'[x] = jobs[x]
      /\ jobs'[w].token = job.token /\ jobs'[w].time = job.time
      /\ job.stage < Len(Stages) => jobs'[w].stage > job.stage
  BY <1>1, AskIs
<1>3. jobs[w] # NoJob => jobs'[w] # NoJob
  <2>1. job.stage \in Nat /\ NoJob.stage = 0
    BY StagesAssumption DEF Job, NoJob
  <2> QED
    BY <1>2, <2>1
<1>4. \A x \in Worker : jobs'[x].time <= MaxEstimationTime
  BY <1>1, <1>2 DEF RunInv
<1>5. ASSUME NEW t \in Token
      PROVE  /\ jobs'[t].time = jobs[t].time
             /\ t \notin batch => jobs'[t] = NoJob
             /\ jobs'[t] # NoJob => jobs'[t].token = t
             /\ jobs[t] # NoJob => jobs'[t] # NoJob
  <2>1. CASE t = w
    BY <1>2, <1>3, <2>1
  <2>2. CASE t # w
    <3>1. jobs'[t] = jobs[t]
      BY <1>1, <1>2, <2>2
    <3> QED
      BY <1>1, <3>1 DEF RunInv
  <2> QED
    BY <2>1, <2>2
<1> QED
  BY <1>4, <1>5, JobsWarm

\* Placeholders replace no result.
LEMMA CachedWarm ==
  ASSUME WarmInv, IInv', NEW ts \in SUBSET Token, GetCachedPrices(ts)
  PROVE  WarmInv'
<1>1. /\ UNCHANGED <<due, batch, jobs, unfailed>> /\ IInv /\ RunInv
      /\ unfailed \subseteq Token
  BY WarmTypes DEF WarmInv, GetCachedPrices
<1>2. RunInv'
  BY <1>1 DEF RunInv
<1>3. ASSUME NEW t \in unfailed PROVE AgeBound(t)'
  <2>1. AgeBound(t) /\ t \in Token
    BY <1>1 DEF WarmInv
  <2>2. cache[t] # NoEntry
    BY <2>1 DEF AgeBound, NoEntry
  <2>3. cache'[t] = cache[t]
    BY <2>1, <2>2 DEF GetCachedPrices
  <2> QED
    BY <1>1, <2>1, <2>3 DEF AgeBound
<1> QED
  BY <1>1, <1>2, <1>3 DEF WarmInv

\* With room for all, a run takes every token that is outdated.
LEMMA StartRunWarm ==
  ASSUME WarmInv, IInv', RoomForAll, NEW ts \in SUBSET Token, StartRun(ts)
  PROVE  WarmInv'
<1>1. /\ UNCHANGED <<cache, jobs, unfailed>> /\ IInv /\ RunInv
      /\ due = "yes" /\ batch = {} /\ due' = "no" /\ batch' = ts
      /\ unfailed \subseteq Token /\ Token \subseteq Worker
  BY WarmTypes DEF WarmInv, StartRun
<1>2. ts = Outdated
  <2>1. Outdated \subseteq Token /\ IsFiniteSet(Token) /\ ts \subseteq Outdated
    BY PriceAssumption DEF Outdated, StartRun
  <2>2. /\ IsFiniteSet(Outdated) /\ Cardinality(Outdated) <= Cardinality(Token)
        /\ Cardinality(Outdated) = Cardinality(ts) => Outdated = ts
    BY <2>1, FS_Subset
  <2>3. Cardinality(Outdated) \in Nat /\ Cardinality(Token) \in Nat
    BY <2>1, <2>2, FS_CardinalityType
  <2>4. Cardinality(ts) = Cardinality(Outdated)
    BY <2>2, <2>3, PriceAssumption DEF StartRun, MinOf, RoomForAll
  <2> QED
    BY <2>2, <2>4
<1>3. \A t \in Token : jobs[t] = NoJob
  BY <1>1 DEF RunInv
<1>4. NoJob.time = 0
  BY DEF NoJob
<1>5. RunInv'
  BY <1>1, <1>3, <1>4 DEF RunInv
<1>6. ASSUME NEW t \in unfailed PROVE AgeBound(t)'
  <2>1. AgeBound(t) /\ t \in Token
    BY <1>1 DEF WarmInv
  <2>2. /\ cache[t].age <= Renewed + RunTime
        /\ cache[t].result \in {"Price", "NoLiquidity"}
    BY <1>1, <2>1 DEF AgeBound
  <2>3. cache[t] # NoEntry
    BY <2>2 DEF NoEntry
  <2>4. t \notin ts => ~(cache[t].age > Renewed)
    BY <1>2, <2>1, <2>3 DEF Outdated, Renewed
  <2>5. {RunTime, Renewed, cache[t].age} \subseteq Nat
    BY <1>1, <2>1, WarmTypes
  <2>6. jobs[t].time = 0
    BY <1>3, <1>4, <2>1
  <2> QED
    BY <1>1, <2>2, <2>4, <2>5, <2>6 DEF AgeBound
<1> QED
  BY <1>1, <1>5, <1>6 DEF WarmInv

\* A client asks, or the task asks for or skips a token of its run.
LEMMA EstimateWarm ==
  ASSUME WarmInv, IInv',
         \/ \E c \in Client, t \in Token : Estimate(c, t)
         \/ \E t \in Token : TaskEstimate(t)
  PROVE  WarmInv'
<1>1. IInv /\ RunInv /\ unfailed \subseteq Token /\ Token \subseteq Worker
      /\ due \in {"yes", "no"} /\ batch \subseteq Token
  BY WarmTypes DEF WarmInv
<1>2. ASSUME NEW t \in Token, NEW w \in Worker, Ask(w, [NoJob EXCEPT !.token = t]),
             UNCHANGED <<cache, due, batch, unfailed>>, jobs[w] = NoJob,
             w \in Token => w \in batch /\ w = t
      PROVE  WarmInv'
  <2> DEFINE job == [NoJob EXCEPT !.token = t]
  <2>1. job \in Job /\ job.token = t /\ job.stage = 0 /\ job.time = 0
    BY NewJob
  <2>2. \A i \in 1 .. job.stage : \A s \in Stages[i] : job.results[s] # "None"
    BY <2>1
  <2>3. Ask(w, job)
    BY <1>2
  <2>4. jobs[w].time = 0
    BY <1>2 DEF NoJob
  <2> HIDE DEF job
  <2> QED
    BY <1>2, <2>1, <2>2, <2>3, <2>4, AskWarm
<1>3. CASE \E c \in Client, t \in Token : Estimate(c, t)
  <2>1. PICK c \in Client, t \in Token : Estimate(c, t)
    BY <1>3
  <2>2. /\ c \in Worker /\ c \notin Token /\ UNCHANGED <<cache, due, batch, unfailed>>
        /\ jobs[c] = NoJob
    BY <2>1, WorkerAssumption DEF Worker, Estimate
  <2>3. CASE UNCHANGED jobs
    BY <1>1, <2>2, <2>3, JobsWarm DEF RunInv
  <2>4. CASE Ask(c, [NoJob EXCEPT !.token = t])
    BY <1>2, <2>2, <2>4
  <2> QED
    BY <2>1, <2>3, <2>4 DEF Estimate
<1>4. CASE \E t \in Token : TaskEstimate(t)
  <2>1. PICK t \in Token : TaskEstimate(t)
    BY <1>4
  <2>2. /\ t \in Worker /\ UNCHANGED <<cache, due, unfailed>>
        /\ jobs[t] = NoJob /\ t \in batch
    BY <2>1 DEF Worker, TaskEstimate
  <2>3. CASE Ask(t, [NoJob EXCEPT !.token = t]) /\ UNCHANGED batch
    BY <1>2, <2>2, <2>3
  <2>4. CASE /\ batch' = batch \ {t} /\ UNCHANGED jobs
             /\ Fresh(t, max_age - prefetch_time)
    <3>1. due = "no"
      BY <1>1, <2>2 DEF RunInv
    <3>2. RunInv'
      BY <1>1, <2>2, <2>4, <3>1 DEF RunInv
    <3>3. ASSUME NEW u \in unfailed PROVE AgeBound(u)'
      <4>1. AgeBound(u)
        BY DEF WarmInv
      <4>2. CASE u = t
        <5>1. cache[t].age < Renewed
          BY <2>4 DEF Fresh, Renewed
        <5>2. cache[t].age \in Nat /\ Renewed \in Nat
          BY <1>1, WarmTypes
        <5> QED
          BY <2>2, <2>4, <3>1, <4>1, <4>2, <5>1, <5>2 DEF AgeBound
      <4>3. CASE u # t
        BY <2>2, <2>4, <3>1, <4>1, <4>3 DEF AgeBound
      <4> QED
        BY <4>2, <4>3
    <3> QED
      BY <2>2, <3>2, <3>3 DEF WarmInv
  <2> QED
    BY <2>1, <2>3, <2>4 DEF TaskEstimate
<1> QED
  BY <1>3, <1>4

\* Answers take no time.
LEMMA AnswerWarm ==
  ASSUME WarmInv, IInv', NEW t \in Token, NEW s \in Source, NEW result \in Result, NEW speed,
         SourceAnswers(t, s, result, speed)
  PROVE  WarmInv'
<1>1. /\ IInv /\ TypeInv /\ RunInv /\ Token \subseteq Worker
      /\ UNCHANGED <<cache, due, batch, unfailed>>
  BY WarmTypes DEF WarmInv, IInv, SourceAnswers
<1>2. ASSUME NEW w \in Worker
      PROVE  \/ jobs'[w] = jobs[w]
             \/ /\ jobs[w] # NoJob /\ jobs'[w] # NoJob
                /\ jobs'[w].token = jobs[w].token /\ jobs'[w].time = jobs[w].time
  BY <1>1, AnswerJobs
<1>3. \A w \in Worker : jobs'[w].time <= MaxEstimationTime
  BY <1>1, <1>2 DEF RunInv
<1>4. ASSUME NEW u \in Token
      PROVE  /\ jobs'[u].time = jobs[u].time
             /\ u \notin batch => jobs'[u] = NoJob
             /\ jobs'[u] # NoJob => jobs'[u].token = u
             /\ jobs[u] # NoJob => jobs'[u] # NoJob
  <2>1. \/ jobs'[u] = jobs[u]
        \/ /\ jobs[u] # NoJob /\ jobs'[u] # NoJob
           /\ jobs'[u].token = jobs[u].token /\ jobs'[u].time = jobs[u].time
    BY <1>1, <1>2
  <2> QED
    BY <1>1, <2>1 DEF RunInv
<1> QED
  BY <1>1, <1>3, <1>4, JobsWarm

\* The winner is cached with age 0; a token that failed is not in unfailed any more.
LEMMA ProceedWarm ==
  ASSUME WarmInv, IInv', NEW w \in Worker, Proceed(w)
  PROVE  WarmInv'
<1> DEFINE job == jobs[w]
           t == job.token
           result == Winner(job.results)
           ended == \/ missing_results(job.results) = 0
                    \/ job.waiting = {} /\ job.stage = Len(Stages)
           entry == [result |-> result, age |-> 0,
                     unanimous |-> \A s \in Source : job.results[s] = result]
<1>1. /\ IInv /\ RunInv /\ Token \subseteq Worker /\ job \in Job /\ job # NoJob
      /\ UNCHANGED due /\ due \in {"yes", "no"}
      /\ batch \subseteq Token /\ unfailed \subseteq Token
  BY WarmTypes DEF WarmInv, Proceed
<1>2. /\ t \in Token
      /\ \A i \in 1 .. job.stage : \A s \in Stages[i] :
           s \in job.waiting \/ job.results[s] # "None"
  BY <1>1 DEF IInv, AskedInv
<1>3. w \in Token => w \in batch /\ w = t
  BY <1>1 DEF RunInv
<1>4. CASE ~ended
  <2>1. job.waiting = {} /\ Ask(w, job) /\ UNCHANGED <<cache, batch, unfailed>>
    BY <1>4 DEF Proceed
  <2>2. \A i \in 1 .. job.stage : \A s \in Stages[i] : job.results[s] # "None"
    BY <1>2, <2>1
  <2>3. job.stage < Len(Stages)
    BY <1>1, <1>4, <2>1, StagesAssumption DEF Job
  <2> QED
    BY <1>1, <1>2, <1>3, <2>1, <2>2, <2>3, AskWarm
<1>5. CASE ended
  <2>1. /\ jobs' = [jobs EXCEPT ![w] = NoJob] /\ batch' = batch \ {w}
        /\ \/ /\ cache' = [cache EXCEPT ![t] = entry] /\ result \in {"Price", "NoLiquidity"}
              /\ unfailed' = unfailed \cup {t}
           \/ UNCHANGED cache /\ unfailed' = unfailed \ {t}
    BY <1>5 DEF Proceed, should_cache
  <2>2. /\ jobs'[w] = NoJob /\ \A x \in Worker : x # w => jobs'[x] = jobs[x]
        /\ NoJob.time = 0 /\ MaxEstimationTime >= 0
    BY <1>1, <2>1, PriceAssumption DEF IInv, TypeInv, NoJob
  <2>3. /\ \A x \in Worker : jobs'[x].time <= MaxEstimationTime
        /\ \A u \in Token : u \notin batch' => jobs'[u] = NoJob
        /\ \A u \in Token : jobs'[u] # NoJob => jobs'[u].token = u
        /\ \A x \in batch' : x \in batch /\ x # w /\ jobs'[x] = jobs[x]
    BY <1>1, <2>1, <2>2 DEF RunInv
  <2>4. RunInv'
    BY <1>1, <2>3 DEF RunInv
  <2>5. ASSUME NEW u \in unfailed' PROVE AgeBound(u)'
    <3>1. CASE u = t
      <4>1. cache' = [cache EXCEPT ![t] = entry] /\ result \in {"Price", "NoLiquidity"}
        BY <2>1, <2>5, <3>1
      <4>2. cache'[u] = entry
        BY <1>1, <1>2, <3>1, <4>1 DEF IInv, TypeInv
      <4>3. cache'[u].age = 0 /\ cache'[u].result \in {"Price", "NoLiquidity"}
        BY <4>1, <4>2
      <4>4. /\ {RunTime, Renewed} \subseteq Nat /\ u \in Token /\ batch' \subseteq Token
            /\ \A x \in Token : jobs'[x].time \in Nat
        <5>1. \A x \in Worker : jobs'[x].time \in Nat
          BY DEF IInv, TypeInv, Job
        <5> QED
          BY <1>1, <1>2, <2>1, <3>1, <5>1, WarmTypes
      <4> QED
        BY <4>3, <4>4 DEF AgeBound
    <3>2. CASE u # t
      <4>1. u \in unfailed /\ AgeBound(u) /\ u \in Token
        BY <1>1, <2>1, <2>5, <3>2 DEF WarmInv
      <4>2. cache'[u] = cache[u]
        BY <1>1, <2>1, <3>2, <4>1 DEF IInv, TypeInv
      <4>3. u # w
        BY <1>3, <3>2, <4>1
      <4>4. (u \in batch) = (u \in batch')
        BY <2>1, <4>3
      <4>5. CASE batch' # {} \/ batch = {} \/ u \in batch \/ due = "no"
        BY <1>1, <2>1, <2>3, <4>1, <4>2, <4>4, <4>5 DEF AgeBound
      <4>6. CASE batch' = {} /\ batch # {} /\ u \notin batch /\ due = "yes"
        <5>1. w \in batch /\ jobs[w].time <= MaxEstimationTime /\ jobs[w].time \in Nat
          BY <1>1, <2>1, <4>6, WarmTypes DEF RunInv
        <5>2. /\ {RunTime, Renewed, MaxEstimationTime, cache[u].age} \subseteq Nat
              /\ MaxEstimationTime <= RunTime
          BY <1>1, <4>1, WarmTypes
        <5>3. cache[u].age <= Renewed + jobs[w].time
          BY <4>1, <4>6, <5>1 DEF AgeBound
        <5>4. cache'[u].age <= Renewed + RunTime
          BY <4>2, <5>1, <5>2, <5>3
        <5>5. due' = "yes" /\ u \notin batch'
          BY <1>1, <4>6
        <5>6. cache'[u].result \in {"Price", "NoLiquidity"}
          BY <4>1, <4>2 DEF AgeBound
        <5> QED
          BY <4>6, <5>4, <5>5, <5>6 DEF AgeBound
      <4> QED
        BY <1>1, <4>5, <4>6
    <3> QED
      BY <3>1, <3>2
  <2> QED
    BY <2>4, <2>5 DEF WarmInv
<1> QED
  BY <1>4, <1>5

\* Time passes for the results and for the estimations of the run alike.
LEMMA TickWarm ==
  ASSUME WarmInv, IInv', Tick
  PROVE  WarmInv'
<1>1. /\ IInv /\ RunInv /\ Token \subseteq Worker /\ due \in {"yes", "no"}
      /\ batch \subseteq Token /\ unfailed \subseteq Token
      /\ {MaxEstimationTime, RunTime, Renewed, max_age} \subseteq Nat /\ 1 <= RunTime
      /\ \A w \in Worker : jobs[w].time \in Nat /\ jobs[w] \in Job
      /\ \A t \in Token : cache[t].age \in Nat /\ cache[t] \in Entry
  BY WarmTypes DEF WarmInv
<1>2. /\ UNCHANGED <<batch, unfailed>> /\ due' = "yes"
      /\ \A w \in Worker : jobs[w] # NoJob => jobs[w].time < MaxEstimationTime
      /\ ~(due = "yes" /\ batch = {}) /\ \A t \in batch : jobs[t] # NoJob
  BY DEF Tick
<1>3. ASSUME NEW w \in Worker, jobs[w] = NoJob PROVE jobs'[w] = NoJob
  BY <1>3 DEF Tick
<1>4. ASSUME NEW w \in Worker, jobs[w] # NoJob
      PROVE  /\ jobs'[w].time = jobs[w].time + 1 /\ jobs'[w].token = jobs[w].token
             /\ jobs'[w] # NoJob
  <2>1. jobs'[w] = [jobs[w] EXCEPT !.time = jobs[w].time + 1]
    BY <1>4 DEF Tick
  <2>2. jobs'[w].time = jobs[w].time + 1 /\ jobs'[w].token = jobs[w].token
    BY <1>1, <2>1 DEF Job
  <2>3. NoJob.time = 0
    BY DEF NoJob
  <2> QED
    BY <1>1, <2>2, <2>3
<1>5. NoJob.time = 0
  BY DEF NoJob
<1>6. \A x \in batch : jobs'[x].time = jobs[x].time + 1 /\ jobs'[x] # NoJob
  BY <1>1, <1>2, <1>4
<1>7. RunInv'
  <2>1. \A w \in Worker : jobs'[w].time <= MaxEstimationTime
    BY <1>1, <1>2, <1>3, <1>4, <1>5
  <2>2. \A t \in Token : t \notin batch => jobs'[t] = NoJob
    BY <1>1, <1>3 DEF RunInv
  <2>3. \A t \in Token : jobs'[t] # NoJob => jobs'[t].token = t
    BY <1>1, <1>3, <1>4 DEF RunInv
  <2>4. \A x, y \in batch : jobs'[x].time = jobs'[y].time
    BY <1>1, <1>6 DEF RunInv
  <2> QED
    BY <1>2, <1>6, <2>1, <2>2, <2>3, <2>4 DEF RunInv
<1>8. ASSUME NEW t \in unfailed PROVE AgeBound(t)'
  <2>1. AgeBound(t) /\ t \in Token
    BY <1>1 DEF WarmInv
  <2>2. cache'[t].result = cache[t].result /\ cache'[t].age <= cache[t].age + 1
        /\ cache'[t].age \in Nat
    <3>1. cache'[t] = [cache[t] EXCEPT !.age = MinOf(cache[t].age + 1, max_age)]
      BY <2>1 DEF Tick
    <3>2. MinOf(cache[t].age + 1, max_age) \in Nat
          /\ MinOf(cache[t].age + 1, max_age) <= cache[t].age + 1
      BY <1>1, <2>1 DEF MinOf
    <3>3. /\ cache'[t].result = cache[t].result
          /\ cache'[t].age = MinOf(cache[t].age + 1, max_age)
      BY <1>1, <2>1, <3>1 DEF Entry
    <3> QED
      BY <3>2, <3>3
  <2>3. cache'[t].result \in {"Price", "NoLiquidity"}
    BY <2>1, <2>2 DEF AgeBound
  <2>4. CASE t \in batch
    <3>1. cache[t].age <= Renewed + RunTime + jobs[t].time
      BY <2>1, <2>4 DEF AgeBound
    <3>2. cache'[t].age <= Renewed + RunTime + jobs'[t].time
      BY <1>1, <1>6, <2>1, <2>2, <2>4, <3>1
    <3> QED
      BY <1>2, <2>3, <2>4, <3>2 DEF AgeBound
  <2>5. CASE t \notin batch
    <3>1. batch = {} => cache'[t].age <= Renewed + RunTime
      <4> SUFFICES ASSUME batch = {} PROVE cache'[t].age <= Renewed + RunTime
        OBVIOUS
      <4>1. cache[t].age <= Renewed
        BY <1>1, <1>2, <2>1, <2>5 DEF AgeBound
      <4> QED
        BY <1>1, <2>1, <2>2, <4>1
    <3>2. ASSUME NEW x \in batch PROVE cache'[t].age <= Renewed + jobs'[x].time
      <4>1. cache[t].age <= Renewed + jobs[x].time
        <5>1. CASE due = "yes"
          BY <2>1, <2>5, <5>1 DEF AgeBound
        <5>2. CASE due = "no"
          <6>1. cache[t].age <= Renewed /\ jobs[x].time = 0
            BY <1>1, <2>1, <2>5, <5>2 DEF AgeBound, RunInv
          <6> QED
            BY <1>1, <6>1
        <5> QED
          BY <1>1, <5>1, <5>2
      <4>2. jobs[x].time \in Nat /\ jobs'[x].time = jobs[x].time + 1
        BY <1>1, <1>6
      <4> QED
        BY <1>1, <2>1, <2>2, <4>1, <4>2
    <3> QED
      BY <1>2, <2>3, <2>5, <3>1, <3>2 DEF AgeBound
  <2> QED
    BY <2>4, <2>5
<1> QED
  BY <1>2, <1>7, <1>8 DEF WarmInv

\* With room for all tokens in a run.
LEMMA NextWarm ==
  ASSUME RoomForAll, WarmInv, [Next]_vars
  PROVE  WarmInv'
<1>1. IInv'
  BY NextIInv DEF WarmInv
<1>2. CASE \E ts \in SUBSET Token : GetCachedPrices(ts)
  BY <1>1, <1>2, CachedWarm
<1>3. CASE \E ts \in SUBSET Token : StartRun(ts)
  BY <1>1, <1>3, StartRunWarm
<1>4. CASE \/ \E c \in Client, t \in Token : Estimate(c, t)
           \/ \E t \in Token : TaskEstimate(t)
  BY <1>1, <1>4, EstimateWarm
<1>5. CASE \E t \in Token, s \in Source, result \in Result, speed \in {"slow", "in time"} :
             SourceAnswers(t, s, result, speed)
  BY <1>1, <1>5, AnswerWarm
<1>6. CASE \E w \in Worker : Proceed(w)
  BY <1>1, <1>6, ProceedWarm
<1>7. CASE Tick
  BY <1>1, <1>7, TickWarm
<1>8. CASE UNCHANGED vars
  <2>1. UNCHANGED <<cache, due, batch, jobs, unfailed>>
    BY <1>8 DEF vars
  <2> QED
    BY <1>1, <2>1 DEF WarmInv, RunInv, AgeBound
<1> QED
  BY <1>2, <1>3, <1>4, <1>5, <1>6, <1>7, <1>8 DEF Next

\* For any tokens, clients and times: when the prefetch time covers a run of the task and
\* the estimation of the next, no result whose renewals went well expires
\* (CachingNativePriceEstimator's background task).
THEOREM PricesStayWarm ==
  ASSUME PrefetchCovers
  PROVE  Spec => []KeptWarm
<1>1. CASE ~RoomForAll
  <2>1. KeptWarm
    BY <1>1 DEF KeptWarm, RoomForAll
  <2> QED
    BY <2>1, PTL
<1>2. CASE RoomForAll
  <2>1. Init => WarmInv
    <3> SUFFICES ASSUME Init PROVE WarmInv
      OBVIOUS
    <3>1. NoJob.time = 0 /\ 0 <= MaxEstimationTime
      BY PriceAssumption DEF NoJob
    <3>2. RunInv
      BY <3>1 DEF Init, RunInv, Worker
    <3> QED
      BY <3>2, InitIInv DEF WarmInv, Init
  <2>2. WarmInv /\ [Next]_vars => WarmInv'
    BY <1>2, NextWarm
  <2>3. WarmInv => KeptWarm
    BY WarmImpliesKeptWarm
  <2> QED
    BY <2>1, <2>2, <2>3, PTL DEF Spec
<1> QED
  BY <1>1, <1>2
=============================================================================
