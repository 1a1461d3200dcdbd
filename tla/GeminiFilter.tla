---------------------------- MODULE GeminiFilter ----------------------------
(***************************************************************************)
(* The Gemini filter: GeminiFilterController (src/src/engine/              *)
(* gemini_filter.cpp), which answers from its result cache or starts a     *)
(* Python process and waits for its verdict, and in that process the two   *)
(* threads of analyze (src/tools/gemini_filter/analyzer.py), which score   *)
(* the sentiment and the chart, each along a route of models and each      *)
(* request reserved with the QuotaManager.                                 *)
(*                                                                         *)
(* One symbol, direction and interval; what distinguishes the keys of the  *)
(* result cache is then the chart, which the WebSocket handler keeps       *)
(* changing.  The two weights are equal, so a verdict adds the scores up.  *)
(***************************************************************************)
EXTENDS QuotaManager, Sequences

CONSTANTS
    MaxCharts,          \* bound: states of the kline cache, one after the other
    Scores,             \* the scores Gemini gives, scaled to natural numbers
    Threshold,          \* Allow at this sum of the two
    Escalated,          \* vision scores within [pro_escalation_min_score, .._max_score]
    SentimentModels,    \* the routes: candidates in their order
    VisionModels,
    ProModels,          \* the models of the pro tier
    ProRoute,           \* pro_candidates: those of the vision's candidates
    TwoStep,            \* sentiment_search_then_score: evidence first, then the score
    MaxMishaps          \* bound: failures of requests, files and locks other than the quota's

ASSUME FilterAssumption ==
    /\ Threads = {"sentiment", "vision"}
    /\ MaxCharts \in Nat \ {0} /\ Scores \subseteq Nat /\ Threshold \in Nat \ {0} /\ Escalated \subseteq Scores
    /\ SentimentModels \in Seq(Models) /\ VisionModels \in Seq(Models) /\ ProRoute \in Seq(Models)
    /\ ProRoute = SelectSeq(VisionModels, LAMBDA m : m \in ProModels)
    /\ TwoStep \in BOOLEAN
    /\ MaxMishaps \in Nat

Charts == 1..MaxCharts

VARIABLES
    chart,          \* the kline cache
    results,        \* m_resultCache: the result under the key of each chart
    sentiment,      \* the sentiment cache's entry: its age when last looked at, and its score
    evaluation,     \* where evaluate stands, and its result
    worker,         \* the analyzer's threads
    mishaps

filterVars == <<quotaVars, chart, results, sentiment, evaluation, worker, mishaps>>

\* A result: what it says, the chart the process was given, and the threads whose scores it
\* was made from.
Results == [says : {"none", "Allow", "Block", "quota", "error"}, judged : Charts,
            scored : SUBSET Threads]
NoResult == [says |-> "none", judged |-> 1, scored |-> {}]

Idle == [at |-> "idle", cached |-> FALSE, result |-> NoResult]
NewWorker == [at |-> "off", pass |-> 1, next |-> 1, score |-> 0]

FilterInit ==
    /\ QuotaInit
    /\ chart = 1
    /\ results = [c \in Charts |-> NoResult]
    /\ sentiment = [age |-> "none", score |-> 0]
    /\ evaluation = Idle
    /\ worker = [t \in Threads |-> NewWorker]
    /\ mishaps = 0

Mishap == mishaps < MaxMishaps /\ mishaps' = mishaps + 1

----------------------------------------------------------------------------
(* The threads.                                                            *)

\* The candidates of a pass: the vision's second is the escalation to the pro tier.
Route(t, pass) ==
    IF t = "sentiment" THEN SentimentModels
    ELSE IF pass = 1 THEN VisionModels
    ELSE ProRoute

Candidate(t) == Route(t, worker[t].pass)[worker[t].next]
RouteEnds(t) == worker[t].next > Len(Route(t, worker[t].pass))

Goes(t, at) == worker' = [worker EXCEPT ![t].at = at]
Scored(t, s) == worker' = [worker EXCEPT ![t].at = "scored", ![t].score = s]
Tries(t, pass, next) ==
    worker' = [worker EXCEPT ![t].at = "reserve", ![t].pass = pass, ![t].next = next]
TriesNext(t) == Tries(t, worker[t].pass, worker[t].next + 1)

\* A failure that reads like the quota's: the sentiment falls back to its stale entry.
FailsOnQuota(t) ==
    IF t = "sentiment" /\ sentiment.age = "stale" THEN Scored(t, sentiment.score)
    ELSE Goes(t, "quota")

\* What may have become of the entry since it was last looked at: sentiment_cache_ttl_seconds
\* and sentiment_cache_max_stale_seconds have passed, or not.
Aged(entry) ==
    {entry, [age |-> "none", score |-> 0]}
        \cup (IF entry.age = "fresh" THEN {[entry EXCEPT !.age = "stale"]} ELSE {})

\* _analyze_sentiment up to its routes.
BeginSentiment ==
    /\ worker["sentiment"].at = "begin"
    /\ sentiment' \in Aged(sentiment)
    /\ \/ /\ IF sentiment'.age = "fresh" THEN Scored("sentiment", sentiment'.score)
             ELSE Tries("sentiment", 1, 1)
          /\ UNCHANGED mishaps
       \/ Mishap /\ Goes("sentiment", "error")
    /\ UNCHANGED <<quotaVars, chart, results, evaluation>>

\* _analyze_vision renders the chart.
BeginVision ==
    /\ worker["vision"].at = "begin"
    /\ \/ Tries("vision", 1, 1) /\ UNCHANGED mishaps
       \/ Mishap /\ Goes("vision", "error")
    /\ UNCHANGED <<quotaVars, chart, results, sentiment, evaluation>>

Reserve(t) ==
    /\ worker[t].at = "reserve" /\ ~RouteEnds(t)
    /\ Approach(t, "reserve", Candidate(t))
    /\ Goes(t, "reserving")
    /\ UNCHANGED <<chart, results, sentiment, evaluation, mishaps>>

\* Every candidate was rejected or failed, for whatever reason: quota_exhausted.
Exhausted(t) ==
    /\ worker[t].at = "reserve" /\ RouteEnds(t)
    /\ FailsOnQuota(t)
    /\ UNCHANGED <<quotaVars, chart, results, sentiment, evaluation, mishaps>>

Reserved(t) ==
    /\ worker[t].at = "reserving"
    /\ Leave(t)
    /\ IF access[t].at = "granted" THEN Goes(t, "ask") ELSE TriesNext(t)
    /\ UNCHANGED <<chart, results, sentiment, evaluation, mishaps>>

\* The TimeoutError names the lock's path, .../cache/quota/state.lock.
LockFails(t) ==
    /\ worker[t].at \in {"reserving", "cooling"}
    /\ LockTimesOut(t)
    /\ FailsOnQuota(t)
    /\ UNCHANGED <<chart, results, sentiment, evaluation, mishaps>>

\* A score: of the last pass, or one with which the vision goes on to the pro tier.
TakeScore(t, s) ==
    IF t = "sentiment" THEN
        IF TwoStep /\ worker[t].pass = 1 THEN Tries(t, 2, 1)
        ELSE worker' = [worker EXCEPT ![t].at = "store", ![t].score = s]
    ELSE IF /\ worker[t].pass = 1 /\ s \in Escalated
            /\ Candidate(t) \notin ProModels /\ ProRoute # <<>>
         THEN Tries(t, 2, 1)
         ELSE Scored(t, s)

\* run_with_rotation: an answer, a failure of every key on its quota, or another failure,
\* of which the metrics' lock is one, after a good answer.
Ask(t) ==
    /\ worker[t].at = "ask"
    /\ \/ /\ \E s \in Scores : TakeScore(t, s)
          /\ UNCHANGED <<quotaVars, mishaps>>
       \/ Mishap /\ Approach(t, "cooldown", Candidate(t)) /\ Goes(t, "cooling")
       \/ Mishap /\ TriesNext(t) /\ UNCHANGED quotaVars
    /\ UNCHANGED <<chart, results, sentiment, evaluation>>

Cooled(t) ==
    /\ worker[t].at = "cooling"
    /\ Leave(t)
    /\ TriesNext(t)
    /\ UNCHANGED <<chart, results, sentiment, evaluation, mishaps>>

\* save_entry has a lock of its own.
StoreSentiment(t) ==
    /\ worker[t].at = "store"
    /\ \/ /\ Goes(t, "scored")
          /\ sentiment' = [age |-> "fresh", score |-> worker[t].score]
          /\ UNCHANGED mishaps
       \/ Mishap /\ Goes(t, "error") /\ UNCHANGED sentiment
    /\ UNCHANGED <<quotaVars, chart, results, evaluation>>

WorkerStep(t) ==
    \/ Reserve(t) \/ Exhausted(t) \/ Reserved(t) \/ LockFails(t) \/ Ask(t) \/ Cooled(t)
    \/ StoreSentiment(t)
    \/ /\ worker[t].at \in {"reserving", "cooling"}
       /\ QuotaStep(t)
       /\ UNCHANGED <<chart, results, sentiment, evaluation, worker, mishaps>>

----------------------------------------------------------------------------
(* evaluate.                                                               *)

Answers(result, cached) ==
    evaluation' = [at |-> "answered", cached |-> cached, result |-> result]

\* getCachedResult under the key of the chart as it is now; an entry that has expired goes.
LookUp ==
    /\ evaluation.at = "idle"
    /\ \/ /\ results[chart].says # "none"
          /\ Answers(results[chart], TRUE)
          /\ UNCHANGED results
       \/ /\ evaluation' = [evaluation EXCEPT !.at = "start"]
          /\ results' = [results EXCEPT ![chart] = NoResult]
    /\ UNCHANGED <<quotaVars, chart, sentiment, worker, mishaps>>

Failure == [NoResult EXCEPT !.says = "error", !.judged = evaluation.result.judged]

\* The klines are read, once more, into the input file of a new process; without the file
\* the answer is an error that is not cached.
Start ==
    /\ evaluation.at = "start"
    /\ \/ /\ evaluation' = [evaluation EXCEPT !.at = "running", !.result.judged = chart]
          /\ worker' = [t \in Threads |-> [NewWorker EXCEPT !.at = "begin"]]
          /\ UNCHANGED mishaps
       \/ Mishap /\ Answers(Failure, FALSE) /\ UNCHANGED worker
    /\ UNCHANGED <<quotaVars, chart, results, sentiment>>

\* putCachedResult: the key is made anew, of the chart as it is by now.
KeyForResult(judged) == chart

\* The process is over; its verdict is cached.
Ends(result) ==
    /\ Answers(result, FALSE)
    /\ results' = [results EXCEPT ![KeyForResult(result.judged)] = result]
    /\ worker' = [t \in Threads |-> NewWorker]

ScoredThreads == {t \in Threads : worker[t].at = "scored"}

\* The mistake of judging by the scores there are.
ErrorsUnchecked == FALSE

\* errors: of the threads, or because one of them is still alive.
Errors == \E t \in Threads : worker[t].at # "scored"

\* Without a result a thread counts 0.0.
ScoreOf(t) == IF worker[t].at = "scored" THEN worker[t].score ELSE 0
TotalScore == ScoreOf("sentiment") + ScoreOf("vision")

\* The end of analyze, and of evaluate.
Verdict ==
    [says |-> IF Errors
              THEN IF \E t \in Threads : worker[t].at = "quota" THEN "quota" ELSE "error"
              ELSE IF TotalScore >= Threshold THEN "Allow" ELSE "Block",
     judged |-> evaluation.result.judged, scored |-> ScoredThreads]

\* Both threads have ended, or 120 seconds are over; the process ends in any case.
Join ==
    /\ evaluation.at = "running"
    /\ Ends(Verdict)
    /\ ProcessEnds
    /\ UNCHANGED <<chart, sentiment, mishaps>>

\* The mistake of waiting for a process that hangs.
KillWhenFinished ==
    /\ evaluation.at = "running" /\ ~Errors
    /\ Ends(Failure)
    /\ ProcessEnds
    /\ UNCHANGED <<chart, sentiment, mishaps>>

\* The process is killed after timeoutSeconds, or ends without a verdict that can be read.
Kill ==
    /\ evaluation.at = "running"
    /\ Ends(Failure)
    /\ ProcessEnds
    /\ UNCHANGED <<chart, sentiment, mishaps>>

----------------------------------------------------------------------------
(* What goes on meanwhile.                                                 *)

\* The WebSocket handler updates the kline cache.
ChartMoves ==
    /\ chart < MaxCharts /\ chart' = chart + 1
    /\ UNCHANGED <<quotaVars, results, sentiment, evaluation, worker, mishaps>>

QuotaAges ==
    /\ LockAges \/ \E m \in Models : CoolingEnds(m)
    /\ UNCHANGED <<chart, results, sentiment, evaluation, worker, mishaps>>

EvaluationStep ==
    \/ Start \/ Join \/ Kill
    \/ BeginSentiment \/ BeginVision \/ \E t \in Threads : WorkerStep(t)

Meanwhile == ChartMoves \/ QuotaAges
=============================================================================
