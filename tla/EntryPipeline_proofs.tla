------------------------ MODULE EntryPipeline_proofs ------------------------
(***************************************************************************)
(* Proofs about EntryPipeline.  Each of its steps is one of the planner's  *)
(* system and one of the quota's, or leaves them alone, so what is proved  *)
(* of ExecutionPlans and QuotaManager holds of the whole; and an order is  *)
(* sent only behind an evaluation that was allowed by both scores.         *)
(***************************************************************************)
EXTENDS EntryPipeline, ExecutionPlans_proofs, QuotaManager_proofs

WorkerStates == {"off", "begin", "reserve", "reserving", "ask", "cooling", "store", "scored",
                 "quota", "error"}
WorkerRecords == [at : WorkerStates, pass : {1, 2}, next : Nat \ {0}, score : Nat]
Entries == [age : {"none", "fresh", "stale"}, score : Nat]
Evaluations == [at : {"idle", "start", "running", "answered"}, cached : BOOLEAN, result : Results]
Openers == [item : 1..MaxRequests + 1, at : {"next", "filter", "gates", "order"}]

\* A thread that asks for a candidate, or has reserved it, is on its route.
OnRoute(t) == worker[t].at \in {"reserving", "ask"} => ~RouteEnds(t)
WorkersTyped == worker \in [Threads -> WorkerRecords] /\ \A t \in Threads : OnRoute(t)

\* The types of the filter.
FilterTyped ==
    /\ chart \in Charts
    /\ results \in [Charts -> Results]
    /\ sentiment \in Entries
    /\ evaluation \in Evaluations
    /\ WorkersTyped

\* An Allow was made from both scores, and an answer says something.
AllowIsScored ==
    /\ \A c \in Charts : results[c].says = "Allow" => results[c].scored = Threads
    /\ evaluation.result.says = "Allow" => evaluation.result.scored = Threads
    /\ evaluation.at = "answered" => evaluation.result.says # "none"

\* The types of the cycle; an item that is being dealt with is one of the run's.
OpenerTyped ==
    /\ setup \in Setups /\ planner = setup.planner
    /\ opener \in Openers
    /\ gate \in [spent : 0..Budget, closed : BOOLEAN]
    /\ opener.at # "next" => Item <= setup.items

\* Only the item's own call is open, and behind the filter only what was allowed.
OneCall ==
    /\ \A r \in Requests :
        call[r].at \notin {"idle", "returned"} => opener.at = "order" /\ r = Item
    /\ opener.at \in {"gates", "order"} /\ setup.filter /\ BlockOnError =>
        evaluation.at = "answered" /\ evaluation.result.says = "Allow"

PipelineInv ==
    /\ PlansInv /\ QuotaInv
    /\ FilterTyped /\ AllowIsScored /\ OpenerTyped /\ OneCall

----------------------------------------------------------------------------
(* The filter's steps.                                                     *)

\* The results there are from the start.
LEMMA NoResultIsResult ==
    ASSUME FilterAssumption
    PROVE  NoResult \in Results /\ 1 \in Charts /\ NoResult.says = "none"
  BY DEF FilterAssumption, NoResult, Results, Charts

\* The candidate a thread is at is a model.
LEMMA CandidateIsModel ==
    ASSUME FilterAssumption, FilterTyped, NEW t \in Threads, ~RouteEnds(t)
    PROVE  Candidate(t) \in Models
  <1>1. Route(t, worker[t].pass) \in Seq(Models)
    BY DEF Route, FilterAssumption
  <1>2. worker[t].next \in Nat \ {0}
    BY DEF FilterTyped, WorkersTyped, WorkerRecords
  <1>3. worker[t].next <= Len(Route(t, worker[t].pass))
    BY <1>1, <1>2 DEF RouteEnds
  <1> QED BY <1>1, <1>2, <1>3 DEF Candidate

\* What the threads do to themselves keeps their types: a thread that is given a record of
\* its own stays on its route, if it was there before or leaves it now.
LEMMA NewRecordIsTyped ==
    ASSUME FilterTyped, NEW t \in Threads, NEW w \in WorkerRecords,
           worker' = [worker EXCEPT ![t] = w],
           w.at \in {"reserving", "ask"} =>
                ~RouteEnds(t) /\ w.pass = worker[t].pass /\ w.next = worker[t].next
    PROVE  WorkersTyped'
  <1>1. worker' \in [Threads -> WorkerRecords] /\ worker'[t] = w
        /\ \A u \in Threads : u # t => worker'[u] = worker[u]
    BY DEF FilterTyped, WorkersTyped
  <1>2. OnRoute(t)'
    BY <1>1 DEF OnRoute, RouteEnds, Route
  <1>3. ASSUME NEW u \in Threads, u # t PROVE OnRoute(u)'
    BY <1>1, <1>3 DEF FilterTyped, WorkersTyped, OnRoute, RouteEnds, Route
  <1> QED BY <1>1, <1>2, <1>3 DEF WorkersTyped

\* A step that leaves the threads alone leaves their types.
LEMMA WorkersStay ==
    ASSUME FilterTyped, worker' = worker
    PROVE  WorkersTyped'
  BY DEF FilterTyped, WorkersTyped, OnRoute, RouteEnds, Route

\* A thread moves on; it reserves and asks only for a candidate its route has.
LEMMA GoesIsTyped ==
    ASSUME FilterTyped, NEW t \in Threads, NEW at \in WorkerStates, Goes(t, at),
           at \in {"reserving", "ask"} => ~RouteEnds(t)
    PROVE  WorkersTyped'
  <1> DEFINE w == [worker[t] EXCEPT !.at = at]
  <1>1. worker' = [worker EXCEPT ![t] = w]
    BY DEF Goes
  <1>2. w \in WorkerRecords /\ w.at = at /\ w.pass = worker[t].pass /\ w.next = worker[t].next
    BY DEF FilterTyped, WorkersTyped, WorkerRecords
  <1> HIDE DEF w
  <1> QED BY <1>1, <1>2, NewRecordIsTyped

\* A thread has a score.
LEMMA ScoredIsTyped ==
    ASSUME FilterTyped, NEW t \in Threads, NEW s \in Nat, NEW at \in {"store", "scored"},
           worker' = [worker EXCEPT ![t] = [worker[t] EXCEPT !.at = at, !.score = s]]
    PROVE  WorkersTyped'
  <1> DEFINE w == [worker[t] EXCEPT !.at = at, !.score = s]
  <1>1. w \in WorkerRecords /\ w.at \notin {"reserving", "ask"}
    BY DEF FilterTyped, WorkersTyped, WorkerRecords, WorkerStates
  <1>2. worker' = [worker EXCEPT ![t] = w]
    OBVIOUS
  <1> HIDE DEF w
  <1> QED BY <1>1, <1>2, NewRecordIsTyped

\* A thread turns to a candidate, ...
LEMMA TriesIsTyped ==
    ASSUME FilterTyped, NEW t \in Threads, NEW pass \in {1, 2}, NEW next \in Nat \ {0},
           Tries(t, pass, next)
    PROVE  WorkersTyped'
  <1> DEFINE w == [worker[t] EXCEPT !.at = "reserve", !.pass = pass, !.next = next]
  <1>1. w \in WorkerRecords /\ w.at \notin {"reserving", "ask"}
    BY DEF FilterTyped, WorkersTyped, WorkerRecords, WorkerStates
  <1>2. worker' = [worker EXCEPT ![t] = w]
    BY DEF Tries
  <1> HIDE DEF w
  <1> QED BY <1>1, <1>2, NewRecordIsTyped

\* ... the next one, say; ...
LEMMA TriesNextIsTyped ==
    ASSUME FilterTyped, NEW t \in Threads, TriesNext(t)
    PROVE  WorkersTyped'
  <1>1. worker[t].pass \in {1, 2} /\ worker[t].next + 1 \in Nat \ {0}
    BY DEF FilterTyped, WorkersTyped, WorkerRecords
  <1> QED BY <1>1, TriesIsTyped DEF TriesNext

\* ... or fails on its quota, for which the sentiment may have a stale score; ...
LEMMA FailsOnQuotaIsTyped ==
    ASSUME FilterTyped, NEW t \in Threads, FailsOnQuota(t)
    PROVE  WorkersTyped'
  <1>1. sentiment.score \in Nat
    BY DEF FilterTyped, Entries
  <1>2. CASE Scored(t, sentiment.score)
    <2>1. worker' = [worker EXCEPT ![t] = [worker[t] EXCEPT !.at = "scored", !.score = sentiment.score]]
      BY <1>2 DEF Scored, FilterTyped, WorkersTyped
    <2> QED BY <1>1, <2>1, ScoredIsTyped
  <1>3. CASE Goes(t, "quota")
    BY <1>3, GoesIsTyped DEF WorkerStates
  <1> QED BY <1>2, <1>3 DEF FailsOnQuota

\* ... or takes a score, with which it is done or goes on to its second pass.
LEMMA TakeScoreIsTyped ==
    ASSUME FilterTyped, NEW t \in Threads, NEW s \in Nat, TakeScore(t, s)
    PROVE  WorkersTyped'
  <1>1. CASE Tries(t, 2, 1)
    BY <1>1, TriesIsTyped
  <1>2. CASE worker' = [worker EXCEPT ![t].at = "store", ![t].score = s]
    <2>1. worker' = [worker EXCEPT ![t] = [worker[t] EXCEPT !.at = "store", !.score = s]]
      BY <1>2 DEF FilterTyped, WorkersTyped
    <2> QED BY <2>1, ScoredIsTyped
  <1>3. CASE Scored(t, s)
    <2>1. worker' = [worker EXCEPT ![t] = [worker[t] EXCEPT !.at = "scored", !.score = s]]
      BY <1>3 DEF Scored, FilterTyped, WorkersTyped
    <2> QED BY <2>1, ScoredIsTyped
  <1> QED BY <1>1, <1>2, <1>3 DEF TakeScore

\* A thread's step: the quota's part of it is one of the quota's steps, and the evaluation is
\* left alone.
ThreadEffect ==
    /\ [QuotaNext]_quotaVars
    /\ chart' = chart /\ results' = results /\ evaluation' = evaluation
    /\ sentiment' \in Entries
    /\ WorkersTyped'

\* The first steps of the two threads do what a thread's step may do.
LEMMA BeginEffect ==
    ASSUME FilterTyped, FilterAssumption, BeginSentiment \/ BeginVision
    PROVE  ThreadEffect
  <1>0. "sentiment" \in Threads /\ "vision" \in Threads
    BY DEF FilterAssumption
  <1>1. CASE BeginSentiment
    <2>1. sentiment' \in Entries
      <3>1. sentiment' \in Aged(sentiment)
        BY <1>1 DEF BeginSentiment
      <3>2. \/ sentiment' = sentiment
            \/ sentiment' = [age |-> "none", score |-> 0]
            \/ sentiment' = [sentiment EXCEPT !.age = "stale"]
        BY <3>1 DEF Aged
      <3>3. sentiment \in Entries
        BY DEF FilterTyped
      <3> QED BY <3>2, <3>3 DEF Entries
    <2>2. sentiment'.score \in Nat
      BY <2>1 DEF Entries
    <2>3. \/ Scored("sentiment", sentiment'.score)
          \/ Tries("sentiment", 1, 1)
          \/ Goes("sentiment", "error")
      BY <1>1 DEF BeginSentiment
    <2>4. CASE Scored("sentiment", sentiment'.score)
      <3>1. worker' = [worker EXCEPT !["sentiment"] =
                [worker["sentiment"] EXCEPT !.at = "scored", !.score = sentiment'.score]]
        BY <1>0, <2>4 DEF Scored, FilterTyped, WorkersTyped
      <3>2. WorkersTyped'
        BY <1>0, <2>2, <3>1, ScoredIsTyped
      <3> QED BY <1>1, <2>1, <3>2 DEF BeginSentiment, ThreadEffect
    <2>5. CASE Tries("sentiment", 1, 1) \/ Goes("sentiment", "error")
      <3>1. WorkersTyped'
        BY <1>0, <2>5, TriesIsTyped, GoesIsTyped DEF WorkerStates
      <3> QED BY <1>1, <2>1, <3>1 DEF BeginSentiment, ThreadEffect
    <2> QED BY <2>3, <2>4, <2>5
  <1>2. CASE BeginVision
    <2>1. WorkersTyped'
      BY <1>0, <1>2, TriesIsTyped, GoesIsTyped DEF BeginVision, WorkerStates
    <2> QED BY <1>2, <2>1 DEF BeginVision, ThreadEffect, FilterTyped
  <1> QED BY <1>1, <1>2

\* So does every later one.
LEMMA WorkerEffect ==
    ASSUME FilterTyped, FilterAssumption, NEW t \in Threads, WorkerStep(t)
    PROVE  ThreadEffect
  <1>1. CASE Reserve(t)
    <2>1. Candidate(t) \in Models
      BY <1>1, CandidateIsModel DEF Reserve
    <2>2. QuotaNext
      BY <1>1, <2>1 DEF Reserve, QuotaNext
    <2>3. WorkersTyped'
      BY <1>1, GoesIsTyped DEF Reserve, WorkerStates
    <2> QED BY <1>1, <2>2, <2>3 DEF Reserve, ThreadEffect, FilterTyped
  <1>2. CASE Exhausted(t)
    <2>1. WorkersTyped'
      BY <1>2, FailsOnQuotaIsTyped DEF Exhausted
    <2> QED BY <1>2, <2>1 DEF Exhausted, ThreadEffect, FilterTyped
  <1>3. CASE Reserved(t) \/ Cooled(t)
    <2>1. WorkersTyped'
      <3>1. CASE Goes(t, "ask") /\ worker[t].at = "reserving"
        BY <3>1, GoesIsTyped DEF WorkerStates, FilterTyped, WorkersTyped, OnRoute
      <3>2. CASE TriesNext(t)
        BY <3>2, TriesNextIsTyped
      <3> QED BY <1>3, <3>1, <3>2 DEF Reserved, Cooled
    <2>2. QuotaNext
      BY <1>3 DEF Reserved, Cooled, QuotaNext
    <2> QED BY <1>3, <2>1, <2>2 DEF Reserved, Cooled, ThreadEffect, FilterTyped
  <1>4. CASE LockFails(t)
    <2>1. WorkersTyped'
      BY <1>4, FailsOnQuotaIsTyped DEF LockFails
    <2>2. QuotaNext
      BY <1>4 DEF LockFails, QuotaNext
    <2> QED BY <1>4, <2>1, <2>2 DEF LockFails, ThreadEffect, FilterTyped
  <1>5. CASE Ask(t)
    <2>1. /\ chart' = chart /\ results' = results /\ evaluation' = evaluation
          /\ sentiment' = sentiment
      BY <1>5 DEF Ask
    <2>2. \/ (\E s \in Scores : TakeScore(t, s)) /\ UNCHANGED quotaVars
          \/ Approach(t, "cooldown", Candidate(t)) /\ Goes(t, "cooling")
          \/ TriesNext(t) /\ UNCHANGED quotaVars
      BY <1>5 DEF Ask
    <2>3. CASE (\E s \in Scores : TakeScore(t, s)) /\ UNCHANGED quotaVars
      <3>1. WorkersTyped'
        BY <2>3, TakeScoreIsTyped DEF FilterAssumption
      <3> QED BY <2>1, <2>3, <3>1 DEF ThreadEffect, FilterTyped
    <2>4. CASE Approach(t, "cooldown", Candidate(t)) /\ Goes(t, "cooling")
      <3>1. WorkersTyped'
        BY <2>4, GoesIsTyped DEF WorkerStates
      <3>2. Candidate(t) \in Models
        BY <1>5, CandidateIsModel DEF Ask, FilterTyped, WorkersTyped, OnRoute
      <3>3. QuotaNext
        BY <2>4, <3>2 DEF QuotaNext
      <3> QED BY <2>1, <3>1, <3>3 DEF ThreadEffect, FilterTyped
    <2>5. CASE TriesNext(t) /\ UNCHANGED quotaVars
      <3>1. WorkersTyped'
        BY <2>5, TriesNextIsTyped
      <3> QED BY <2>1, <2>5, <3>1 DEF ThreadEffect, FilterTyped
    <2> QED BY <2>2, <2>3, <2>4, <2>5
  <1>6. CASE StoreSentiment(t)
    <2>1. WorkersTyped'
      BY <1>6, GoesIsTyped DEF StoreSentiment, WorkerStates
    <2>2. worker[t].score \in Nat
      BY DEF FilterTyped, WorkersTyped, WorkerRecords
    <2>3. sentiment' \in Entries
      BY <1>6, <2>2 DEF StoreSentiment, FilterTyped, Entries
    <2> QED BY <1>6, <2>1, <2>3 DEF StoreSentiment, ThreadEffect
  <1>7. CASE QuotaStep(t) /\ UNCHANGED <<chart, results, sentiment, evaluation, worker, mishaps>>
    <2>1. WorkersTyped'
      BY <1>7, WorkersStay
    <2> QED BY <1>7, <2>1 DEF QuotaNext, ThreadEffect, FilterTyped
  <1> QED BY <1>1, <1>2, <1>3, <1>4, <1>5, <1>6, <1>7 DEF WorkerStep

----------------------------------------------------------------------------
(* The evaluation.                                                         *)

\* What a step of the filter does; an answer stays until it is taken.
FilterEffect ==
    /\ [QuotaNext]_quotaVars
    /\ FilterTyped' /\ AllowIsScored'
    /\ evaluation.at = "answered" => evaluation' = evaluation

\* A result that may be answered and cached.
Sound(result) ==
    /\ result \in Results /\ result.says # "none"
    /\ result.says = "Allow" => result.scored = Threads

\* An answer with a sound result.
LEMMA AnswersSoundly ==
    ASSUME FilterTyped, NEW result, Sound(result), NEW cached \in BOOLEAN, Answers(result, cached)
    PROVE  /\ evaluation' \in Evaluations
           /\ evaluation'.result = result /\ evaluation'.at = "answered"
  BY DEF Answers, Evaluations, Sound

\* The end of a process with a sound result.
LEMMA EndsSoundly ==
    ASSUME FilterTyped, AllowIsScored, NEW result, Sound(result), evaluation.at = "running",
           Ends(result), ProcessEnds, chart' = chart, sentiment' = sentiment
    PROVE  FilterEffect
  <1>1. /\ evaluation' \in Evaluations
        /\ evaluation'.result = result /\ evaluation'.at = "answered"
    BY AnswersSoundly DEF Ends
  <1>2. results' = [results EXCEPT ![chart] = result] /\ chart \in Charts
    BY DEF Ends, KeyForResult, FilterTyped
  <1>3. /\ results' \in [Charts -> Results]
        /\ \A c \in Charts : results'[c].says = "Allow" => results'[c].scored = Threads
    BY <1>2 DEF FilterTyped, AllowIsScored, Sound
  <1>4. WorkersTyped'
    <2>1. worker' = [t \in Threads |-> NewWorker]
      BY DEF Ends
    <2>2. NewWorker \in WorkerRecords /\ NewWorker.at = "off"
      BY DEF NewWorker, WorkerRecords, WorkerStates
    <2> QED BY <2>1, <2>2 DEF WorkersTyped, OnRoute
  <1>5. FilterTyped'
    BY <1>1, <1>3, <1>4 DEF FilterTyped
  <1>6. AllowIsScored'
    BY <1>1, <1>3 DEF AllowIsScored, Sound
  <1>7. QuotaNext
    BY DEF QuotaNext
  <1> QED BY <1>5, <1>6, <1>7 DEF FilterEffect

\* The verdict is one: it allows only when both threads have scored.
LEMMA VerdictIsSound ==
    ASSUME FilterTyped, FilterAssumption
    PROVE  Sound(Verdict) /\ Sound(Failure)
  <1>1. evaluation.result \in Results /\ evaluation.result.judged \in Charts
    BY DEF FilterTyped, Evaluations, Results
  <1>2. Sound(Failure)
    <2>1. NoResult \in Results
      BY NoResultIsResult
    <2>2. Failure \in Results /\ Failure.says = "error"
      BY <1>1, <2>1 DEF Failure, Results
    <2> QED BY <2>2 DEF Sound
  <1>3. ScoredThreads \subseteq Threads /\ (~Errors => ScoredThreads = Threads)
    BY DEF ScoredThreads, Errors
  <1>4. Verdict.says \in {"Allow", "Block", "quota", "error"} /\ (Verdict.says = "Allow" => ~Errors)
    BY DEF Verdict
  <1>5. /\ Verdict = [says |-> Verdict.says, judged |-> evaluation.result.judged,
                      scored |-> ScoredThreads]
    BY DEF Verdict
  <1>6. Verdict.scored = ScoredThreads
    BY DEF Verdict
  <1>7. Verdict \in Results
    BY <1>1, <1>3, <1>4, <1>5 DEF Results
  <1> QED BY <1>2, <1>3, <1>4, <1>6, <1>7 DEF Sound

\* The steps of the evaluation and its threads.
LEMMA EvaluationEffect ==
    ASSUME FilterTyped, AllowIsScored, FilterAssumption, EvaluationStep
    PROVE  FilterEffect
  <1>1. CASE Start
    <2>0. UNCHANGED <<quotaVars, chart, results, sentiment>> /\ evaluation.at = "start"
      BY <1>1 DEF Start
    <2>1. CASE /\ evaluation' = [evaluation EXCEPT !.at = "running", !.result.judged = chart]
               /\ worker' = [t \in Threads |-> [NewWorker EXCEPT !.at = "begin"]]
      <3> DEFINE result == [evaluation.result EXCEPT !.judged = chart]
      <3>1. evaluation.result \in Results /\ chart \in Charts /\ evaluation \in Evaluations
        BY DEF FilterTyped, Evaluations
      <3>2. result \in Results /\ result.says = evaluation.result.says
            /\ result.scored = evaluation.result.scored
        BY <3>1 DEF Results
      <3>3. evaluation' = [evaluation EXCEPT !.at = "running", !.result = result]
        BY <2>1, <3>1 DEF Evaluations
      <3> HIDE DEF result
      <3>4. evaluation' \in Evaluations /\ evaluation'.result = result /\ evaluation'.at = "running"
        BY <3>1, <3>2, <3>3 DEF Evaluations
      <3>5. WorkersTyped'
        <4>1. [NewWorker EXCEPT !.at = "begin"] \in WorkerRecords
          BY DEF NewWorker, WorkerRecords, WorkerStates
        <4>2. [NewWorker EXCEPT !.at = "begin"].at = "begin"
          BY DEF NewWorker
        <4> QED BY <2>1, <4>1, <4>2 DEF WorkersTyped, OnRoute
      <3>6. FilterTyped'
        BY <2>0, <3>4, <3>5 DEF FilterTyped
      <3>7. AllowIsScored'
        BY <2>0, <3>2, <3>4 DEF AllowIsScored
      <3> QED BY <2>0, <3>6, <3>7 DEF FilterEffect
    <2>2. CASE Answers(Failure, FALSE) /\ UNCHANGED worker
      <3>1. /\ evaluation' \in Evaluations
            /\ evaluation'.result = Failure /\ evaluation'.at = "answered"
        BY <2>2, AnswersSoundly, VerdictIsSound
      <3>2. FilterTyped'
        BY <2>0, <2>2, <3>1, WorkersStay DEF FilterTyped
      <3>3. AllowIsScored'
        BY <2>0, <3>1, VerdictIsSound DEF AllowIsScored, Sound
      <3> QED BY <2>0, <3>2, <3>3 DEF FilterEffect
    <2> QED BY <1>1, <2>1, <2>2 DEF Start
  <1>2. CASE Join
    BY <1>2, VerdictIsSound, EndsSoundly DEF Join
  <1>3. CASE Kill
    BY <1>3, VerdictIsSound, EndsSoundly DEF Kill
  <1>4. CASE BeginSentiment \/ BeginVision \/ \E t \in Threads : WorkerStep(t)
    <2>1. ThreadEffect
      BY <1>4, BeginEffect, WorkerEffect
    <2> QED BY <2>1 DEF ThreadEffect, FilterEffect, FilterTyped, AllowIsScored
  <1> QED BY <1>1, <1>2, <1>3, <1>4 DEF EvaluationStep

\* Looking into the result cache.
LEMMA LookUpEffect ==
    ASSUME FilterTyped, AllowIsScored, FilterAssumption, LookUp
    PROVE  FilterEffect
  <1>0. /\ UNCHANGED <<quotaVars, chart, sentiment, worker, mishaps>> /\ evaluation.at = "idle"
        /\ chart \in Charts
    BY DEF LookUp, FilterTyped
  <1>1. CASE results[chart].says # "none" /\ Answers(results[chart], TRUE) /\ UNCHANGED results
    <2>1. Sound(results[chart])
      BY <1>0, <1>1 DEF Sound, FilterTyped, AllowIsScored
    <2>2. /\ evaluation' \in Evaluations
          /\ evaluation'.result = results[chart] /\ evaluation'.at = "answered"
      BY <1>1, <2>1, AnswersSoundly
    <2>3. FilterTyped'
      BY <1>0, <1>1, <2>2, WorkersStay DEF FilterTyped
    <2>4. AllowIsScored'
      BY <1>1, <2>1, <2>2 DEF AllowIsScored, Sound
    <2> QED BY <1>0, <2>3, <2>4 DEF FilterEffect
  <1>2. CASE /\ evaluation' = [evaluation EXCEPT !.at = "start"]
             /\ results' = [results EXCEPT ![chart] = NoResult]
    <2>1. NoResult \in Results /\ NoResult.says = "none"
      BY NoResultIsResult
    <2>2. /\ evaluation' \in Evaluations /\ evaluation'.at = "start"
          /\ evaluation'.result = evaluation.result
      BY <1>2 DEF FilterTyped, Evaluations
    <2>3. /\ results' \in [Charts -> Results]
          /\ \A c \in Charts : results'[c].says = "Allow" => results'[c].scored = Threads
      BY <1>0, <1>2, <2>1 DEF FilterTyped, AllowIsScored
    <2>4. FilterTyped'
      BY <1>0, <2>2, <2>3, WorkersStay DEF FilterTyped
    <2>5. AllowIsScored'
      BY <2>2, <2>3 DEF AllowIsScored
    <2> QED BY <1>0, <2>4, <2>5 DEF FilterEffect
  <1> QED BY <1>1, <1>2 DEF LookUp

\* The chart, and the quota's time.
LEMMA MeanwhileEffect ==
    ASSUME FilterTyped, AllowIsScored, FilterAssumption, Meanwhile
    PROVE  FilterEffect
  <1>1. CASE ChartMoves
    <2>1. /\ UNCHANGED <<quotaVars, results, sentiment, evaluation, worker, mishaps>>
          /\ chart' = chart + 1 /\ chart < MaxCharts
      BY <1>1 DEF ChartMoves
    <2>2. chart' \in Charts
      BY <2>1 DEF FilterTyped, Charts, FilterAssumption
    <2>3. FilterTyped'
      BY <2>1, <2>2, WorkersStay DEF FilterTyped
    <2> QED BY <2>1, <2>3 DEF FilterEffect, AllowIsScored
  <1>2. CASE QuotaAges
    <2>1. /\ UNCHANGED <<chart, results, sentiment, evaluation, worker, mishaps>> /\ QuotaNext
      BY <1>2 DEF QuotaAges, QuotaNext
    <2>2. FilterTyped'
      BY <2>1, WorkersStay DEF FilterTyped
    <2> QED BY <2>1, <2>2 DEF FilterEffect, AllowIsScored
  <1> QED BY <1>1, <1>2 DEF Meanwhile

----------------------------------------------------------------------------
(* The whole.                                                              *)

\* An item that is dealt with is one of the calls.
LEMMA ItemIsRequest ==
    ASSUME PlansAssumption, PipelineAssumption, OpenerTyped, Item <= setup.items
    PROVE  Item \in Requests /\ Item + 1 \in 1..MaxRequests + 1
  <1>1. setup.items \in Nat /\ setup.items <= MaxRequests /\ MaxRequests \in Nat
    <2>1. setup \in [filter : BOOLEAN, planner : Planners, items : 0..MaxRequests]
      BY DEF OpenerTyped, PipelineAssumption
    <2> QED BY <2>1 DEF PlansAssumption
  <1>2. Item \in 1..MaxRequests + 1
    BY DEF OpenerTyped, Openers, Item
  <1> HIDE DEF Item
  <1> QED BY <1>1, <1>2 DEF Requests

\* Every step is one of the planner's system and one of the quota's, or leaves them alone.
LEMMA StepsAreSteps ==
    ASSUME PlansAssumption, FilterAssumption, PipelineAssumption,
           FilterTyped, AllowIsScored, OpenerTyped, [PipelineNext]_pipelineVars
    PROVE  [PlansNext]_plansVars /\ [QuotaNext]_quotaVars
  <1> USE DEF filterVars
  <1>1. CASE PassOver \/ OverBudget \/ NoFilter \/ TakeAnswer \/ Stopped \/ Opened \/ NewCycle
    BY <1>1 DEF PassOver, OverBudget, NoFilter, TakeAnswer, Stopped, Opened, NewCycle
  <1>2. CASE Evaluate
    BY <1>2 DEF Evaluate, LookUp
  <1>3. CASE Open
    <2>1. Begins(Item) /\ UNCHANGED filterVars
      BY <1>3 DEF Open
    <2>2. Item \in Requests
      BY <1>3, ItemIsRequest DEF Open, OpenerTyped
    <2> QED BY <2>1, <2>2 DEF PlansNext
  <1>4. CASE FilterStep
    BY <1>4, EvaluationEffect DEF FilterStep, FilterEffect
  <1>5. CASE MarketStep
    BY <1>5 DEF MarketStep, PlansNext
  <1>6. CASE World
    BY <1>6, MeanwhileEffect DEF World, FilterEffect, PlansNext
  <1>7. CASE UNCHANGED pipelineVars
    BY <1>7 DEF pipelineVars
  <1> QED BY <1>1, <1>2, <1>3, <1>4, <1>5, <1>6, <1>7 DEF PipelineNext, OpenerStep

\* The planner is set up once.
LEMMA PlannerStays ==
    ASSUME PlansAssumption, PlansInv, [PlansNext]_plansVars
    PROVE  planner' = planner
  <1>1. ASSUME NEW r \in Requests, Begins(r) \/ CallStep(r) PROVE planner' = planner
    BY <1>1, CallKeeps DEF Elsewhere
  <1>2. CASE OthersStep
    BY <1>2, OthersLeave DEF PlansInv
  <1>3. CASE UNCHANGED plansVars
    BY <1>3 DEF plansVars
  <1> QED BY <1>1, <1>2, <1>3 DEF PlansNext

\* What a step of the call of r does to the calls.
LEMMA CallsAround ==
    ASSUME PlansAssumption, PlansInv, NEW r \in Requests, Begins(r) \/ CallStep(r)
    PROVE  \A q \in Requests : q # r => call'[q] = call[q] /\ sent'[q] = sent[q]
  BY CallKeeps DEF Elsewhere

\* The steps of the cycle's coroutine.
LEMMA OpenerEffect ==
    ASSUME PlansAssumption, FilterAssumption, PipelineAssumption, PipelineInv,
           OpenerStep \/ NewCycle
    PROVE  FilterTyped' /\ AllowIsScored' /\ OpenerTyped' /\ OneCall'
  <1> USE DEF filterVars
  <1>0. /\ opener \in Openers /\ gate \in [spent : 0..Budget, closed : BOOLEAN] /\ Budget \in Nat
        /\ setup \in Setups /\ planner = setup.planner
        /\ opener.at # "next" => Item <= setup.items
        /\ evaluation \in Evaluations
        /\ \A r \in Requests :
            call[r].at \notin {"idle", "returned"} => opener.at = "order" /\ r = Item
    BY DEF PipelineInv, OpenerTyped, FilterTyped, OneCall, PipelineAssumption
  <1>1. planner' = planner
    <2>1. [PipelineNext]_pipelineVars
      BY DEF PipelineNext
    <2>2. [PlansNext]_plansVars
      BY <2>1, StepsAreSteps DEF PipelineInv
    <2> QED BY <2>2, PlannerStays DEF PipelineInv
  <1>2. setup' = setup
    BY DEF OpenerStep, PassOver, OverBudget, Evaluate, NoFilter, TakeAnswer, Stopped, Open, Opened,
           NewCycle
  <1>3. ASSUME Item <= setup.items PROVE Item + 1 \in 1..MaxRequests + 1
    BY <1>3, ItemIsRequest DEF PipelineInv
  <1>4. gate' \in [spent : 0..Budget, closed : BOOLEAN]
    <2>1. CASE gate' = gate
      BY <1>0, <2>1
    <2>2. CASE NewCycle
      BY <1>0, <2>2 DEF NewCycle, OpenGate
    <2>3. CASE OverBudget
      BY <1>0, <2>3 DEF OverBudget
    <2>4. CASE Evaluate
      <3>1. gate.spent < Budget /\ gate' = [gate EXCEPT !.spent = gate.spent + 1]
        BY <2>4 DEF Evaluate, WithinBudget
      <3>2. gate.spent \in 0..Budget
        BY <1>0
      <3>3. gate.spent + 1 \in 0..Budget
        BY <1>0, <3>1, <3>2
      <3> QED BY <1>0, <3>1, <3>3
    <2>5. CASE TakeAnswer
      <3>1. (gate.closed \/ evaluation.result.says = "quota") \in BOOLEAN
        OBVIOUS
      <3>2. gate' = [gate EXCEPT !.closed = gate.closed \/ evaluation.result.says = "quota"]
        BY <2>5 DEF TakeAnswer
      <3>3. gate.spent \in 0..Budget /\ gate = [spent |-> gate.spent, closed |-> gate.closed]
        BY <1>0
      <3> QED BY <1>0, <3>1, <3>2, <3>3
    <2> QED BY <2>1, <2>2, <2>3, <2>4, <2>5
        DEF OpenerStep, PassOver, NoFilter, Stopped, Open, Opened
  <1>5. CASE NewCycle
    <2>1. UNCHANGED <<plansVars, filterVars, setup, opener>>
      BY <1>5 DEF NewCycle
    <2>2. UNCHANGED <<call, chart, results, sentiment, evaluation, worker>>
      BY <2>1 DEF plansVars
    <2>3. FilterTyped' /\ AllowIsScored'
      BY <2>2, WorkersStay DEF PipelineInv, FilterTyped, AllowIsScored
    <2>4. OpenerTyped' /\ OneCall'
      BY <1>0, <1>1, <1>2, <1>4, <2>1, <2>2 DEF PipelineInv, OpenerTyped, OneCall, Item
    <2> QED BY <2>3, <2>4
  <1>6. CASE PassOver \/ OverBudget
    <2>1. UNCHANGED <<plansVars, filterVars>> /\ NextItem /\ HasItem
      BY <1>6 DEF PassOver, OverBudget
    <2>2. UNCHANGED <<call, chart, results, sentiment, evaluation, worker>>
      BY <2>1 DEF plansVars
    <2>3. FilterTyped' /\ AllowIsScored'
      BY <2>2, WorkersStay DEF PipelineInv, FilterTyped, AllowIsScored
    <2>4. opener' = [item |-> Item + 1, at |-> "next"] /\ Item <= setup.items /\ opener.at = "next"
      BY <2>1 DEF NextItem, HasItem
    <2>5. OpenerTyped'
      BY <1>0, <1>1, <1>2, <1>3, <1>4, <2>4 DEF OpenerTyped, Openers
    <2>6. OneCall'
      BY <1>0, <2>2, <2>4 DEF OneCall
    <2> QED BY <2>3, <2>5, <2>6
  <1>7. CASE Evaluate
    <2>1. HasItem /\ LookUp /\ opener' = [opener EXCEPT !.at = "filter"] /\ UNCHANGED plansVars
      BY <1>7 DEF Evaluate, Opener
    <2>2. FilterTyped' /\ AllowIsScored'
      BY <2>1, LookUpEffect DEF PipelineInv, FilterEffect
    <2>3. opener' \in Openers /\ opener'.at = "filter" /\ opener'.item = opener.item
      BY <1>0, <2>1 DEF Openers
    <2>4. OpenerTyped'
      BY <1>0, <1>1, <1>2, <1>4, <2>1, <2>3 DEF OpenerTyped, HasItem, Item
    <2>5. OneCall'
      BY <1>0, <2>1, <2>3 DEF OneCall, HasItem, plansVars
    <2> QED BY <2>2, <2>4, <2>5
  <1>8. CASE NoFilter
    <2>1. /\ HasItem /\ ~setup.filter /\ opener' = [opener EXCEPT !.at = "gates"]
          /\ UNCHANGED <<plansVars, filterVars>>
      BY <1>8 DEF NoFilter, Opener
    <2>2. UNCHANGED <<call, chart, results, sentiment, evaluation, worker>>
      BY <2>1 DEF plansVars
    <2>3. FilterTyped' /\ AllowIsScored'
      BY <2>2, WorkersStay DEF PipelineInv, FilterTyped, AllowIsScored
    <2>4. opener' \in Openers /\ opener'.at = "gates" /\ opener'.item = opener.item
      BY <1>0, <2>1 DEF Openers
    <2>5. OpenerTyped'
      BY <1>0, <1>1, <1>2, <1>4, <2>1, <2>4 DEF OpenerTyped, HasItem, Item
    <2>6. OneCall'
      BY <1>0, <1>2, <2>1, <2>2, <2>4 DEF OneCall, HasItem
    <2> QED BY <2>3, <2>5, <2>6
  <1>9. CASE TakeAnswer
    <2>1. /\ opener.at = "filter" /\ evaluation.at = "answered"
          /\ UNCHANGED <<plansVars, quotaVars, chart, results, sentiment, worker, mishaps>>
          /\ \/ NextItem /\ evaluation' = Idle
             \/ opener' = [opener EXCEPT !.at = "gates"] /\ UNCHANGED evaluation /\ ~Blocks
      BY <1>9 DEF TakeAnswer, Opener
    <2>2. UNCHANGED <<call, chart, results, sentiment, worker>>
      BY <2>1 DEF plansVars
    <2>3. CASE NextItem /\ evaluation' = Idle
      <3>1. Idle \in Evaluations /\ Idle.at = "idle" /\ Idle.result = NoResult /\ NoResult.says = "none"
        BY NoResultIsResult DEF Idle, Evaluations
      <3>2. FilterTyped'
        BY <2>2, <2>3, <3>1, WorkersStay DEF PipelineInv, FilterTyped
      <3>3. AllowIsScored'
        BY <2>2, <2>3, <3>1 DEF PipelineInv, AllowIsScored
      <3>4. opener' = [item |-> Item + 1, at |-> "next"] /\ Item <= setup.items
        BY <1>0, <2>1, <2>3 DEF NextItem
      <3>5. OpenerTyped'
        BY <1>0, <1>1, <1>2, <1>3, <1>4, <3>4 DEF OpenerTyped, Openers
      <3>6. OneCall'
        BY <1>0, <2>1, <2>2, <3>4 DEF OneCall
      <3> QED BY <3>2, <3>3, <3>5, <3>6
    <2>4. CASE opener' = [opener EXCEPT !.at = "gates"] /\ UNCHANGED evaluation /\ ~Blocks
      <3>1. FilterTyped' /\ AllowIsScored'
        BY <2>2, <2>4, WorkersStay DEF PipelineInv, FilterTyped, AllowIsScored
      <3>2. opener' \in Openers /\ opener'.at = "gates" /\ opener'.item = opener.item
        BY <1>0, <2>4 DEF Openers
      <3>3. OpenerTyped'
        BY <1>0, <1>1, <1>2, <1>4, <2>1, <3>2 DEF OpenerTyped, Item
      <3>4. evaluation.result.says \in {"none", "Allow", "Block", "quota", "error"}
            /\ evaluation.result.says # "none"
        BY <1>0, <2>1 DEF PipelineInv, AllowIsScored, Evaluations, Results
      <3>5. BlockOnError => evaluation.result.says = "Allow"
        BY <2>4, <3>4 DEF Blocks, IsError
      <3>6. OneCall'
        BY <1>0, <2>1, <2>2, <2>4, <3>2, <3>5 DEF OneCall
      <3> QED BY <3>1, <3>3, <3>6
    <2> QED BY <2>1, <2>3, <2>4
  <1>10. CASE Stopped \/ Opened
    <2>1. /\ opener.at \in {"gates", "order"} /\ NextItem /\ evaluation' = Idle
          /\ UNCHANGED <<plansVars, quotaVars, chart, results, sentiment, worker, mishaps>>
          /\ opener.at = "order" => call[Item].at = "returned"
      BY <1>10 DEF Stopped, Opened
    <2>2. UNCHANGED <<call, chart, results, sentiment, worker>>
      BY <2>1 DEF plansVars
    <2>3. Idle \in Evaluations /\ Idle.at = "idle" /\ Idle.result = NoResult /\ NoResult.says = "none"
      BY NoResultIsResult DEF Idle, Evaluations
    <2>4. FilterTyped'
      BY <2>1, <2>2, <2>3, WorkersStay DEF PipelineInv, FilterTyped
    <2>5. AllowIsScored'
      BY <2>1, <2>2, <2>3 DEF PipelineInv, AllowIsScored
    <2>6. opener' = [item |-> Item + 1, at |-> "next"] /\ Item <= setup.items
      BY <1>0, <2>1 DEF NextItem
    <2>7. OpenerTyped'
      BY <1>0, <1>1, <1>2, <1>3, <1>4, <2>6 DEF OpenerTyped, Openers
    <2>8. \A r \in Requests : call[r].at \in {"idle", "returned"}
      BY <1>0, <2>1
    <2>9. OneCall'
      BY <2>2, <2>6, <2>8 DEF OneCall
    <2> QED BY <2>4, <2>5, <2>7, <2>9
  <1>11. CASE Open
    <2>1. /\ opener.at = "gates" /\ Begins(Item) /\ opener' = [opener EXCEPT !.at = "order"]
          /\ UNCHANGED filterVars
      BY <1>11 DEF Open, Opener
    <2>2. UNCHANGED <<chart, results, sentiment, evaluation, worker>>
      BY <2>1
    <2>3. FilterTyped' /\ AllowIsScored'
      BY <2>2, WorkersStay DEF PipelineInv, FilterTyped, AllowIsScored
    <2>4. opener' \in Openers /\ opener'.at = "order" /\ opener'.item = opener.item
      BY <1>0, <2>1 DEF Openers
    <2>5. OpenerTyped'
      BY <1>0, <1>1, <1>2, <1>4, <2>1, <2>4 DEF OpenerTyped, Item
    <2>6. Item \in Requests
      BY <1>0, <2>1, ItemIsRequest DEF PipelineInv
    <2>7. \A q \in Requests : q # Item => call'[q] = call[q]
      BY <2>1, <2>6, CallsAround DEF PipelineInv
    <2>8. OneCall'
      BY <1>0, <1>2, <2>1, <2>2, <2>4, <2>7 DEF PipelineInv, OneCall, Item
    <2> QED BY <2>3, <2>5, <2>8
  <1> QED BY <1>5, <1>6, <1>7, <1>8, <1>9, <1>10, <1>11 DEF OpenerStep

\* A call that takes a step has begun and has not returned.
LEMMA CallStepIsOpen ==
    ASSUME NEW r \in Requests, CallStep(r)
    PROVE  call[r].at \notin {"idle", "returned"}
  BY DEF CallStep, PlaceWhole, Fetch, Expire, RejectSlice, RejectExcess, AwaitDue, AskDecision,
         Revoke, MarkSubmitted, PlaceSlice, Accepted, NotAccepted, FailSlice, RecordFilled, Finish

\* What goes on by itself: the threads, the calls and the others.
LEMMA WorldEffect ==
    ASSUME PlansAssumption, FilterAssumption, PipelineAssumption, PipelineInv,
           FilterStep \/ MarketStep \/ World
    PROVE  FilterTyped' /\ AllowIsScored' /\ OpenerTyped' /\ OneCall'
  <1> USE DEF filterVars
  <1>0. UNCHANGED <<setup, opener, gate>>
    BY DEF FilterStep, MarketStep, World
  <1>1. planner' = planner
    <2>1. [PipelineNext]_pipelineVars
      BY DEF PipelineNext
    <2>2. [PlansNext]_plansVars
      BY <2>1, StepsAreSteps DEF PipelineInv
    <2> QED BY <2>2, PlannerStays DEF PipelineInv
  <1>2. OpenerTyped'
    BY <1>0, <1>1 DEF PipelineInv, OpenerTyped, Item
  <1>3. CASE FilterStep \/ (Meanwhile /\ UNCHANGED plansVars)
    <2>1. FilterEffect
      BY <1>3, EvaluationEffect, MeanwhileEffect DEF FilterStep, PipelineInv
    <2>2. call' = call
      BY <1>3 DEF FilterStep, plansVars
    <2>3. OneCall'
      BY <1>0, <2>1, <2>2 DEF PipelineInv, OneCall, FilterEffect, Item
    <2> QED BY <1>2, <2>1, <2>3 DEF FilterEffect
  <1>4. CASE MarketStep
    <2>1. PICK r \in Requests : CallStep(r) /\ UNCHANGED filterVars
      BY <1>4 DEF MarketStep
    <2>2. UNCHANGED <<chart, results, sentiment, evaluation, worker>>
      BY <2>1
    <2>3. FilterTyped' /\ AllowIsScored'
      BY <2>2, WorkersStay DEF PipelineInv, FilterTyped, AllowIsScored
    <2>4. \A q \in Requests : q # r => call'[q] = call[q]
      BY <2>1, CallsAround DEF PipelineInv
    <2>5. call[r].at \notin {"idle", "returned"}
      BY <2>1, CallStepIsOpen
    <2>6. opener.at = "order" /\ r = Item
      BY <2>5 DEF PipelineInv, OneCall
    <2>7. OneCall'
      BY <1>0, <2>2, <2>4, <2>6 DEF PipelineInv, OneCall, Item
    <2> QED BY <1>2, <2>3, <2>7
  <1>5. CASE OthersStep /\ UNCHANGED filterVars
    <2>1. UNCHANGED <<chart, results, sentiment, evaluation, worker>>
      BY <1>5
    <2>2. FilterTyped' /\ AllowIsScored'
      BY <2>1, WorkersStay DEF PipelineInv, FilterTyped, AllowIsScored
    <2>3. call' = call
      BY <1>5, OthersLeave DEF PipelineInv, PlansInv
    <2>4. OneCall'
      BY <1>0, <2>1, <2>3 DEF PipelineInv, OneCall, Item
    <2> QED BY <1>2, <2>2, <2>4
  <1> QED BY <1>3, <1>4, <1>5 DEF World

----------------------------------------------------------------------------
(* The theorems.                                                           *)

\* The invariant holds at first,
LEMMA PipelineInvInit ==
    ASSUME PlansAssumption, QuotaAssumption, FilterAssumption, PipelineAssumption, PipelineInit
    PROVE  PipelineInv
  <1>0. NoResult \in Results /\ 1 \in Charts /\ NoResult.says = "none"
    BY NoResultIsResult
  <1>1. PlansInv /\ QuotaInv
    BY PlansInvInit, QuotaInvInit DEF PipelineInit, FilterInit
  <1>2. /\ chart = 1 /\ results = [c \in Charts |-> NoResult]
        /\ sentiment = [age |-> "none", score |-> 0]
        /\ evaluation = Idle
        /\ worker = [t \in Threads |-> NewWorker]
    BY DEF PipelineInit, FilterInit
  <1>3. NewWorker \in WorkerRecords /\ NewWorker.at = "off"
    BY DEF NewWorker, WorkerRecords, WorkerStates
  <1>4. WorkersTyped
    BY <1>2, <1>3 DEF WorkersTyped, OnRoute
  <1>5. Idle \in Evaluations /\ Idle.at = "idle" /\ Idle.result = NoResult
    BY <1>0 DEF Idle, Evaluations
  <1>6. FilterTyped
    BY <1>0, <1>2, <1>4, <1>5 DEF FilterTyped, Entries
  <1>7. AllowIsScored
    BY <1>0, <1>2, <1>5 DEF AllowIsScored
  <1>8. OpenerTyped /\ opener.at = "next"
    BY DEF PipelineInit, OpenerTyped, Openers, OpenGate, PipelineAssumption, PlansAssumption
  <1>9. OneCall
    BY <1>8 DEF OneCall, PipelineInit, PlansInit, NewCall
  <1> QED BY <1>1, <1>6, <1>7, <1>8, <1>9 DEF PipelineInv

\* and every step keeps it.
LEMMA PipelineInvKept ==
    ASSUME PlansAssumption, QuotaAssumption, FilterAssumption, PipelineAssumption, PipelineInv,
           [PipelineNext]_pipelineVars
    PROVE  PipelineInv'
  <1>1. [PlansNext]_plansVars /\ [QuotaNext]_quotaVars
    BY StepsAreSteps DEF PipelineInv
  <1>2. PlansInv' /\ QuotaInv'
    BY <1>1, PlansInvKept, QuotaInvKept DEF PipelineInv
  <1>3. CASE PipelineNext
    <2>1. FilterTyped' /\ AllowIsScored' /\ OpenerTyped' /\ OneCall'
      BY <1>3, OpenerEffect, WorldEffect DEF PipelineNext
    <2> QED BY <1>2, <2>1 DEF PipelineInv
  <1>4. CASE UNCHANGED pipelineVars
    <2>1. UNCHANGED <<chart, results, sentiment, evaluation, worker, call, planner, setup, opener, gate>>
      BY <1>4 DEF pipelineVars, filterVars, plansVars
    <2>2. FilterTyped' /\ AllowIsScored'
      BY <2>1, WorkersStay DEF PipelineInv, FilterTyped, AllowIsScored
    <2>3. OpenerTyped' /\ OneCall'
      BY <2>1 DEF PipelineInv, OpenerTyped, OneCall, Item
    <2> QED BY <1>2, <2>2, <2>3 DEF PipelineInv
  <1> QED BY <1>3, <1>4

\* The invariant of the composition.
THEOREM PipelineInvariant == PipelineSpec => []PipelineInv
  <1>1. PipelineInit => PipelineInv
    BY PipelineInvInit, PlansAssumption, QuotaAssumption, FilterAssumption, PipelineAssumption
  <1>2. PipelineInv /\ [PipelineNext]_pipelineVars => PipelineInv'
    BY PipelineInvKept, PlansAssumption, QuotaAssumption, FilterAssumption, PipelineAssumption
  <1> QED BY <1>1, <1>2, PTL DEF PipelineSpec

\* The pipeline executes its orders as ExecutionPlans says, whatever the filter does.
THEOREM PipelineExecutesPlans == PipelineSpec => PlansSpec
  <1>1. PipelineInit => PlansInit
    BY DEF PipelineInit
  <1>2. PipelineInv /\ [PipelineNext]_pipelineVars => [PlansNext]_plansVars
    BY StepsAreSteps, PlansAssumption, FilterAssumption, PipelineAssumption DEF PipelineInv
  <1> QED BY <1>1, <1>2, PipelineInvariant, PTL DEF PipelineSpec, PlansSpec

\* And its analyzer's threads use the quota as QuotaManager says.
THEOREM PipelineUsesQuota == PipelineSpec => QuotaSpec
  <1>1. PipelineInit => QuotaInit
    BY DEF PipelineInit, FilterInit
  <1>2. PipelineInv /\ [PipelineNext]_pipelineVars => [QuotaNext]_quotaVars
    BY StepsAreSteps, PlansAssumption, FilterAssumption, PipelineAssumption DEF PipelineInv
  <1> QED BY <1>1, <1>2, PipelineInvariant, PTL DEF PipelineSpec, QuotaSpec

\* The types of the composition, the counters of its budget among them.
THEOREM PipelineTyped == PipelineSpec => []PipelineTypeOK
  <1>1. PipelineInv => PipelineTypeOK
    <2> SUFFICES ASSUME PipelineInv PROVE PipelineTypeOK
      OBVIOUS
    <2>1. PlansTypeOK /\ QuotaTypeOK
      BY DEF PipelineInv, PlansInv, QuotaInv
    <2>2. /\ chart \in Charts /\ results \in [Charts -> Results]
          /\ sentiment.age \in {"none", "fresh", "stale"}
      BY DEF PipelineInv, FilterTyped, Entries
    <2>3. /\ evaluation.at \in {"idle", "start", "running", "answered"}
          /\ evaluation.cached \in BOOLEAN /\ evaluation.result \in Results
      BY DEF PipelineInv, FilterTyped, Evaluations
    <2>4. /\ setup \in Setups /\ planner = setup.planner
          /\ opener.item \in 1..MaxRequests + 1
          /\ opener.at \in {"next", "filter", "gates", "order"}
          /\ gate.spent \in 0..Budget /\ gate.closed \in BOOLEAN
      BY DEF PipelineInv, OpenerTyped, Openers
    <2> QED BY <2>1, <2>2, <2>3, <2>4 DEF PipelineTypeOK
  <1> QED BY <1>1, PipelineInvariant, PTL

\* In a filtered pipeline that blocks on errors, every order stands behind an Allow for its item
\* that both threads scored.
THEOREM OrdersStandBehindAllow == PipelineSpec => OrdersAreAllowed
  <1> DEFINE Allowed == setup.filter /\ BlockOnError =>
        \A r \in Requests : sent'[r] # sent[r] =>
            /\ r = Item /\ evaluation.result.says = "Allow"
            /\ evaluation.result.scored = Threads
  <1>1. PipelineInv /\ [PipelineNext]_pipelineVars => [Allowed]_pipelineVars
    <2> SUFFICES ASSUME PipelineInv, PipelineNext, setup.filter, BlockOnError,
                        NEW r \in Requests, sent'[r] # sent[r]
                 PROVE  /\ r = Item /\ evaluation.result.says = "Allow"
                        /\ evaluation.result.scored = Threads
      OBVIOUS
    <2>1. PICK q \in Requests : CallStep(q) /\ UNCHANGED filterVars
      <3>1. CASE MarketStep
        BY <3>1 DEF MarketStep
      <3>2. CASE OpenerStep \/ NewCycle \/ FilterStep
        <4>1. sent' = sent
          BY <3>2 DEF OpenerStep, NewCycle, FilterStep, PassOver, OverBudget, Evaluate, NoFilter,
                      TakeAnswer, Stopped, Open, Opened, Begins, ExecuteNatively, Execute,
                      CannotExecute, plansVars, orderVars
        <4> QED BY <4>1
      <3>3. CASE World
        <4>1. sent' = sent
          BY <3>3, OthersLeave DEF World, PipelineInv, PlansInv, plansVars, orderVars
        <4> QED BY <4>1
      <3> QED BY <3>1, <3>2, <3>3 DEF PipelineNext
    <2>2. q = r
      BY <2>1, CallsAround, PlansAssumption DEF PipelineInv
    <2>3. call[r].at \notin {"idle", "returned"}
      BY <2>1, <2>2, CallStepIsOpen
    <2>4. opener.at = "order" /\ r = Item
      BY <2>3 DEF PipelineInv, OneCall
    <2> QED BY <2>4 DEF PipelineInv, OneCall, AllowIsScored
  <1> QED BY <1>1, PipelineInvariant, PTL DEF PipelineSpec, OrdersAreAllowed

\* What was proved of the parts holds in the composition: the market order is refined, ...
THEOREM PipelineImplementsMarket == PipelineSpec => Implements
  BY PipelineExecutesPlans, PlansImplementMarket, PTL

\* ... and no model is granted more than its day's limit until a lock file becomes old.
THEOREM PipelineKeepsQuota == PipelineSpec => []QuotaKeptUntilLockAges
  BY PipelineUsesQuota, QuotaIsKept, PTL
=============================================================================
