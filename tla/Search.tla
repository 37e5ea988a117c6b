--------------------------------- MODULE Search ---------------------------------
(* The loop every search algorithm is (ga/algorithms), from the configuration   *)
(* of its stopping conditions (ga/generationalgorithmfactory.py) to its end:    *)
(* the conditions observe the search and the executed tests                     *)
(* (ga/stoppingcondition.py), LLMOSA also watches for a stall and asks its      *)
(* model (ga/algorithms/llmosalgorithm.py).  What a generation does to the      *)
(* tests is one step here: a few executions and the coverage of the best suite. *)
EXTENDS Integers, Sequences, FiniteSets

CONSTANTS Configurations,   \* what the user may ask for, see Accepted
          NumGoals,            \* number of coverage goals
          Executions,       \* [tests, statements] one generation may execute; a timeout counts no statement
          Ticks,            \* seconds one generation may take
          Usages,           \* megabytes of memory
          Window,           \* number of reports that are remembered
          Cap               \* counters stop here

\* What the configuration holds that is read here, and bounds that are wide enough for it.
Settings ==
  [algorithm : {"archive", "random_suite", "llm"}, iterations : Int, statements : Int, tests : Int, time : Int,
   coverage : Int, plateau : Int, minimum : Int, minimum_plateau : Int, memory : Int,
   window : Int, max_plateau_len : Nat, max_interventions : Int, min_budget : Int]
ASSUME SearchAssumption ==
  /\ NumGoals \in Nat \ {0} /\ Window \in Nat \ {0} /\ Cap \in Nat \ {0}
  /\ Configurations \subseteq Settings
  /\ \A c \in Configurations : \A n \in {c.plateau, c.minimum_plateau} : n < Window /\ n <= Cap
  /\ Executions \subseteq [tests : Nat, statements : Nat] /\ Ticks \subseteq Nat /\ Usages \subseteq Nat

VARIABLES config, pc,
          achieved,          \* goals the best suite covers
          conditions,       \* the counters of all stopping conditions
          clock,
          stall,            \* the local variables of LLMOSA's loop and its number of queries
          turns, reports    \* history: passes of the loop, coverage reported after each

searchVars == <<config, pc, achieved, conditions, clock, stall, turns, reports>>

Capped(n) == IF n > Cap THEN Cap ELSE n
Percent(n) == (100 * n) \div NumGoals
DEFAULT_MAX_SEARCH_TIME == Cap - 1

--------------------------------------------------------------------------------
(* The factory.                                                                 *)

Accepted(c) ==
  /\ 0 \notin {c.iterations, c.statements, c.tests, c.time, c.plateau}
  /\ c.coverage < 100 => c.coverage >= 0
  /\ c.minimum < 100 => c.minimum > 0 /\ c.minimum_plateau > 0

get_stopping_conditions(c) ==
  LET budgets == {name \in {"iterations", "statements", "tests", "time", "plateau"} : c[name] >= 0}
                   \cup (IF c.coverage < 100 THEN {"coverage"} ELSE {})
                   \cup (IF c.minimum < 100 THEN {"minimum"} ELSE {})
  IN  (IF budgets = {} THEN {"fallback"} ELSE budgets) \cup (IF c.memory >= 0 THEN {"memory"} ELSE {})

EnoughIterations == conditions.iterations >= config.iterations
MaxStatementExecutions == conditions.statements >= config.statements
MaxTestExecutions == conditions.tests >= config.tests
MaxSearchTime(limit) == clock - conditions.start > limit
MaxCoverage == conditions.coverage >= config.coverage
LongPlateau == conditions.plateau.unchanged >= config.plateau
LongPlateauAboveMinimum ==
  conditions.minimum.iterations >= config.minimum_plateau /\ conditions.minimum.last >= config.minimum
MaxMemory == conditions.memory > config.memory

is_fulfilled(name) ==
  CASE name = "iterations" -> EnoughIterations
    [] name = "statements" -> MaxStatementExecutions
    [] name = "tests" -> MaxTestExecutions
    [] name = "time" -> MaxSearchTime(config.time)
    [] name = "fallback" -> MaxSearchTime(DEFAULT_MAX_SEARCH_TIME)
    [] name = "coverage" -> MaxCoverage
    [] name = "plateau" -> LongPlateau
    [] name = "minimum" -> LongPlateauAboveMinimum
    [] name = "memory" -> MaxMemory

resources_left == \A name \in get_stopping_conditions(config) : ~is_fulfilled(name)

before_search_start(now) ==
  [iterations |-> 0, statements |-> 0, tests |-> 0, start |-> now, coverage |-> 0, memory |-> 0,
   plateau |-> [previous |-> 0, unchanged |-> 0], minimum |-> [last |-> 0, iterations |-> 0]]

\* only the conditions there are observe anything
Observed(c, changed) == [name \in DOMAIN c |-> IF name \in get_stopping_conditions(config) THEN changed[name] ELSE c[name]]

\* tests count when they are started, statements when their test has ended
Executed(c, e) == Observed(c, [c EXCEPT !.tests = Capped(@ + e.tests), !.statements = Capped(@ + e.statements)])

\* a gain does not end the plateau
PlateauGoesOn(p, best) ==
  [previous |-> IF best > p.previous THEN best ELSE p.previous, unchanged |-> Capped(p.unchanged + 1)]
CoveragePlateau(p, best) ==
  IF best > p.previous THEN [previous |-> best, unchanged |-> 0]
  ELSE IF best = p.previous THEN [p EXCEPT !.unchanged = Capped(@ + 1)] ELSE p
MinimumCoveragePlateau(m, best) ==
  IF m.last = Percent(best) THEN [m EXCEPT !.iterations = Capped(@ + 1)]
  ELSE [last |-> Percent(best), iterations |-> 0]

\* nothing is reported of a generation that has not gained anything
ReportedGain(c, best, usage) ==
  Observed(c, [c EXCEPT !.iterations = IF best > achieved THEN Capped(@ + 1) ELSE @])
after_search_iteration(c, best, usage) ==
  Observed(c, [c EXCEPT !.iterations = Capped(@ + 1), !.coverage = Percent(best), !.memory = usage,
                        !.plateau = CoveragePlateau(@, best), !.minimum = MinimumCoveragePlateau(@, best)])

--------------------------------------------------------------------------------
(* The search.                                                                  *)

NoStall == [plateau_counter |-> 0, max_plateau_len |-> 0, last_covered |-> 0, last_gain |-> 0, queries |-> 0]

SearchInit ==
  /\ config \in Configurations
  /\ pc = "configured"
  /\ achieved = 0 /\ conditions = before_search_start(0) /\ clock = 0
  /\ stall = NoStall
  /\ turns = 0 /\ reports = <<0>>

\* an assertion in the factory
Refuse ==
  /\ pc = "configured" /\ ~Accepted(config)
  /\ pc' = "refused"
  /\ UNCHANGED <<config, achieved, conditions, clock, stall, turns, reports>>

\* where nothing reads the clock it stands still
Elapsed ==
  IF get_stopping_conditions(config) \cap {"time", "fallback"} # {} \/ config.window > 0 THEN Ticks ELSE {0}

Begin(e, n, t) ==
  /\ pc = "configured" /\ Accepted(config)
  /\ t \in Elapsed
  /\ conditions' = Executed(before_search_start(clock), e)
  /\ achieved' = n
  /\ clock' = Capped(clock + t)
  /\ stall' = [NoStall EXCEPT !.last_covered = n, !.max_plateau_len = config.max_plateau_len, !.last_gain = clock']
  /\ pc' = "search"
  /\ UNCHANGED <<config, turns, reports>>

LoopGoesOn == resources_left /\ achieved < NumGoals

\* LLMOSA, at the head of the loop: has the search stalled, and may the model be asked?
Stalled(s) ==
  IF config.window > 0 THEN clock - s.last_gain >= config.window ELSE s.plateau_counter > s.max_plateau_len
_enough_budget_for_llm ==
  \/ config.min_budget <= 0
  \/ "time" \notin get_stopping_conditions(config)
  \/ config.time - (clock - conditions.start) >= config.min_budget
MayAsk == (config.max_interventions < 0 \/ stall.queries < config.max_interventions) /\ _enough_budget_for_llm

Watched(s) ==
  IF achieved # s.last_covered THEN [s EXCEPT !.plateau_counter = 0, !.last_gain = clock, !.last_covered = achieved]
  ELSE [s EXCEPT !.plateau_counter = Capped(@ + 1)]

\* the next plateau may be as short as this one
AskedAsBefore(s, now) == [s EXCEPT !.plateau_counter = 0, !.last_gain = now, !.queries = IF MayAsk THEN @ + 1 ELSE @]
Asked(s, now) ==
  [s EXCEPT !.plateau_counter = 0, !.last_gain = now, !.queries = IF MayAsk THEN @ + 1 ELSE @,
            !.max_plateau_len = IF config.window > 0 THEN @ ELSE Capped(2 * @)]

Watch(t) ==
  /\ pc = "search" /\ LoopGoesOn /\ config.algorithm = "llm"
  /\ t \in Elapsed
  /\ clock' = IF Stalled(Watched(stall)) /\ MayAsk THEN Capped(clock + t) ELSE clock
  /\ stall' = IF Stalled(Watched(stall)) THEN Asked(Watched(stall), clock') ELSE Watched(stall)
  /\ turns' = Capped(turns + 1)
  /\ pc' = "evolve"
  /\ UNCHANGED <<config, achieved, conditions, reports>>

\* the other algorithms only ask for the resources and the coverage
Continue ==
  /\ pc = "search" /\ LoopGoesOn /\ config.algorithm # "llm"
  /\ pc' = "evolve"
  /\ UNCHANGED <<config, achieved, conditions, clock, stall, turns, reports>>

\* the coverage of an archive never falls; the best random suite is the fittest one,
\* which may cover less
Reachable == IF config.algorithm = "random_suite" THEN 0..NumGoals ELSE achieved..NumGoals

Generation(e, n, t, u) ==
  /\ pc = "evolve"
  /\ n \in Reachable /\ t \in Elapsed
  /\ achieved' = n
  /\ clock' = Capped(clock + t)
  /\ conditions' = after_search_iteration(Executed(conditions, e), n, u)
  /\ reports' = LET all == Append(reports, n) IN IF Len(all) > Window THEN Tail(all) ELSE all
  /\ pc' = "search"
  /\ UNCHANGED <<config, stall, turns>>

EndSearch ==
  /\ pc = "search" /\ ~LoopGoesOn
  /\ pc' = "finished"
  /\ UNCHANGED <<config, achieved, conditions, clock, stall, turns, reports>>

SearchNext ==
  \/ Refuse
  \/ \E e \in Executions, n \in 0..NumGoals, t \in Ticks : Begin(e, n, t)
  \/ \E t \in Ticks : Watch(t)
  \/ Continue
  \/ \E e \in Executions, n \in 0..NumGoals, t \in Ticks, u \in Usages : Generation(e, n, t, u)
  \/ EndSearch

SearchSpec == SearchInit /\ [][SearchNext]_searchVars /\ WF_searchVars(SearchNext)

--------------------------------------------------------------------------------
\* A history ends with n values that are equal to the one before them.
Flat(s, n) == Len(s) > n /\ \A i \in Len(s) - n..Len(s) : s[i] = s[Len(s)]
percents == [i \in DOMAIN reports |-> Percent(reports[i])]

\* Where the coverage never falls, the search has gone on for as many generations as
\* make a plateau without it changing exactly if the condition holds.  The condition
\* with a minimum counts in whole percents.
PlateauIsNoticed ==
  /\ "plateau" \in get_stopping_conditions(config) /\ config.algorithm # "random_suite" =>
       (is_fulfilled("plateau") <=> Flat(reports, config.plateau))
  /\ "minimum" \in get_stopping_conditions(config) =>
       (is_fulfilled("minimum") <=> Flat(percents, config.minimum_plateau) /\ percents[Len(percents)] >= config.minimum)

\* What k plateaus take if the first has n generations and each is twice as long as
\* the one before.
Doubling(n) == LET f[k \in 0..Cap] == IF k = 0 THEN 0 ELSE 2 * f[k - 1] + n IN f

\* The model is asked ever more rarely: each plateau that counts must be twice as
\* long as the one before, or last for the whole window of time.
QueriesThinOut ==
  config.algorithm = "llm" =>
    /\ config.window <= 0 /\ turns < Cap => Doubling(config.max_plateau_len)[stall.queries] + stall.queries <= turns
    /\ config.window > 0 => config.window * stall.queries <= clock

\* The counters say what has happened since they were reset, whatever a generation
\* executes, gains and takes (stoppingcondition.py, llmosalgorithm.py).
CountersTellTheTruth == PlateauIsNoticed /\ QueriesThinOut

\* The docstrings of the two conditions: fulfilled if the coverage does not change for
\* a given number of iterations.
PlateauIsNoChange ==
  /\ "plateau" \in get_stopping_conditions(config) => (is_fulfilled("plateau") <=> Flat(reports, config.plateau))
  /\ "minimum" \in get_stopping_conditions(config) /\ is_fulfilled("minimum") => Flat(reports, config.minimum_plateau)

\* A search that was given a number of iterations or the length of a plateau ends,
\* whatever its tests and its model do.
SearchStops ==
  (config.iterations > 0 \/ config.plateau > 0) ~> (pc \in {"finished", "refused"})
===============================================================================
