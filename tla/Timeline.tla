-------------------------------- MODULE Timeline --------------------------------
(* The statistics of a run (utils/statistics/stats.py) and the values over time *)
(* among them (utils/statistics/outputvariablefactory.py): one sequence of the  *)
(* best individual's value and one that is set directly.                        *)
EXTENDS Integers, FiniteSets, SequencesExt

CONSTANTS Second,               \* ticks of the clock, ns in the code
          maximum_search_time,  \* in seconds
          timeline_interval,    \* in ticks
          timeline_interpolation,
          Unit, Values,         \* a value v stands for v / Unit
          Steps,                \* ticks between two observations
          Names, OutputVariables,   \* variables tracked directly; those the user asks for, and "Timeline"
          MaxUpdates, MaxTracked

\* The part of the area that is counted in seconds is counted in ticks, too: an observation
\* takes so many ticks that this makes no difference.
ASSUME TimelineAssumption ==
  /\ Second \in Nat \ {0} /\ timeline_interval \in Nat \ {0} /\ Unit \in Nat \ {0}
  /\ Values \subseteq 0..Unit /\ Steps \subseteq Nat \ {0}
  /\ maximum_search_time \in Int /\ (\A s \in Steps : s >= 2 * maximum_search_time)
  /\ timeline_interpolation \in BOOLEAN /\ MaxUpdates \in Nat

VARIABLES instant,                 \* the clock
          start_time,
          time_stamps, values,      \* of the sequence
          queue,                    \* variables tracked and not yet collected
          output_variables,         \* [Names -> Values or -1]
          told,                     \* history: the last value tracked of each
          written                   \* what write_statistics has written, if it has

timelineVars == <<instant, start_time, time_stamps, values, queue, output_variables, told, written>>
Nothing == -1

--------------------------------------------------------------------------------
(* SequenceOutputVariableFactory.  A fraction is a pair of numbers.             *)

Limit == maximum_search_time * Second

\* twice the area of the trapezoids, the first of which starts at zero
Twice(i) ==
  LET before == IF i = 1 THEN [t |-> 0, v |-> 0] ELSE [t |-> time_stamps[i - 1], v |-> values[i - 1]]
  IN  (before.v + values[i]) * (time_stamps[i] - before.t)
Trapezoids[i \in 0..Len(values)] == IF i = 0 THEN 0 ELSE Trapezoids[i - 1] + Twice(i)

\* the rest is counted in seconds, the trapezoids in ticks; halves of value seconds per Second
AreaParts ==
  Second * Trapezoids[Len(values)]
    + (IF Last(time_stamps) < Limit THEN 2 * (Limit - Last(time_stamps)) * Last(values) ELSE 0)
area_under_curve == <<AreaParts, 2 * Second * Second * Unit>>

\* the average is taken over the time the search was given, however long it ran
OverTheLimit ==
  <<AreaParts + 2 * Second * Last(values) * (IF Last(time_stamps) < Limit THEN Limit - Last(time_stamps) ELSE 0),
    2 * Second * Second * maximum_search_time * Unit>>
normalised_area_under_curve ==
  IF Last(time_stamps) >= Limit THEN <<AreaParts, 2 * Second * Last(time_stamps) * Unit>>
  ELSE <<AreaParts + 2 * Second * Last(values) * (Limit - Last(time_stamps)),
         2 * Second * Second * maximum_search_time * Unit>>

_calculate_number_of_intervals == Limit \div timeline_interval

\* the line through the two points is followed from the second one
FromTheSecond(i, time) ==
  <<values[i] * (time_stamps[i] - time_stamps[i - 1])
      + (time - time_stamps[i - 1]) * (values[i] - values[i - 1]), time_stamps[i] - time_stamps[i - 1]>>
Interpolated(i, time) ==
  <<values[i - 1] * (time_stamps[i] - time_stamps[i - 1])
      + (time - time_stamps[i - 1]) * (values[i] - values[i - 1]), time_stamps[i] - time_stamps[i - 1]>>

_get_time_line_value(index) ==
  LET time == timeline_interval * index
      later == {i \in DOMAIN time_stamps : time_stamps[i] >= time}
      i == CHOOSE i \in later : \A j \in later : i <= j
  IN  CASE time_stamps = <<>> -> <<0, 1>>
        [] time_stamps # <<>> /\ later = {} -> <<Last(values), 1>>
        [] later # {} /\ i = 1 -> <<values[1], 1>>
        [] OTHER -> IF ~timeline_interpolation THEN <<values[i - 1], 1>>
                    ELSE Interpolated(i, time)
get_output_variables == [index \in 1.._calculate_number_of_intervals |-> _get_time_line_value(index)]

--------------------------------------------------------------------------------
(* The tracker.                                                                 *)

TimelineInit ==
  /\ instant = 0 /\ start_time = 0
  /\ time_stamps = <<>> /\ values = <<>>
  /\ queue = <<>>
  /\ output_variables = [n \in Names |-> Nothing] /\ told = [n \in Names |-> Nothing]
  /\ written = <<>>

Unwritten == written = <<>>

set_sequence_output_variable_start_time(step) ==
  /\ Unwritten /\ time_stamps = <<>> /\ start_time = 0
  /\ instant' = instant + step
  /\ start_time' = instant'
  /\ UNCHANGED <<time_stamps, values, queue, output_variables, told, written>>

current_individual(step, v) ==
  /\ Unwritten /\ start_time > 0 /\ Len(values) < MaxUpdates
  /\ instant' = instant + step
  /\ time_stamps' = Append(time_stamps, instant' - start_time)
  /\ values' = Append(values, v)
  /\ UNCHANGED <<start_time, queue, output_variables, told, written>>

track_output_variable(n, v) ==
  /\ Unwritten /\ Len(queue) < MaxTracked
  /\ queue' = Append(queue, [name |-> n, value |-> v])
  /\ told' = [told EXCEPT ![n] = v]
  /\ UNCHANGED <<instant, start_time, time_stamps, values, output_variables, written>>

set_output_variable(output, variable) == [output EXCEPT ![variable.name] = variable.value]

\* the last one in is the first one out
LastFirst == LET Taken[i \in 0..Len(queue)] ==
                   IF i = 0 THEN output_variables ELSE set_output_variable(Taken[i - 1], queue[Len(queue) + 1 - i])
             IN  Taken[Len(queue)]
variables_generator == LET Taken[i \in 0..Len(queue)] ==
                             IF i = 0 THEN output_variables ELSE set_output_variable(Taken[i - 1], queue[i])
                       IN  Taken[Len(queue)]

\* generator: at the end of the run
Collect ==
  /\ Unwritten /\ queue # <<>>
  /\ output_variables' = variables_generator
  /\ queue' = <<>>
  /\ UNCHANGED <<instant, start_time, time_stamps, values, told, written>>

\* a variable nobody has told is written as an empty one; a timeline needs a limit of time
_get_output_variables ==
  [direct |-> [n \in OutputVariables \cap Names |-> output_variables[n]],
   timeline |-> IF "Timeline" \in OutputVariables
                THEN [points |-> get_output_variables, area |-> area_under_curve, share |-> normalised_area_under_curve]
                ELSE <<>>]
write_statistics ==
  /\ Unwritten /\ queue = <<>> /\ time_stamps # <<>>
  /\ "Timeline" \in OutputVariables => maximum_search_time >= 0
  /\ written' = <<_get_output_variables>>
  /\ UNCHANGED <<instant, start_time, time_stamps, values, queue, output_variables, told>>

TimelineNext ==
  \/ \E s \in Steps : set_sequence_output_variable_start_time(s)
  \/ \E s \in Steps, v \in Values : current_individual(s, v)
  \/ \E n \in Names, v \in Values : track_output_variable(n, v)
  \/ Collect
  \/ write_statistics
TimelineSpec == TimelineInit /\ [][TimelineNext]_timelineVars

--------------------------------------------------------------------------------
\* What is written of a variable is what it was told last, however often it was
\* told and collected in between.
LastTold == written # <<>> => \A n \in OutputVariables \cap Names : written[1].direct[n] = told[n]

\* The points of the timeline stay between the values that were observed around
\* their time: they rise if the values only rise, and the last one is reached.
TimelineFollowsValues ==
  LET Rising(s) == \A i \in 2..Len(s) : s[i - 1] <= s[i]
      NotAbove(x, y) == x[1] * y[2] <= y[1] * x[2]
      points == written[1].timeline.points
  IN  written # <<>> /\ "Timeline" \in OutputVariables /\ Rising(values) =>
        /\ \A i \in 2..Len(points) : NotAbove(points[i - 1], points[i])
        /\ \A i \in DOMAIN points : NotAbove(<<values[1], 1>>, points[i]) /\ NotAbove(points[i], <<Last(values), 1>>)

\* The area under the curve is a share of the time, whatever is drawn over it.
NormalisedInRange ==
  written # <<>> /\ "Timeline" \in OutputVariables =>
    0 <= written[1].timeline.share[1] /\ written[1].timeline.share[1] <= written[1].timeline.share[2]

\* What is written at the end is what was told and seen in between (stats.py,
\* outputvariablefactory.py).
StatisticsTellTheTruth == LastTold /\ TimelineFollowsValues /\ NormalisedInRange
===============================================================================
