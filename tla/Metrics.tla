------------------------------- MODULE Metrics -------------------------------
(***************************************************************************)
(* The metrics of one runtime (src/src/runtime/metrics.rs) under callers   *)
(* on several threads and a scraper.  Every series is atomic by itself;    *)
(* nothing orders updates or reads of different series but the order in    *)
(* which execute, execute_inner and the registry come to them (memory is   *)
(* taken to be sequentially consistent).                                   *)
(*                                                                         *)
(* A series is a pair of a metric and a label.  Histograms are modelled by *)
(* the number of their samples.                                            *)
(***************************************************************************)
EXTENDS Integers, Sequences, SequencesExt, FiniteSets

CONSTANTS
  Threads,   \* callers of execute
  MaxCalls   \* bound on the calls of a behaviour

ASSUME MetricsAssumption == IsFiniteSet(Threads) /\ MaxCalls \in Nat

\* In the order of register_into, which is the order of a scrape.
Registered == <<"executions", "seconds", "fuel_consumed", "fuel_exhausted", "memory_peak">>

LabelsOf(metric) ==
  CASE metric \in {"executions", "seconds"} -> {"accepted", "rejected", "error"}
    [] metric \in {"fuel_consumed", "memory_peak"} -> {"success", "error"}
    [] metric = "fuel_exhausted" -> {"error"}

Series == UNION {{metric} \X LabelsOf(metric) : metric \in Range(Registered)}

\* How a call ends: where its guest ended ("unreached" if it was never called)
\* and the label of its answer.
Unreached == [guest |-> "unreached", answer |-> "error"]
Accepted == [guest |-> "returned", answer |-> "accepted"]
Rejected == [guest |-> "returned", answer |-> "rejected"]
Unparsed == [guest |-> "returned", answer |-> "error"]
Trapped == [guest |-> "trapped", answer |-> "error"]
Exhausted == [guest |-> "out_of_fuel", answer |-> "error"]

Outcomes == {Unreached, Accepted, Rejected, Unparsed, Trapped, Exhausted}

VARIABLES
  metrics,  \* whether the runtime was built with metrics
  count,    \* the value of every series
  todo,     \* the series a thread has still to update for its call
  calls,    \* history: the number of calls of each outcome
  seen      \* what the scrape in progress has read

vars == <<metrics, count, todo, calls, seen>>

Init ==
  /\ metrics \in BOOLEAN
  /\ count = [s \in Series |-> 0]
  /\ todo = [t \in Threads |-> << >>]
  /\ calls = [o \in Outcomes |-> 0]
  /\ seen = << >>

-----------------------------------------------------------------------------
(***************************************************************************)
(* What a method updates, in order.                                        *)
(***************************************************************************)
observe_contract_execution(result) == << <<"executions", result>>, <<"seconds", result>> >>
observe_contract_fuel_consumed(result) == << <<"fuel_consumed", result>> >>
observe_contract_fuel_exhausted == << <<"fuel_exhausted", "error">> >>
observe_contract_memory_peak(result) == << <<"memory_peak", result>> >>

\* mutant of inner_observations: nothing is sampled of a trap
inner_observations_returned(o) ==
  IF o.guest # "returned" THEN << >>
  ELSE observe_contract_fuel_consumed("success") \o observe_contract_memory_peak("success")

\* mutant of inner_observations: exhaustion is counted first
inner_observations_exhausted_first(o) ==
  LET result == IF o.guest = "returned" THEN "success" ELSE "error"
  IN  IF o.guest = "unreached" THEN << >>
      ELSE (IF o.guest = "out_of_fuel" THEN observe_contract_fuel_exhausted ELSE << >>)
             \o observe_contract_fuel_consumed(result) \o observe_contract_memory_peak(result)

\* mutant of inner_observations: takes the label of the answer
inner_observations_by_answer(o) ==
  IF o.guest = "unreached" THEN << >>
  ELSE observe_contract_fuel_consumed(o.answer) \o observe_contract_memory_peak(o.answer)

\* execute_inner
inner_observations(o) ==
  LET result == IF o.guest = "returned" THEN "success" ELSE "error"
  IN  IF o.guest = "unreached" THEN << >>
      ELSE observe_contract_fuel_consumed(result) \o observe_contract_memory_peak(result)
             \o (IF o.guest = "out_of_fuel" THEN observe_contract_fuel_exhausted ELSE << >>)

\* mutant of observations: the execution is counted before it is made
observations_before(o) == observe_contract_execution(o.answer) \o inner_observations(o)

\* execute
observations(o) == inner_observations(o) \o observe_contract_execution(o.answer)

\* The calls made so far that ended in one of the outcomes.
With(outcomes) ==
  LET n(o) == IF o \in outcomes THEN calls[o] ELSE 0
  IN  n(Unreached) + n(Accepted) + n(Rejected) + n(Unparsed) + n(Trapped) + n(Exhausted)

Call(t, o) ==
  /\ todo[t] = << >>
  /\ With(Outcomes) < MaxCalls
  /\ calls' = [calls EXCEPT ![o] = @ + 1]
  /\ todo' = [todo EXCEPT ![t] = IF metrics THEN observations(o) ELSE << >>]
  /\ UNCHANGED <<metrics, count, seen>>

Observe(t) ==
  /\ todo[t] # << >>
  /\ count' = [count EXCEPT ![Head(todo[t])] = @ + 1]
  /\ todo' = [todo EXCEPT ![t] = Tail(@)]
  /\ UNCHANGED <<metrics, calls, seen>>

\* The metrics a scrape has read: in the order they are registered, their labels
\* in any order.
Read(metric) == {metric} \X LabelsOf(metric) \subseteq DOMAIN seen

Scrape(i, label) ==
  /\ metrics
  /\ <<Registered[i], label>> \notin DOMAIN seen
  /\ \A j \in 1..(i - 1) : Read(Registered[j])
  /\ seen' = [s \in DOMAIN seen \cup {<<Registered[i], label>>} |->
                IF s = <<Registered[i], label>> THEN count[s] ELSE seen[s]]
  /\ UNCHANGED <<metrics, count, todo, calls>>

ScrapeAgain ==
  /\ DOMAIN seen = Series
  /\ seen' = << >>
  /\ UNCHANGED <<metrics, count, todo, calls>>

Next ==
  \/ \E t \in Threads : Observe(t) \/ \E o \in Outcomes : Call(t, o)
  \/ \E i \in DOMAIN Registered : \E label \in LabelsOf(Registered[i]) : Scrape(i, label)
  \/ ScrapeAgain

Spec == Init /\ [][Next]_vars

-----------------------------------------------------------------------------
(***************************************************************************)
(* Properties.                                                             *)
(***************************************************************************)

\* Every variable has its type.
TypeOK ==
  /\ metrics \in BOOLEAN
  /\ count \in [Series -> Nat]
  /\ \A t \in Threads : Range(todo[t]) \subseteq Series
  /\ calls \in [Outcomes -> 0..MaxCalls]
  /\ DOMAIN seen \subseteq Series
  /\ \A s \in DOMAIN seen : seen[s] \in 0..count[s]

Value(metric, label) == count[<<metric, label>>]

\* At every instant, whatever calls are between two of their updates: an
\* exhaustion has its fuel and memory samples, an answered call has the samples
\* of its guest, and a duration has its execution (the order of the observe_*
\* calls in execute_inner and execute).
CountersAreOrdered ==
  /\ Value("fuel_exhausted", "error") <= Value("memory_peak", "error")
  /\ \A l \in {"success", "error"} : Value("memory_peak", l) <= Value("fuel_consumed", l)
  /\ Value("executions", "accepted") + Value("executions", "rejected")
       <= Value("memory_peak", "success")
  /\ \A l \in LabelsOf("seconds") : Value("seconds", l) <= Value("executions", l)

\* A scrape is not a snapshot, but it reads what is counted last first: it never
\* shows more accepted and rejected executions than samples of guests that
\* returned (register_into against the order in execute).
ScrapeIsCovered ==
  DOMAIN seen = Series =>
    \A metric \in {"fuel_consumed", "memory_peak"} :
      seen[<<"executions", "accepted">>] + seen[<<"executions", "rejected">>]
        <= seen[<<metric, "success">>]

Idle == metrics /\ \A t \in Threads : todo[t] = << >>

\* With no call in progress nothing is lost or counted twice: executions and
\* durations are the answers, samples are the guests that were called, under
\* "success" if they returned, an event they rejected included, and
\* exhaustions are the guests that ran out of fuel (observe_contract_* against
\* the callers' answers).
IdleCountersAgree ==
  Idle =>
    /\ \A l \in LabelsOf("executions") :
         /\ Value("executions", l) = With({o \in Outcomes : o.answer = l})
         /\ Value("seconds", l) = Value("executions", l)
    /\ \A l \in {"success", "error"} : Value("fuel_consumed", l) = Value("memory_peak", l)
    /\ Value("fuel_consumed", "success") = With({Accepted, Rejected, Unparsed})
    /\ Value("fuel_consumed", "error") = With({Trapped, Exhausted})
    /\ Value("fuel_exhausted", "error") = With({Exhausted})

=============================================================================
