---------------------------- MODULE Metrics_proofs ----------------------------
(***************************************************************************)
(* What the metrics of a runtime say, at every instant and in every        *)
(* scrape, however many threads call it and however they interleave.       *)
(***************************************************************************)
EXTENDS Metrics, FiniteSetTheorems, SequenceTheorems, TLAPS

Answers == {"accepted", "rejected", "error"}

Ex(l) == <<"executions", l>>
Sec(l) == <<"seconds", l>>
Fc(l) == <<"fuel_consumed", l>>
Mp(l) == <<"memory_peak", l>>
Fe == <<"fuel_exhausted", "error">>

\* What a call can have still to update.
Todo ==
  {<< >>}
    \cup {<<Sec(l)>> : l \in Answers}
    \cup {<<Ex(l), Sec(l)>> : l \in Answers}
    \cup {<<Mp("success"), Ex(l), Sec(l)>> : l \in Answers}
    \cup {<<Fc("success"), Mp("success"), Ex(l), Sec(l)>> : l \in Answers}
    \cup {<<Mp("error"), Ex("error"), Sec("error")>>,
          <<Fc("error"), Mp("error"), Ex("error"), Sec("error")>>,
          <<Fe, Ex("error"), Sec("error")>>,
          <<Mp("error"), Fe, Ex("error"), Sec("error")>>,
          <<Fc("error"), Mp("error"), Fe, Ex("error"), Sec("error")>>}

\* The series a thread updates next, and those who update s next or at all.
NextOf(td) == IF td = << >> THEN <<"none", "none">> ELSE Head(td)
Upcoming(s) == Cardinality({t \in Threads : NextOf(todo[t]) = s})
Waiting(s) == Cardinality({t \in Threads : s \in Range(todo[t])})

\* What was counted and what is between two updates.
OrderInv ==
  /\ \A l \in {"success", "error"} : count[Fc(l)] = count[Mp(l)] + Upcoming(Mp(l))
  /\ count[Fe] + Upcoming(Fe) <= count[Mp("error")]
  /\ count[Ex("accepted")] + Upcoming(Ex("accepted"))
       + count[Ex("rejected")] + Upcoming(Ex("rejected")) <= count[Mp("success")]
  /\ \A l \in Answers : count[Ex(l)] = count[Sec(l)] + Upcoming(Sec(l))

\* The calls that update s.
Updating(s) == {o \in Outcomes : s \in Range(observations(o))}

\* Every call updates what it should, once, sooner or later.
AccountInv == metrics => \A s \in Series : count[s] + Waiting(s) = With(Updating(s))

\* What a scrape has read of executions it reads of samples too.
ScrapeInv ==
  \A metric \in {"fuel_consumed", "memory_peak"} : <<metric, "success">> \in DOMAIN seen =>
    /\ {Ex("accepted"), Ex("rejected")} \subseteq DOMAIN seen
    /\ seen[Ex("accepted")] + seen[Ex("rejected")] <= seen[<<metric, "success">>]

CallsInv == calls \in [Outcomes -> Nat] /\ With(Outcomes) <= MaxCalls

\* The inductive invariant.
MetricsInv ==
  /\ TypeOK /\ todo \in [Threads -> Todo]
  /\ CallsInv /\ OrderInv /\ AccountInv /\ ScrapeInv

-----------------------------------------------------------------------------
(***************************************************************************)
(* Series and what is done to them.                                        *)
(***************************************************************************)

\* The series there are (ContractMetrics).
LEMMA SeriesAre ==
  Series = {Ex(l) : l \in Answers} \cup {Sec(l) : l \in Answers}
             \cup {Fc("success"), Fc("error"), Mp("success"), Mp("error"), Fe}
<1>1. Range(Registered) =
        {"executions", "seconds", "fuel_consumed", "fuel_exhausted", "memory_peak"}
  <2>1. DOMAIN Registered = 1..5
    BY DEF Registered
  <2>2. Range(Registered) = {Registered[i] : i \in 1..5}
    BY <2>1 DEF Range
  <2>3. 1..5 = {1, 2, 3, 4, 5}
    OBVIOUS
  <2> QED
    BY <2>2, <2>3 DEF Registered
<1>2. /\ LabelsOf("executions") = Answers /\ LabelsOf("seconds") = Answers
      /\ LabelsOf("fuel_consumed") = {"success", "error"}
      /\ LabelsOf("memory_peak") = {"success", "error"}
      /\ LabelsOf("fuel_exhausted") = {"error"}
  BY DEF LabelsOf, Answers
<1>3. Series = {"executions"} \X Answers \cup {"seconds"} \X Answers
                 \cup {"fuel_consumed"} \X {"success", "error"}
                 \cup {"memory_peak"} \X {"success", "error"}
                 \cup {"fuel_exhausted"} \X {"error"}
  BY <1>1, <1>2 DEF Series
<1> QED
  BY <1>3 DEF Ex, Sec, Fc, Mp, Fe

\* Short sequences, one after the other.
Joins(a, b, c, d, e) ==
  /\ << >> \o <<a, b>> = <<a, b>>
  /\ (<<a>> \o <<b>>) \o << >> = <<a, b>>
  /\ <<a, b>> \o <<c, d>> = <<a, b, c, d>>
  /\ (<<a>> \o <<b>>) \o <<c>> = <<a, b, c>>
  /\ <<a, b, c>> \o <<d, e>> = <<a, b, c, d, e>>

LEMMA Concatenations ==
  ASSUME NEW S, NEW a \in S, NEW b \in S, NEW c \in S, NEW d \in S, NEW e \in S
  PROVE  Joins(a, b, c, d, e)
<1>1. /\ <<a>> \in Seq(S) /\ <<b>> \in Seq(S) /\ <<c>> \in Seq(S)
      /\ <<a, b>> \in Seq(S) /\ <<c, d>> \in Seq(S) /\ <<d, e>> \in Seq(S)
      /\ <<a, b, c>> \in Seq(S) /\ <<a, b, c, d>> \in Seq(S) /\ <<a, b, c, d, e>> \in Seq(S)
  OBVIOUS
<1>2. << >> \o <<a, b>> = <<a, b>> /\ <<a, b>> \o << >> = <<a, b>>
  BY <1>1, ConcatEmptySeq
<1>3. <<a>> \o <<b>> = <<a, b>>
  <2>1. /\ <<a>> \o <<b>> \in Seq(S) /\ Len(<<a>> \o <<b>>) = 2
        /\ (<<a>> \o <<b>>)[1] = a /\ (<<a>> \o <<b>>)[2] = b
    BY <1>1, ConcatProperties
  <2>2. PICK s, t \in Seq(S) : s = <<a>> \o <<b>> /\ t = <<a, b>>
    BY <1>1, <2>1
  <2>3. /\ Len(s) = 2 /\ Len(t) = 2
        /\ s[1] = t[1] /\ s[2] = t[2]
        /\ \A i \in 1..2 : i = 1 \/ i = 2
    BY <2>1, <2>2
  <2>4. \A i \in 1..Len(s) : s[i] = t[i]
    BY <2>3
  <2>5. s = t
    BY <2>3, <2>4, SeqEqual
  <2> QED
    BY <2>2, <2>5
<1>4. <<a, b>> \o <<c>> = <<a, b, c>>
  <2>1. /\ <<a, b>> \o <<c>> \in Seq(S) /\ Len(<<a, b>> \o <<c>>) = 3
        /\ (<<a, b>> \o <<c>>)[1] = a /\ (<<a, b>> \o <<c>>)[2] = b
        /\ (<<a, b>> \o <<c>>)[3] = c
    BY <1>1, ConcatProperties
  <2>2. PICK s, t \in Seq(S) : s = <<a, b>> \o <<c>> /\ t = <<a, b, c>>
    BY <1>1, <2>1
  <2>3. /\ Len(s) = 3 /\ Len(t) = 3
        /\ s[1] = t[1] /\ s[2] = t[2] /\ s[3] = t[3]
        /\ \A i \in 1..3 : i = 1 \/ i = 2 \/ i = 3
    BY <2>1, <2>2
  <2>4. \A i \in 1..Len(s) : s[i] = t[i]
    BY <2>3
  <2>5. s = t
    BY <2>3, <2>4, SeqEqual
  <2> QED
    BY <2>2, <2>5
<1>5. <<a, b>> \o <<c, d>> = <<a, b, c, d>>
  <2>1. /\ <<a, b>> \o <<c, d>> \in Seq(S) /\ Len(<<a, b>> \o <<c, d>>) = 4
        /\ (<<a, b>> \o <<c, d>>)[1] = a /\ (<<a, b>> \o <<c, d>>)[2] = b
        /\ (<<a, b>> \o <<c, d>>)[3] = c /\ (<<a, b>> \o <<c, d>>)[4] = d
    BY <1>1, ConcatProperties
  <2>2. PICK s, t \in Seq(S) : s = <<a, b>> \o <<c, d>> /\ t = <<a, b, c, d>>
    BY <1>1, <2>1
  <2>3. /\ Len(s) = 4 /\ Len(t) = 4
        /\ s[1] = t[1] /\ s[2] = t[2] /\ s[3] = t[3] /\ s[4] = t[4]
        /\ \A i \in 1..4 : i = 1 \/ i = 2 \/ i = 3 \/ i = 4
    BY <2>1, <2>2
  <2>4. \A i \in 1..Len(s) : s[i] = t[i]
    BY <2>3
  <2>5. s = t
    BY <2>3, <2>4, SeqEqual
  <2> QED
    BY <2>2, <2>5
<1>6. <<a, b, c>> \o <<d, e>> = <<a, b, c, d, e>>
  <2>1. /\ <<a, b, c>> \o <<d, e>> \in Seq(S) /\ Len(<<a, b, c>> \o <<d, e>>) = 5
        /\ (<<a, b, c>> \o <<d, e>>)[1] = a /\ (<<a, b, c>> \o <<d, e>>)[2] = b
        /\ (<<a, b, c>> \o <<d, e>>)[3] = c /\ (<<a, b, c>> \o <<d, e>>)[4] = d
        /\ (<<a, b, c>> \o <<d, e>>)[5] = e
    BY <1>1, ConcatProperties
  <2>2. PICK s, t \in Seq(S) : s = <<a, b, c>> \o <<d, e>> /\ t = <<a, b, c, d, e>>
    BY <1>1, <2>1
  <2>3. /\ Len(s) = 5 /\ Len(t) = 5
        /\ s[1] = t[1] /\ s[2] = t[2] /\ s[3] = t[3] /\ s[4] = t[4] /\ s[5] = t[5]
        /\ \A i \in 1..5 : i = 1 \/ i = 2 \/ i = 3 \/ i = 4 \/ i = 5
    BY <2>1, <2>2
  <2>4. \A i \in 1..Len(s) : s[i] = t[i]
    BY <2>3
  <2>5. s = t
    BY <2>3, <2>4, SeqEqual
  <2> QED
    BY <2>2, <2>5
<1> QED
  BY <1>2, <1>3, <1>4, <1>5, <1>6 DEF Joins

\* What one call updates, by how it ends.
LEMMA ObservationsAre ==
  /\ observations(Unreached) = <<Ex("error"), Sec("error")>>
  /\ observations(Accepted) = <<Fc("success"), Mp("success"), Ex("accepted"), Sec("accepted")>>
  /\ observations(Rejected) = <<Fc("success"), Mp("success"), Ex("rejected"), Sec("rejected")>>
  /\ observations(Unparsed) = <<Fc("success"), Mp("success"), Ex("error"), Sec("error")>>
  /\ observations(Trapped) = <<Fc("error"), Mp("error"), Ex("error"), Sec("error")>>
  /\ observations(Exhausted) = <<Fc("error"), Mp("error"), Fe, Ex("error"), Sec("error")>>
<1> DEFINE S == {Ex(l) : l \in Answers} \cup {Sec(l) : l \in Answers}
                  \cup {Fc("success"), Fc("error"), Mp("success"), Mp("error"), Fe}
<1>1. /\ \A l \in Answers : Ex(l) \in S /\ Sec(l) \in S
      /\ Fc("success") \in S /\ Fc("error") \in S
      /\ Mp("success") \in S /\ Mp("error") \in S /\ Fe \in S
  OBVIOUS
<1> HIDE DEF S
<1>2. /\ \A l : observe_contract_execution(l) = <<Ex(l), Sec(l)>>
      /\ \A l : observe_contract_fuel_consumed(l) = <<Fc(l)>>
      /\ \A l : observe_contract_memory_peak(l) = <<Mp(l)>>
      /\ observe_contract_fuel_exhausted = <<Fe>>
  BY DEF observe_contract_execution, observe_contract_fuel_consumed,
         observe_contract_memory_peak, observe_contract_fuel_exhausted, Ex, Sec, Fc, Mp, Fe
<1>3. \A o : o.guest = "unreached" => inner_observations(o) = << >>
  BY DEF inner_observations
<1>4. \A o : o.guest = "returned" => inner_observations(o) = <<Fc("success"), Mp("success")>>
  <2>1. \A o : o.guest = "returned" =>
          inner_observations(o) = (<<Fc("success")>> \o <<Mp("success")>>) \o << >>
    BY <1>2 DEF inner_observations
  <2> QED
    BY <1>1, <2>1, Concatenations DEF Joins
<1>5. \A o : o.guest = "trapped" => inner_observations(o) = <<Fc("error"), Mp("error")>>
  <2>1. \A o : o.guest = "trapped" =>
          inner_observations(o) = (<<Fc("error")>> \o <<Mp("error")>>) \o << >>
    BY <1>2 DEF inner_observations
  <2> QED
    BY <1>1, <2>1, Concatenations DEF Joins
<1>6. \A o : o.guest = "out_of_fuel" => inner_observations(o) = <<Fc("error"), Mp("error"), Fe>>
  <2>1. \A o : o.guest = "out_of_fuel" =>
          inner_observations(o) = (<<Fc("error")>> \o <<Mp("error")>>) \o <<Fe>>
    BY <1>2 DEF inner_observations
  <2> QED
    BY <1>1, <2>1, Concatenations DEF Joins
<1>7. /\ observations(Unreached) = << >> \o <<Ex("error"), Sec("error")>>
      /\ observations(Accepted) =
           <<Fc("success"), Mp("success")>> \o <<Ex("accepted"), Sec("accepted")>>
      /\ observations(Rejected) =
           <<Fc("success"), Mp("success")>> \o <<Ex("rejected"), Sec("rejected")>>
      /\ observations(Unparsed) = <<Fc("success"), Mp("success")>> \o <<Ex("error"), Sec("error")>>
      /\ observations(Trapped) = <<Fc("error"), Mp("error")>> \o <<Ex("error"), Sec("error")>>
      /\ observations(Exhausted) = <<Fc("error"), Mp("error"), Fe>> \o <<Ex("error"), Sec("error")>>
  <2>1. /\ Unreached.guest = "unreached" /\ Unreached.answer = "error"
        /\ Accepted.guest = "returned" /\ Accepted.answer = "accepted"
        /\ Rejected.guest = "returned" /\ Rejected.answer = "rejected"
        /\ Unparsed.guest = "returned" /\ Unparsed.answer = "error"
        /\ Trapped.guest = "trapped" /\ Trapped.answer = "error"
        /\ Exhausted.guest = "out_of_fuel" /\ Exhausted.answer = "error"
    BY DEF Unreached, Accepted, Rejected, Unparsed, Trapped, Exhausted
  <2> QED
    BY <1>2, <1>3, <1>4, <1>5, <1>6, <2>1, Zenon DEF observations
<1>8. "error" \in Answers /\ "accepted" \in Answers /\ "rejected" \in Answers
  BY DEF Answers
<1>9. PICK fs \in S, ms \in S, fe \in S, me \in S, x \in S :
        fs = Fc("success") /\ ms = Mp("success") /\ fe = Fc("error") /\ me = Mp("error") /\ x = Fe
  BY <1>1
<1>10. PICK ea \in S, er \in S, ee \in S, sa \in S, sr \in S, se \in S :
         /\ ea = Ex("accepted") /\ er = Ex("rejected") /\ ee = Ex("error")
         /\ sa = Sec("accepted") /\ sr = Sec("rejected") /\ se = Sec("error")
  BY <1>1, <1>8
<1>11. /\ Joins(ee, se, ee, se, x) /\ Joins(fs, ms, ea, sa, x) /\ Joins(fs, ms, er, sr, x)
       /\ Joins(fs, ms, ee, se, x) /\ Joins(fe, me, ee, se, x) /\ Joins(fe, me, x, ee, se)
  BY Concatenations
<1> QED
  BY <1>7, <1>9, <1>10, <1>11, Zenon DEF Joins

\* One element comes or goes.
LEMMA CardinalityMoves ==
  ASSUME NEW A, NEW B, IsFiniteSet(A), IsFiniteSet(B), NEW t, A \ {t} = B \ {t}
  PROVE  /\ Cardinality(A) \in Nat /\ Cardinality(B) \in Nat
         /\ (t \in A <=> t \in B) => Cardinality(B) = Cardinality(A)
         /\ t \in B /\ t \notin A => Cardinality(B) = Cardinality(A) + 1
         /\ t \in A /\ t \notin B => Cardinality(A) = Cardinality(B) + 1
<1>1. Cardinality(A) \in Nat /\ Cardinality(B) \in Nat
  BY FS_CardinalityType
<1>2. (t \in A <=> t \in B) => A = B
  OBVIOUS
<1>3. t \in B /\ t \notin A => B = A \cup {t}
  OBVIOUS
<1>4. t \in A /\ t \notin B => A = B \cup {t}
  OBVIOUS
<1> QED
  BY <1>1, <1>2, <1>3, <1>4, FS_AddElement

\* The parts of a short sequence.
IsTuple(td, h, tail, range) ==
  td # << >> /\ Head(td) = h /\ Tail(td) = tail /\ Range(td) = range

LEMMA Tuples ==
  ASSUME NEW S, NEW a \in S, NEW b \in S, NEW c \in S, NEW d \in S, NEW e \in S
  PROVE  /\ Range(<< >>) = {}
         /\ IsTuple(<<a>>, a, << >>, {a})
         /\ IsTuple(<<a, b>>, a, <<b>>, {a, b})
         /\ IsTuple(<<a, b, c>>, a, <<b, c>>, {a, b, c})
         /\ IsTuple(<<a, b, c, d>>, a, <<b, c, d>>, {a, b, c, d})
         /\ IsTuple(<<a, b, c, d, e>>, a, <<b, c, d, e>>, {a, b, c, d, e})
  BY DEF IsTuple, Range

\* g is what a thread updates after h.
Follows(h, g) ==
  \/ \E l \in {"success", "error"} : h = Fc(l) /\ g = Mp(l)
  \/ h = Mp("success") /\ \E l \in Answers : g = Ex(l)
  \/ h = Mp("error") /\ g \in {Fe, Ex("error")}
  \/ h = Fe /\ g = Ex("error")
  \/ \E l \in Answers : h = Ex(l) /\ g = Sec(l)
  \/ \E l \in Answers : h = Sec(l) /\ g = <<"none", "none">>

\* What there is to update is in the order of execute_inner and execute, and
\* nothing is in it twice.
LEMMA TodoShape ==
  ASSUME NEW td \in Todo, td # << >>
  PROVE  /\ Tail(td) \in Todo
         /\ Head(td) \in Series /\ Range(td) \subseteq Series
         /\ Range(td) = {Head(td)} \cup Range(Tail(td))
         /\ Head(td) \notin Range(Tail(td))
         /\ Follows(Head(td), NextOf(Tail(td)))
<1>1. /\ \A l \in Answers : Ex(l) \in Series /\ Sec(l) \in Series
      /\ Fc("success") \in Series /\ Fc("error") \in Series
      /\ Mp("success") \in Series /\ Mp("error") \in Series /\ Fe \in Series
      /\ "error" \in Answers
  BY SeriesAre DEF Answers
<1>2. \A l \in Answers :
        /\ Ex(l) # Sec(l)
        /\ Mp("success") \notin {Ex(l), Sec(l)} /\ Fc("success") \notin {Mp("success"), Ex(l), Sec(l)}
        /\ Mp("error") \notin {Fe, Ex(l), Sec(l)} /\ Fc("error") \notin {Mp("error"), Fe, Ex(l), Sec(l)}
        /\ Fe \notin {Ex(l), Sec(l)}
  BY DEF Ex, Sec, Fc, Mp, Fe
<1>3. CASE \E l \in Answers : td = <<Sec(l)>>
  <2>1. PICK l \in Answers : td = <<Sec(l)>>
    BY <1>3
  <2>2. PICK a \in Series : a = Sec(l)
    BY <1>1
  <2>3. IsTuple(<<a>>, a, << >>, {a})
    BY Tuples
  <2>4. Head(td) = a /\ Tail(td) = << >> /\ Range(td) = {a} /\ Range(Tail(td)) = {}
    BY <2>1, <2>2, <2>3, Tuples DEF IsTuple
  <2>5. Tail(td) \in Todo /\ Follows(Head(td), NextOf(Tail(td)))
    BY <2>2, <2>4 DEF Todo, NextOf, Follows
  <2> QED
    BY <2>4, <2>5
<1>4. CASE \E l \in Answers : td = <<Ex(l), Sec(l)>>
  <2>1. PICK l \in Answers : td = <<Ex(l), Sec(l)>>
    BY <1>4
  <2>2. PICK a, b \in Series : a = Ex(l) /\ b = Sec(l)
    BY <1>1
  <2>3. IsTuple(<<a, b>>, a, <<b>>, {a, b})
    BY Tuples
  <2>4. IsTuple(<<b>>, b, << >>, {b})
    BY Tuples
  <2>5. td = <<a, b>> /\ Head(td) = a /\ Tail(td) = <<b>> /\ NextOf(Tail(td)) = b
        /\ Range(td) = {a, b} /\ Range(Tail(td)) = {b}
    BY <2>1, <2>2, <2>3, <2>4, Zenon DEF IsTuple, NextOf
  <2>6. a \notin {b} /\ Follows(a, b)
    BY <1>1, <1>2, <2>2 DEF Follows
  <2>7. Tail(td) \in Todo
    <3>1. Tail(td) = <<Sec(l)>>
      BY <2>2, <2>5, Zenon
    <3> QED
      BY <1>1, <3>1 DEF Todo
  <2> QED
    BY <2>5, <2>6, <2>7
<1>5. CASE \E l \in Answers : td = <<Mp("success"), Ex(l), Sec(l)>>
  <2>1. PICK l \in Answers : td = <<Mp("success"), Ex(l), Sec(l)>>
    BY <1>5
  <2>2. PICK a, b, c \in Series : a = Mp("success") /\ b = Ex(l) /\ c = Sec(l)
    BY <1>1
  <2>3. IsTuple(<<a, b, c>>, a, <<b, c>>, {a, b, c})
    BY Tuples
  <2>4. IsTuple(<<b, c>>, b, <<c>>, {b, c})
    BY Tuples
  <2>5. td = <<a, b, c>> /\ Head(td) = a /\ Tail(td) = <<b, c>> /\ NextOf(Tail(td)) = b
        /\ Range(td) = {a, b, c} /\ Range(Tail(td)) = {b, c}
    BY <2>1, <2>2, <2>3, <2>4, Zenon DEF IsTuple, NextOf
  <2>6. a \notin {b, c} /\ Follows(a, b)
    BY <1>1, <1>2, <2>2 DEF Follows
  <2>7. Tail(td) \in Todo
    <3>1. Tail(td) = <<Ex(l), Sec(l)>>
      BY <2>2, <2>5, Zenon
    <3> QED
      BY <1>1, <3>1 DEF Todo
  <2> QED
    BY <2>5, <2>6, <2>7
<1>6. CASE \E l \in Answers : td = <<Fc("success"), Mp("success"), Ex(l), Sec(l)>>
  <2>1. PICK l \in Answers : td = <<Fc("success"), Mp("success"), Ex(l), Sec(l)>>
    BY <1>6
  <2>2. PICK a, b, c, d \in Series : a = Fc("success") /\ b = Mp("success") /\ c = Ex(l) /\ d = Sec(l)
    BY <1>1
  <2>3. IsTuple(<<a, b, c, d>>, a, <<b, c, d>>, {a, b, c, d})
    BY Tuples
  <2>4. IsTuple(<<b, c, d>>, b, <<c, d>>, {b, c, d})
    BY Tuples
  <2>5. td = <<a, b, c, d>> /\ Head(td) = a /\ Tail(td) = <<b, c, d>> /\ NextOf(Tail(td)) = b
        /\ Range(td) = {a, b, c, d} /\ Range(Tail(td)) = {b, c, d}
    BY <2>1, <2>2, <2>3, <2>4, Zenon DEF IsTuple, NextOf
  <2>6. a \notin {b, c, d} /\ Follows(a, b)
    BY <1>1, <1>2, <2>2 DEF Follows
  <2>7. Tail(td) \in Todo
    <3>1. Tail(td) = <<Mp("success"), Ex(l), Sec(l)>>
      BY <2>2, <2>5, Zenon
    <3> QED
      BY <1>1, <3>1 DEF Todo
  <2> QED
    BY <2>5, <2>6, <2>7
<1>7. CASE td = <<Mp("error"), Ex("error"), Sec("error")>>
  <2>1. td = <<Mp("error"), Ex("error"), Sec("error")>>
    BY <1>7
  <2>2. PICK a, b, c \in Series : a = Mp("error") /\ b = Ex("error") /\ c = Sec("error")
    BY <1>1
  <2>3. IsTuple(<<a, b, c>>, a, <<b, c>>, {a, b, c})
    BY Tuples
  <2>4. IsTuple(<<b, c>>, b, <<c>>, {b, c})
    BY Tuples
  <2>5. td = <<a, b, c>> /\ Head(td) = a /\ Tail(td) = <<b, c>> /\ NextOf(Tail(td)) = b
        /\ Range(td) = {a, b, c} /\ Range(Tail(td)) = {b, c}
    BY <2>1, <2>2, <2>3, <2>4, Zenon DEF IsTuple, NextOf
  <2>6. a \notin {b, c} /\ Follows(a, b)
    BY <1>1, <1>2, <2>2 DEF Follows
  <2>7. Tail(td) \in Todo
    <3>1. Tail(td) = <<Ex("error"), Sec("error")>>
      BY <2>2, <2>5, Zenon
    <3> QED
      BY <1>1, <3>1 DEF Todo
  <2> QED
    BY <2>5, <2>6, <2>7
<1>8. CASE td = <<Fc("error"), Mp("error"), Ex("error"), Sec("error")>>
  <2>1. td = <<Fc("error"), Mp("error"), Ex("error"), Sec("error")>>
    BY <1>8
  <2>2. PICK a, b, c, d \in Series : a = Fc("error") /\ b = Mp("error") /\ c = Ex("error") /\ d = Sec("error")
    BY <1>1
  <2>3. IsTuple(<<a, b, c, d>>, a, <<b, c, d>>, {a, b, c, d})
    BY Tuples
  <2>4. IsTuple(<<b, c, d>>, b, <<c, d>>, {b, c, d})
    BY Tuples
  <2>5. td = <<a, b, c, d>> /\ Head(td) = a /\ Tail(td) = <<b, c, d>> /\ NextOf(Tail(td)) = b
        /\ Range(td) = {a, b, c, d} /\ Range(Tail(td)) = {b, c, d}
    BY <2>1, <2>2, <2>3, <2>4, Zenon DEF IsTuple, NextOf
  <2>6. a \notin {b, c, d} /\ Follows(a, b)
    BY <1>1, <1>2, <2>2 DEF Follows
  <2>7. Tail(td) \in Todo
    <3>1. Tail(td) = <<Mp("error"), Ex("error"), Sec("error")>>
      BY <2>2, <2>5, Zenon
    <3> QED
      BY <1>1, <3>1 DEF Todo
  <2> QED
    BY <2>5, <2>6, <2>7
<1>9. CASE td = <<Fe, Ex("error"), Sec("error")>>
  <2>1. td = <<Fe, Ex("error"), Sec("error")>>
    BY <1>9
  <2>2. PICK a, b, c \in Series : a = Fe /\ b = Ex("error") /\ c = Sec("error")
    BY <1>1
  <2>3. IsTuple(<<a, b, c>>, a, <<b, c>>, {a, b, c})
    BY Tuples
  <2>4. IsTuple(<<b, c>>, b, <<c>>, {b, c})
    BY Tuples
  <2>5. td = <<a, b, c>> /\ Head(td) = a /\ Tail(td) = <<b, c>> /\ NextOf(Tail(td)) = b
        /\ Range(td) = {a, b, c} /\ Range(Tail(td)) = {b, c}
    BY <2>1, <2>2, <2>3, <2>4, Zenon DEF IsTuple, NextOf
  <2>6. a \notin {b, c} /\ Follows(a, b)
    BY <1>1, <1>2, <2>2 DEF Follows
  <2>7. Tail(td) \in Todo
    <3>1. Tail(td) = <<Ex("error"), Sec("error")>>
      BY <2>2, <2>5, Zenon
    <3> QED
      BY <1>1, <3>1 DEF Todo
  <2> QED
    BY <2>5, <2>6, <2>7
<1>10. CASE td = <<Mp("error"), Fe, Ex("error"), Sec("error")>>
  <2>1. td = <<Mp("error"), Fe, Ex("error"), Sec("error")>>
    BY <1>10
  <2>2. PICK a, b, c, d \in Series : a = Mp("error") /\ b = Fe /\ c = Ex("error") /\ d = Sec("error")
    BY <1>1
  <2>3. IsTuple(<<a, b, c, d>>, a, <<b, c, d>>, {a, b, c, d})
    BY Tuples
  <2>4. IsTuple(<<b, c, d>>, b, <<c, d>>, {b, c, d})
    BY Tuples
  <2>5. td = <<a, b, c, d>> /\ Head(td) = a /\ Tail(td) = <<b, c, d>> /\ NextOf(Tail(td)) = b
        /\ Range(td) = {a, b, c, d} /\ Range(Tail(td)) = {b, c, d}
    BY <2>1, <2>2, <2>3, <2>4, Zenon DEF IsTuple, NextOf
  <2>6. a \notin {b, c, d} /\ Follows(a, b)
    BY <1>1, <1>2, <2>2 DEF Follows
  <2>7. Tail(td) \in Todo
    <3>1. Tail(td) = <<Fe, Ex("error"), Sec("error")>>
      BY <2>2, <2>5, Zenon
    <3> QED
      BY <1>1, <3>1 DEF Todo
  <2> QED
    BY <2>5, <2>6, <2>7
<1>11. CASE td = <<Fc("error"), Mp("error"), Fe, Ex("error"), Sec("error")>>
  <2>1. td = <<Fc("error"), Mp("error"), Fe, Ex("error"), Sec("error")>>
    BY <1>11
  <2>2. PICK a, b, c, d, e \in Series : a = Fc("error") /\ b = Mp("error") /\ c = Fe /\ d = Ex("error") /\ e = Sec("error")
    BY <1>1
  <2>3. IsTuple(<<a, b, c, d, e>>, a, <<b, c, d, e>>, {a, b, c, d, e})
    BY Tuples
  <2>4. IsTuple(<<b, c, d, e>>, b, <<c, d, e>>, {b, c, d, e})
    BY Tuples
  <2>5. td = <<a, b, c, d, e>> /\ Head(td) = a /\ Tail(td) = <<b, c, d, e>> /\ NextOf(Tail(td)) = b
        /\ Range(td) = {a, b, c, d, e} /\ Range(Tail(td)) = {b, c, d, e}
    BY <2>1, <2>2, <2>3, <2>4, Zenon DEF IsTuple, NextOf
  <2>6. a \notin {b, c, d, e} /\ Follows(a, b)
    BY <1>1, <1>2, <2>2 DEF Follows
  <2>7. Tail(td) \in Todo
    <3>1. Tail(td) = <<Mp("error"), Fe, Ex("error"), Sec("error")>>
      BY <2>2, <2>5, Zenon
    <3> QED
      BY <1>1, <3>1 DEF Todo
  <2> QED
    BY <2>5, <2>6, <2>7
<1> QED
  BY <1>3, <1>4, <1>5, <1>6, <1>7, <1>8, <1>9, <1>10, <1>11 DEF Todo

\* A call begins with the samples of its guest, or with its answer if it had none.
LEMMA ObservationsBegin ==
  ASSUME NEW o \in Outcomes
  PROVE  /\ observations(o) \in Todo
         /\ NextOf(observations(o)) \in {Fc("success"), Fc("error"), Ex("error")}
<1>1. "error" \in Answers /\ "accepted" \in Answers /\ "rejected" \in Answers
  BY DEF Answers
<1>2. observations(o) \in Todo
  BY <1>1, ObservationsAre DEF Outcomes, Todo
<1>3. \A a, b, c, d, e : /\ NextOf(<<a, b>>) = a /\ NextOf(<<a, b, c, d>>) = a
                         /\ NextOf(<<a, b, c, d, e>>) = a
  BY DEF NextOf
<1> QED
  BY <1>2, <1>3, ObservationsAre DEF Outcomes

\* One more call is one more of its outcome.
LEMMA OneMoreCall ==
  ASSUME calls \in [Outcomes -> Nat], NEW o \in Outcomes,
         calls' = [calls EXCEPT ![o] = @ + 1], NEW S
  PROVE  /\ With(S) \in Nat
         /\ With(S)' = IF o \in S THEN With(S) + 1 ELSE With(S)
<1>1. /\ Unreached # Accepted /\ Unreached # Rejected /\ Unreached # Unparsed
      /\ Unreached # Trapped /\ Unreached # Exhausted
      /\ Accepted # Rejected /\ Accepted # Unparsed /\ Accepted # Trapped /\ Accepted # Exhausted
      /\ Rejected # Unparsed /\ Rejected # Trapped /\ Rejected # Exhausted
      /\ Unparsed # Trapped /\ Unparsed # Exhausted /\ Trapped # Exhausted
  BY DEF Unreached, Accepted, Rejected, Unparsed, Trapped, Exhausted
<1> DEFINE n(p) == IF p \in S THEN calls[p] ELSE 0
           m(p) == IF p \in S THEN calls'[p] ELSE 0
<1>2. \A p \in Outcomes : n(p) \in Nat /\ m(p) = IF p = o /\ o \in S THEN n(p) + 1 ELSE n(p)
  OBVIOUS
<1>3. /\ With(S) = n(Unreached) + n(Accepted) + n(Rejected) + n(Unparsed) + n(Trapped) + n(Exhausted)
      /\ With(S)' = m(Unreached) + m(Accepted) + m(Rejected) + m(Unparsed) + m(Trapped) + m(Exhausted)
  BY DEF With
<1> HIDE DEF n, m
<1>4. PICK u \in Nat, a \in Nat, r \in Nat, p \in Nat, t \in Nat, x \in Nat :
        /\ u = n(Unreached) /\ a = n(Accepted) /\ r = n(Rejected)
        /\ p = n(Unparsed) /\ t = n(Trapped) /\ x = n(Exhausted)
  BY <1>2 DEF Outcomes
<1>5. /\ Unreached \in Outcomes /\ Accepted \in Outcomes /\ Rejected \in Outcomes
      /\ Unparsed \in Outcomes /\ Trapped \in Outcomes /\ Exhausted \in Outcomes
  BY DEF Outcomes
<1>6. With(S) = u + a + r + p + t + x
  BY <1>3, <1>4
<1>7. CASE o \notin S
  BY <1>2, <1>3, <1>4, <1>5, <1>6, <1>7
<1>8. CASE o \in S
  <2>1. CASE o = Unreached
    BY <1>1, <1>2, <1>3, <1>4, <1>5, <1>6, <1>8, <2>1
  <2>2. CASE o = Accepted
    BY <1>1, <1>2, <1>3, <1>4, <1>5, <1>6, <1>8, <2>2
  <2>3. CASE o = Rejected
    BY <1>1, <1>2, <1>3, <1>4, <1>5, <1>6, <1>8, <2>3
  <2>4. CASE o = Unparsed
    BY <1>1, <1>2, <1>3, <1>4, <1>5, <1>6, <1>8, <2>4
  <2>5. CASE o = Trapped
    BY <1>1, <1>2, <1>3, <1>4, <1>5, <1>6, <1>8, <2>5
  <2>6. CASE o = Exhausted
    BY <1>1, <1>2, <1>3, <1>4, <1>5, <1>6, <1>8, <2>6
  <2> QED
    BY <2>1, <2>2, <2>3, <2>4, <2>5, <2>6 DEF Outcomes
<1> QED
  BY <1>7, <1>8

\* A thread that goes from one thing to do to another.
LEMMA ThreadMoves ==
  ASSUME todo \in [Threads -> Todo], NEW t \in Threads, NEW td,
         todo' = [todo EXCEPT ![t] = td], NEW s
  PROVE  /\ Upcoming(s) \in Nat /\ Waiting(s) \in Nat
         /\ Upcoming(s)' \in Nat /\ Waiting(s)' \in Nat
         /\ (NextOf(todo[t]) = s <=> NextOf(td) = s) => Upcoming(s)' = Upcoming(s)
         /\ NextOf(todo[t]) # s /\ NextOf(td) = s => Upcoming(s)' = Upcoming(s) + 1
         /\ NextOf(todo[t]) = s /\ NextOf(td) # s => Upcoming(s) = Upcoming(s)' + 1
         /\ (s \in Range(todo[t]) <=> s \in Range(td)) => Waiting(s)' = Waiting(s)
         /\ s \notin Range(todo[t]) /\ s \in Range(td) => Waiting(s)' = Waiting(s) + 1
         /\ s \in Range(todo[t]) /\ s \notin Range(td) => Waiting(s) = Waiting(s)' + 1
<1> DEFINE A == {k \in Threads : NextOf(todo[k]) = s}
           B == {k \in Threads : NextOf(todo'[k]) = s}
           C == {k \in Threads : s \in Range(todo[k])}
           D == {k \in Threads : s \in Range(todo'[k])}
<1>1. todo'[t] = td /\ \A k \in Threads \ {t} : todo'[k] = todo[k]
  OBVIOUS
<1>2. IsFiniteSet(A) /\ IsFiniteSet(B) /\ IsFiniteSet(C) /\ IsFiniteSet(D)
  BY MetricsAssumption, FS_Subset
<1>3. A \ {t} = B \ {t} /\ C \ {t} = D \ {t}
  BY <1>1
<1>4. /\ t \in A <=> NextOf(todo[t]) = s
      /\ t \in B <=> NextOf(td) = s
      /\ t \in C <=> s \in Range(todo[t])
      /\ t \in D <=> s \in Range(td)
  BY <1>1
<1>5. /\ Upcoming(s) = Cardinality(A) /\ Upcoming(s)' = Cardinality(B)
      /\ Waiting(s) = Cardinality(C) /\ Waiting(s)' = Cardinality(D)
  BY DEF Upcoming, Waiting
<1> HIDE DEF A, B, C, D
<1> QED
  BY <1>2, <1>3, <1>4, <1>5, CardinalityMoves

-----------------------------------------------------------------------------
(***************************************************************************)
(* The invariant, step by step.                                            *)
(***************************************************************************)

\* The series of OrderInv are series, and different ones.
LEMMA SeriesDiffer ==
  /\ "error" \in Answers /\ "accepted" \in Answers /\ "rejected" \in Answers
  /\ \A l \in Answers : Ex(l) \in Series /\ Sec(l) \in Series
  /\ \A l \in {"success", "error"} : Fc(l) \in Series /\ Mp(l) \in Series
  /\ Fe \in Series
  /\ <<"none", "none">> \notin Series
  /\ \A l, k \in Answers : Ex(l) # Sec(k) /\ (Ex(l) = Ex(k) => l = k) /\ (Sec(l) = Sec(k) => l = k)
  /\ \A l, k \in {"success", "error"} :
       Fc(l) # Mp(k) /\ (Fc(l) = Fc(k) => l = k) /\ (Mp(l) = Mp(k) => l = k)
  /\ \A l \in Answers, k \in {"success", "error"} :
       Ex(l) # Fc(k) /\ Ex(l) # Mp(k) /\ Sec(l) # Fc(k) /\ Sec(l) # Mp(k)
  /\ \A l \in Answers : Ex(l) # Fe /\ Sec(l) # Fe
  /\ \A l \in {"success", "error"} : Fc(l) # Fe /\ Mp(l) # Fe
<1>1. "error" \in Answers /\ "accepted" \in Answers /\ "rejected" \in Answers
  BY DEF Answers
<1>2. /\ \A l \in Answers : Ex(l) \in Series /\ Sec(l) \in Series
      /\ \A l \in {"success", "error"} : Fc(l) \in Series /\ Mp(l) \in Series
      /\ Fe \in Series
  BY SeriesAre
<1>3. <<"none", "none">> \notin Series
  BY SeriesAre DEF Ex, Sec, Fc, Mp, Fe
<1> QED
  BY <1>1, <1>2, <1>3 DEF Ex, Sec, Fc, Mp, Fe

\* What a thread has to do is over series.
LEMMA TodoRange ==
  ASSUME NEW td \in Todo
  PROVE  Range(td) \subseteq Series
<1>1. CASE td = << >>
  BY <1>1 DEF Range
<1>2. CASE td # << >>
  BY <1>2, TodoShape
<1> QED
  BY <1>1, <1>2

LEMMA MetricsInit == Init => MetricsInv
<1> SUFFICES ASSUME Init
             PROVE  MetricsInv
  OBVIOUS
<1>1. todo = [t \in Threads |-> << >>] /\ count = [s \in Series |-> 0] /\ seen = << >>
      /\ calls = [o \in Outcomes |-> 0] /\ metrics \in BOOLEAN
  BY DEF Init
<1>2. \A s \in Series : Upcoming(s) = 0 /\ Waiting(s) = 0
  <2> SUFFICES ASSUME NEW s \in Series
               PROVE  Upcoming(s) = 0 /\ Waiting(s) = 0
    OBVIOUS
  <2>1. NextOf(<< >>) # s /\ Range(<< >>) = {}
    BY SeriesDiffer DEF NextOf, Range
  <2>2. {t \in Threads : NextOf(todo[t]) = s} = {} /\ {t \in Threads : s \in Range(todo[t])} = {}
    BY <1>1, <2>1
  <2> QED
    BY <2>2, FS_EmptySet DEF Upcoming, Waiting
<1>3. \A S : With(S) = 0
  <2>1. /\ calls[Unreached] = 0 /\ calls[Accepted] = 0 /\ calls[Rejected] = 0
        /\ calls[Unparsed] = 0 /\ calls[Trapped] = 0 /\ calls[Exhausted] = 0
    BY <1>1 DEF Outcomes
  <2> QED
    BY <2>1 DEF With
<1>4. DOMAIN seen = {}
  BY <1>1
<1>5. TypeOK
  <2>1. \A t \in Threads : Range(todo[t]) \subseteq Series
    BY <1>1 DEF Range
  <2>2. calls \in [Outcomes -> 0..MaxCalls]
    BY <1>1, MetricsAssumption
  <2> QED
    BY <1>1, <1>4, <2>1, <2>2 DEF TypeOK
<1>6. todo \in [Threads -> Todo]
  BY <1>1 DEF Todo
<1>7. CallsInv
  BY <1>1, <1>3, MetricsAssumption DEF CallsInv
<1>8. OrderInv
  <2>1. \A s \in Series : count[s] = 0
    BY <1>1
  <2> QED
    BY <1>2, <2>1, SeriesDiffer DEF OrderInv
<1>9. AccountInv
  BY <1>1, <1>2, <1>3 DEF AccountInv
<1>10. ScrapeInv
  BY <1>4 DEF ScrapeInv
<1> QED
  BY <1>5, <1>6, <1>7, <1>8, <1>9, <1>10 DEF MetricsInv

\* A call adds its outcome, and all of its updates are still to come.
LEMMA CallStep ==
  ASSUME MetricsInv, NEW t \in Threads, NEW o \in Outcomes, Call(t, o)
  PROVE  MetricsInv'
<1> DEFINE td == IF metrics THEN observations(o) ELSE << >>
<1>1. /\ todo[t] = << >> /\ With(Outcomes) < MaxCalls
      /\ calls' = [calls EXCEPT ![o] = @ + 1]
      /\ todo' = [todo EXCEPT ![t] = td]
      /\ metrics' = metrics /\ count' = count /\ seen' = seen
  BY DEF Call
<1>2. /\ calls \in [Outcomes -> Nat] /\ todo \in [Threads -> Todo] /\ count \in [Series -> Nat]
      /\ metrics \in BOOLEAN
  BY DEF MetricsInv, CallsInv, TypeOK
<1>3. td \in Todo /\ NextOf(td) \in {Fc("success"), Fc("error"), Ex("error"), <<"none", "none">>}
  BY <1>2, ObservationsBegin DEF Todo, NextOf
<1>4. todo' \in [Threads -> Todo]
  BY <1>1, <1>2, <1>3
<1>5. CallsInv'
  <2>1. calls' \in [Outcomes -> Nat]
    BY <1>1, <1>2
  <2>2. With(Outcomes) \in Nat /\ With(Outcomes)' = With(Outcomes) + 1
    BY <1>1, <1>2, OneMoreCall
  <2>3. With(Outcomes)' <= MaxCalls
    BY <1>1, <2>2, MetricsAssumption
  <2> QED
    BY <2>1, <2>3 DEF CallsInv
<1>6. TypeOK'
  <2>1. \A k \in Threads : Range(todo'[k]) \subseteq Series
    BY <1>4, TodoRange
  <2>2. calls' \in [Outcomes -> 0..MaxCalls]
    <3>1. calls' \in [Outcomes -> Nat] /\ With(Outcomes)' <= MaxCalls
      BY <1>5 DEF CallsInv
    <3>2. /\ calls'[Unreached] \in Nat /\ calls'[Accepted] \in Nat /\ calls'[Rejected] \in Nat
          /\ calls'[Unparsed] \in Nat /\ calls'[Trapped] \in Nat /\ calls'[Exhausted] \in Nat
      BY <3>1 DEF Outcomes
    <3>3. With(Outcomes)' = calls'[Unreached] + calls'[Accepted] + calls'[Rejected]
                              + calls'[Unparsed] + calls'[Trapped] + calls'[Exhausted]
      BY DEF With, Outcomes
    <3>4. \A p \in Outcomes : calls'[p] \in 0..MaxCalls
      BY <3>1, <3>2, <3>3, MetricsAssumption DEF Outcomes
    <3> QED
      BY <3>1, <3>4
  <2> QED
    BY <1>1, <2>1, <2>2 DEF MetricsInv, TypeOK
<1>7. OrderInv'
  <2>1. NextOf(todo[t]) = <<"none", "none">>
    BY <1>1 DEF NextOf
  <2>2. \A s \in Series : s \notin {Fc("success"), Fc("error"), Ex("error")} =>
          Upcoming(s)' = Upcoming(s)
    <3> SUFFICES ASSUME NEW s \in Series, s \notin {Fc("success"), Fc("error"), Ex("error")}
                 PROVE  Upcoming(s)' = Upcoming(s)
      OBVIOUS
    <3>1. NextOf(todo[t]) # s /\ NextOf(td) # s
      BY <1>3, <2>1, SeriesDiffer
    <3> HIDE DEF td
    <3> QED
      BY <1>1, <1>2, <3>1, ThreadMoves
  <2> QED
    BY <1>1, <2>2, SeriesDiffer DEF MetricsInv, OrderInv
<1>8. AccountInv'
  <2> SUFFICES ASSUME metrics, NEW s \in Series
               PROVE  count[s] + Waiting(s)' = With(Updating(s))'
    BY <1>1 DEF AccountInv, Updating
  <2>1. td = observations(o) /\ Range(todo[t]) = {}
    BY <1>1 DEF Range
  <2>2. count[s] + Waiting(s) = With(Updating(s)) /\ count[s] \in Nat
    BY <1>2 DEF MetricsInv, AccountInv
  <2>3. s \in Range(td) <=> o \in Updating(s)
    BY <2>1 DEF Updating
  <2>4. With(Updating(s))' = IF o \in Updating(s) THEN With(Updating(s)) + 1 ELSE With(Updating(s))
    <3>1. PICK S : S = Updating(s)
      OBVIOUS
    <3>2. With(S)' = IF o \in S THEN With(S) + 1 ELSE With(S)
      BY <1>1, <1>2, OneMoreCall
    <3>3. Updating(s)' = Updating(s)
      BY DEF Updating
    <3> QED
      BY <3>1, <3>2, <3>3
  <2> HIDE DEF td
  <2>5. /\ Waiting(s) \in Nat /\ Waiting(s)' \in Nat
        /\ Waiting(s)' = IF s \in Range(td) THEN Waiting(s) + 1 ELSE Waiting(s)
    BY <1>1, <1>2, <2>1, ThreadMoves
  <2> QED
    BY <2>2, <2>3, <2>4, <2>5
<1>9. ScrapeInv'
  BY <1>1 DEF MetricsInv, ScrapeInv
<1> QED
  BY <1>4, <1>5, <1>6, <1>7, <1>8, <1>9 DEF MetricsInv

\* An update is counted by the thread that had it to do, which goes on to the
\* next one.
LEMMA ObserveStep ==
  ASSUME MetricsInv, NEW t \in Threads, Observe(t)
  PROVE  MetricsInv'
<1> DEFINE h == Head(todo[t])
           td == Tail(todo[t])
           g == NextOf(td)
<1>1. /\ todo[t] # << >>
      /\ count' = [count EXCEPT ![h] = @ + 1]
      /\ todo' = [todo EXCEPT ![t] = td]
      /\ metrics' = metrics /\ calls' = calls /\ seen' = seen
  BY DEF Observe
<1>2. todo \in [Threads -> Todo] /\ count \in [Series -> Nat]
  BY DEF MetricsInv, TypeOK
<1>3. /\ todo[t] \in Todo /\ td \in Todo /\ h \in Series
      /\ Range(todo[t]) = {h} \cup Range(td) /\ h \notin Range(td)
      /\ Follows(h, g) /\ NextOf(todo[t]) = h
  BY <1>1, <1>2, TodoShape DEF NextOf
<1>3a. g = NextOf(td)
  OBVIOUS
<1> HIDE DEF h, td, g
<1>4. g # h
  BY <1>3, SeriesDiffer DEF Follows
<1>5. todo' \in [Threads -> Todo]
  BY <1>1, <1>2, <1>3
<1>6. /\ count' \in [Series -> Nat]
      /\ \A s \in Series : count'[s] = IF s = h THEN count[s] + 1 ELSE count[s]
  BY <1>1, <1>2, <1>3
<1>7. \A s \in Series :
        /\ Upcoming(s) \in Nat /\ Upcoming(s)' \in Nat
        /\ s = h => Upcoming(s) = Upcoming(s)' + 1
        /\ s = g => Upcoming(s)' = Upcoming(s) + 1
        /\ s # h /\ s # g => Upcoming(s)' = Upcoming(s)
  <2> TAKE s \in Series
  <2>1. Upcoming(s) \in Nat /\ Upcoming(s)' \in Nat
    BY <1>1, <1>2, ThreadMoves
  <2>2. CASE s = h
    <3>1. NextOf(todo[t]) = s /\ NextOf(td) # s
      BY <1>3, <1>4, <1>3a, <2>2
    <3>2. Upcoming(s) = Upcoming(s)' + 1
      BY <1>1, <1>2, <3>1, ThreadMoves
    <3> QED
      BY <1>4, <2>1, <2>2, <3>2
  <2>3. CASE s = g
    <3>1. NextOf(todo[t]) # s /\ NextOf(td) = s
      BY <1>3, <1>4, <1>3a, <2>3
    <3>2. Upcoming(s)' = Upcoming(s) + 1
      BY <1>1, <1>2, <3>1, ThreadMoves
    <3> QED
      BY <1>4, <2>1, <2>3, <3>2
  <2>4. CASE s # h /\ s # g
    <3>1. NextOf(todo[t]) # s /\ NextOf(td) # s
      BY <1>3, <1>3a, <2>4
    <3> QED
      BY <1>1, <1>2, <2>1, <2>4, <3>1, ThreadMoves
  <2> QED
    BY <2>2, <2>3, <2>4
<1>8. \A s \in Series :
        /\ Waiting(s) \in Nat /\ Waiting(s)' \in Nat
        /\ s = h => Waiting(s) = Waiting(s)' + 1
        /\ s # h => Waiting(s)' = Waiting(s)
  BY <1>1, <1>2, <1>3, ThreadMoves
<1>9. TypeOK'
  <2>1. \A k \in Threads : Range(todo'[k]) \subseteq Series
    BY <1>5, TodoRange
  <2>2. \A s \in DOMAIN seen : seen[s] \in 0..count'[s]
    <3>1. \A s \in DOMAIN seen : s \in Series /\ seen[s] \in 0..count[s]
      BY DEF MetricsInv, TypeOK
    <3>2. \A s \in Series : count[s] \in Nat /\ count'[s] \in Nat /\ count[s] <= count'[s]
      BY <1>2, <1>6
    <3> QED
      BY <3>1, <3>2
  <2> QED
    BY <1>1, <1>6, <2>1, <2>2 DEF MetricsInv, TypeOK
<1>10. CallsInv'
  BY <1>1 DEF MetricsInv, CallsInv, With
<1>11. OrderInv'
  <2>1. \A s \in Series : count[s] \in Nat
    BY <1>2
  <2>2. ASSUME NEW l \in {"success", "error"}, h = Fc(l), g = Mp(l)
        PROVE  OrderInv'
    BY <1>6, <1>7, <2>1, <2>2, SeriesDiffer DEF MetricsInv, OrderInv
  <2>3. ASSUME NEW l \in Answers, h = Mp("success"), g = Ex(l)
        PROVE  OrderInv'
    <3>1. /\ count'[Mp("success")] = count[Mp("success")] + 1
          /\ \A k \in Answers : count'[Ex(k)] = count[Ex(k)]
          /\ \A k \in Answers : Upcoming(Ex(k))' =
                                  IF k = l THEN Upcoming(Ex(k)) + 1 ELSE Upcoming(Ex(k))
          /\ \A k \in Answers : Upcoming(Ex(k)) \in Nat /\ count[Ex(k)] \in Nat
          /\ count[Mp("success")] \in Nat
      BY <1>6, <1>7, <2>1, <2>3, SeriesDiffer
    <3>2. count'[Ex("accepted")] + Upcoming(Ex("accepted"))'
            + count'[Ex("rejected")] + Upcoming(Ex("rejected"))' <= count'[Mp("success")]
      BY <3>1, SeriesDiffer DEF MetricsInv, OrderInv
    <3>3. \A k \in {"success", "error"} : count'[Fc(k)] = count'[Mp(k)] + Upcoming(Mp(k))'
      <4>1. /\ count'[Fc("success")] = count[Fc("success")]
            /\ Upcoming(Mp("success")) = Upcoming(Mp("success"))' + 1
            /\ Upcoming(Mp("success"))' \in Nat
            /\ count'[Fc("error")] = count[Fc("error")]
            /\ count'[Mp("error")] = count[Mp("error")]
            /\ Upcoming(Mp("error"))' = Upcoming(Mp("error"))
        BY <1>6, <1>7, <2>3, SeriesDiffer
      <4>2. /\ count[Fc("success")] = count[Mp("success")] + Upcoming(Mp("success"))
            /\ count[Fc("error")] = count[Mp("error")] + Upcoming(Mp("error"))
        BY DEF MetricsInv, OrderInv
      <4> QED
        BY <3>1, <4>1, <4>2
    <3>4. count'[Fe] + Upcoming(Fe)' <= count'[Mp("error")]
      BY <1>6, <1>7, <2>1, <2>3, SeriesDiffer DEF MetricsInv, OrderInv
    <3>5. \A k \in Answers : count'[Ex(k)] = count'[Sec(k)] + Upcoming(Sec(k))'
      BY <1>6, <1>7, <2>1, <2>3, SeriesDiffer DEF MetricsInv, OrderInv
    <3> QED
      BY <3>2, <3>3, <3>4, <3>5 DEF OrderInv
  <2>4. CASE h = Mp("error") /\ g \in {Fe, Ex("error")}
    BY <1>6, <1>7, <2>1, <2>4, SeriesDiffer DEF MetricsInv, OrderInv
  <2>5. CASE h = Fe /\ g = Ex("error")
    BY <1>6, <1>7, <2>1, <2>5, SeriesDiffer DEF MetricsInv, OrderInv
  <2>6. ASSUME NEW l \in Answers, h = Ex(l), g = Sec(l)
        PROVE  OrderInv'
    BY <1>6, <1>7, <2>1, <2>6, SeriesDiffer DEF MetricsInv, OrderInv
  <2>7. ASSUME NEW l \in Answers, h = Sec(l), g = <<"none", "none">>
        PROVE  OrderInv'
    BY <1>6, <1>7, <2>1, <2>7, SeriesDiffer DEF MetricsInv, OrderInv
  <2> QED
    BY <1>3, <2>2, <2>3, <2>4, <2>5, <2>6, <2>7 DEF Follows
<1>12. AccountInv'
  <2> SUFFICES ASSUME metrics, NEW s \in Series
               PROVE  count'[s] + Waiting(s)' = With(Updating(s))'
    BY <1>1 DEF AccountInv
  <2>1. count[s] + Waiting(s) = With(Updating(s)) /\ count[s] \in Nat
    BY <1>2 DEF MetricsInv, AccountInv
  <2>2. With(Updating(s))' = With(Updating(s))
    BY <1>1 DEF With, Updating
  <2> QED
    BY <1>6, <1>8, <2>1, <2>2
<1>13. ScrapeInv'
  BY <1>1 DEF MetricsInv, ScrapeInv
<1> QED
  BY <1>5, <1>9, <1>10, <1>11, <1>12, <1>13 DEF MetricsInv

\* What OrderInv says of the counters at any instant.
LEMMA OrderedNow ==
  ASSUME TypeOK, todo \in [Threads -> Todo], OrderInv
  PROVE  /\ \A s \in Series : count[s] \in Nat
         /\ count[Fe] <= count[Mp("error")]
         /\ \A l \in {"success", "error"} : count[Mp(l)] <= count[Fc(l)]
         /\ count[Ex("accepted")] + count[Ex("rejected")] <= count[Mp("success")]
         /\ \A l \in Answers : count[Sec(l)] <= count[Ex(l)]
<1>1. \A s \in Series : count[s] \in Nat
  BY DEF TypeOK
<1>2. \A s : Upcoming(s) \in Nat
  BY MetricsAssumption, FS_Subset, FS_CardinalityType DEF Upcoming
<1> QED
  BY <1>1, <1>2, SeriesDiffer DEF OrderInv

\* Another series is read: the executions have been read before the samples.
LEMMA ScrapeStep ==
  ASSUME MetricsInv, NEW i \in DOMAIN Registered, NEW label \in LabelsOf(Registered[i]),
         Scrape(i, label)
  PROVE  MetricsInv'
<1> DEFINE s0 == <<Registered[i], label>>
<1>1. /\ s0 \notin DOMAIN seen
      /\ \A j \in 1..(i - 1) : Read(Registered[j])
      /\ seen' = [s \in DOMAIN seen \cup {s0} |-> IF s = s0 THEN count[s] ELSE seen[s]]
      /\ metrics' = metrics /\ count' = count /\ todo' = todo /\ calls' = calls
  BY DEF Scrape
<1>2. s0 \in Series
  BY DEF Series, Range
<1>3. /\ DOMAIN seen' = DOMAIN seen \cup {s0}
      /\ seen'[s0] = count[s0]
      /\ \A s \in DOMAIN seen : seen'[s] = seen[s]
  BY <1>1
<1>4. /\ \A s \in Series : count[s] \in Nat
      /\ \A l \in {"success", "error"} : count[Mp(l)] <= count[Fc(l)]
      /\ count[Ex("accepted")] + count[Ex("rejected")] <= count[Mp("success")]
  BY OrderedNow DEF MetricsInv
<1>5. TypeOK'
  <2>1. count[s0] \in 0..count[s0]
    BY <1>2, <1>4
  <2> QED
    BY <1>1, <1>2, <1>3, <2>1 DEF MetricsInv, TypeOK
<1>6. ScrapeInv'
  <2> SUFFICES ASSUME NEW metric \in {"fuel_consumed", "memory_peak"},
                      <<metric, "success">> \in DOMAIN seen'
               PROVE  /\ {Ex("accepted"), Ex("rejected")} \subseteq DOMAIN seen'
                      /\ seen'[Ex("accepted")] + seen'[Ex("rejected")] <=
                           seen'[<<metric, "success">>]
    BY DEF ScrapeInv
  <2>1. CASE <<metric, "success">> \in DOMAIN seen
    BY <1>3, <2>1 DEF MetricsInv, ScrapeInv
  <2>2. CASE <<metric, "success">> \notin DOMAIN seen
    <3>1. s0 = <<metric, "success">>
      BY <1>3, <2>2
    <3>2. Registered[i] = metric /\ Registered[1] = "executions" /\ i \in 1..5
      BY <3>1 DEF Registered
    <3>3. i # 1
      BY <3>2
    <3>4. Read("executions")
      BY <1>1, <3>2, <3>3
    <3>5. Ex("accepted") \in DOMAIN seen /\ Ex("rejected") \in DOMAIN seen
      BY <3>4 DEF Read, LabelsOf, Ex
    <3>6. /\ seen[Ex("accepted")] \in 0..count[Ex("accepted")]
          /\ seen[Ex("rejected")] \in 0..count[Ex("rejected")]
      BY <3>5 DEF MetricsInv, TypeOK
    <3>7. count[Ex("accepted")] + count[Ex("rejected")] <= count[s0]
      <4>1. s0 = Fc("success") \/ s0 = Mp("success")
        BY <3>1 DEF Fc, Mp
      <4> HIDE DEF s0
      <4> QED
        BY <1>4, <4>1, SeriesDiffer
    <3>8. /\ seen'[Ex("accepted")] = seen[Ex("accepted")]
          /\ seen'[Ex("rejected")] = seen[Ex("rejected")]
          /\ seen'[<<metric, "success">>] = count[s0]
      BY <1>3, <3>1, <3>5
    <3>9. PICK a \in Nat, b \in Nat, c \in Nat :
            a = count[Ex("accepted")] /\ b = count[Ex("rejected")] /\ c = count[s0]
      BY <1>2, <1>4, SeriesDiffer
    <3> QED
      BY <1>3, <3>5, <3>6, <3>7, <3>8, <3>9
  <2> QED
    BY <2>1, <2>2
<1>7. CallsInv' /\ OrderInv' /\ AccountInv'
  BY <1>1 DEF MetricsInv, CallsInv, OrderInv, AccountInv, With, Updating, Upcoming, Waiting
<1> QED
  BY <1>1, <1>5, <1>6, <1>7 DEF MetricsInv

LEMMA MetricsNext == MetricsInv /\ [Next]_vars => MetricsInv'
<1> SUFFICES ASSUME MetricsInv, [Next]_vars
             PROVE  MetricsInv'
  OBVIOUS
<1>1. CASE UNCHANGED vars
  BY <1>1 DEF vars, MetricsInv, TypeOK, CallsInv, OrderInv, AccountInv, ScrapeInv, With,
              Updating, Upcoming, Waiting
<1>2. ASSUME NEW t \in Threads, Observe(t)
      PROVE  MetricsInv'
  BY <1>2, ObserveStep
<1>3. ASSUME NEW t \in Threads, NEW o \in Outcomes, Call(t, o)
      PROVE  MetricsInv'
  BY <1>3, CallStep
<1>4. ASSUME NEW i \in DOMAIN Registered, NEW label \in LabelsOf(Registered[i]), Scrape(i, label)
      PROVE  MetricsInv'
  BY <1>4, ScrapeStep
<1>5. CASE ScrapeAgain
  <2>1. DOMAIN seen' = {} /\ UNCHANGED <<metrics, count, todo, calls>>
    BY <1>5 DEF ScrapeAgain
  <2> QED
    BY <2>1 DEF MetricsInv, TypeOK, CallsInv, OrderInv, AccountInv, ScrapeInv, With,
                Updating, Upcoming, Waiting
<1> QED
  BY <1>1, <1>2, <1>3, <1>4, <1>5 DEF Next

LEMMA MetricsInvariant == Spec => []MetricsInv
  BY MetricsInit, MetricsNext, PTL DEF Spec

-----------------------------------------------------------------------------
(***************************************************************************)
(* What the metrics say.                                                   *)
(***************************************************************************)

\* Every variable has its type.
THEOREM MetricsTypeOK == Spec => []TypeOK
<1>1. MetricsInv => TypeOK
  BY DEF MetricsInv
<1> QED
  BY <1>1, MetricsInvariant, PTL

\* At every instant, with any number of calls between two of their updates, an
\* exhaustion has its samples, an answered call those of its guest, and a
\* duration its execution (the order in execute_inner and execute).
THEOREM MetricsCountersAreOrdered == Spec => []CountersAreOrdered
<1>1. MetricsInv => CountersAreOrdered
  <2> SUFFICES ASSUME MetricsInv
               PROVE  CountersAreOrdered
    OBVIOUS
  <2>1. LabelsOf("seconds") = Answers
    BY DEF LabelsOf, Answers
  <2>2. /\ \A l : Value("executions", l) = count[Ex(l)] /\ Value("seconds", l) = count[Sec(l)]
        /\ \A l : Value("fuel_consumed", l) = count[Fc(l)] /\ Value("memory_peak", l) = count[Mp(l)]
        /\ Value("fuel_exhausted", "error") = count[Fe]
    BY DEF Value, Ex, Sec, Fc, Mp, Fe
  <2>3. /\ count[Fe] <= count[Mp("error")]
        /\ \A l \in {"success", "error"} : count[Mp(l)] <= count[Fc(l)]
        /\ count[Ex("accepted")] + count[Ex("rejected")] <= count[Mp("success")]
        /\ \A l \in Answers : count[Sec(l)] <= count[Ex(l)]
    BY OrderedNow DEF MetricsInv
  <2> QED
    BY <2>1, <2>2, <2>3 DEF CountersAreOrdered
<1> QED
  BY <1>1, MetricsInvariant, PTL

\* However many updates fall between two reads of a scrape, it shows no more
\* accepted and rejected executions than samples of guests that returned
\* (register_into reads first what execute counts last).
THEOREM MetricsScrapeIsCovered == Spec => []ScrapeIsCovered
<1>1. MetricsInv => ScrapeIsCovered
  <2> SUFFICES ASSUME MetricsInv, DOMAIN seen = Series,
                      NEW metric \in {"fuel_consumed", "memory_peak"}
               PROVE  seen[<<"executions", "accepted">>] + seen[<<"executions", "rejected">>]
                        <= seen[<<metric, "success">>]
    BY DEF ScrapeIsCovered
  <2>1. <<metric, "success">> \in DOMAIN seen
    BY SeriesAre DEF Fc, Mp
  <2> QED
    BY <2>1 DEF MetricsInv, ScrapeInv, Ex
<1> QED
  BY <1>1, MetricsInvariant, PTL

\* Which calls update which series.
LEMMA Updates ==
  /\ \A l \in Answers : Updating(Ex(l)) = {o \in Outcomes : o.answer = l}
  /\ Updating(Fc("success")) = {Accepted, Rejected, Unparsed}
  /\ Updating(Fc("error")) = {Trapped, Exhausted}
  /\ Updating(Fe) = {Exhausted}
<1>1. /\ Range(observations(Unreached)) = {Ex("error"), Sec("error")}
      /\ Range(observations(Accepted)) =
           {Fc("success"), Mp("success"), Ex("accepted"), Sec("accepted")}
      /\ Range(observations(Rejected)) =
           {Fc("success"), Mp("success"), Ex("rejected"), Sec("rejected")}
      /\ Range(observations(Unparsed)) = {Fc("success"), Mp("success"), Ex("error"), Sec("error")}
      /\ Range(observations(Trapped)) = {Fc("error"), Mp("error"), Ex("error"), Sec("error")}
      /\ Range(observations(Exhausted)) =
           {Fc("error"), Mp("error"), Fe, Ex("error"), Sec("error")}
  <2>1. \A a, b, c, d, e :
          /\ Range(<<a, b>>) = {a, b}
          /\ Range(<<a, b, c, d>>) = {a, b, c, d}
          /\ Range(<<a, b, c, d, e>>) = {a, b, c, d, e}
    BY DEF Range
  <2>2. Range(observations(Unreached)) = {Ex("error"), Sec("error")}
    BY <2>1, ObservationsAre
  <2>3. Range(observations(Accepted)) =
          {Fc("success"), Mp("success"), Ex("accepted"), Sec("accepted")}
    BY <2>1, ObservationsAre
  <2>4. Range(observations(Rejected)) =
          {Fc("success"), Mp("success"), Ex("rejected"), Sec("rejected")}
    BY <2>1, ObservationsAre
  <2>5. Range(observations(Unparsed)) = {Fc("success"), Mp("success"), Ex("error"), Sec("error")}
    BY <2>1, ObservationsAre
  <2>6. Range(observations(Trapped)) = {Fc("error"), Mp("error"), Ex("error"), Sec("error")}
    BY <2>1, ObservationsAre
  <2>7. Range(observations(Exhausted)) = {Fc("error"), Mp("error"), Fe, Ex("error"), Sec("error")}
    BY <2>1, ObservationsAre
  <2> QED
    BY <2>2, <2>3, <2>4, <2>5, <2>6, <2>7
<1>2. /\ Unreached.answer = "error" /\ Accepted.answer = "accepted"
      /\ Rejected.answer = "rejected" /\ Unparsed.answer = "error"
      /\ Trapped.answer = "error" /\ Exhausted.answer = "error"
  BY DEF Unreached, Accepted, Rejected, Unparsed, Trapped, Exhausted
<1>3. \A s : \A o : o \in Updating(s) <=> o \in Outcomes /\ s \in Range(observations(o))
  BY DEF Updating
<1>4. \A l \in Answers : Updating(Ex(l)) = {o \in Outcomes : o.answer = l}
  <2> TAKE l \in Answers
  <2>1. ASSUME NEW o \in Outcomes
        PROVE  Ex(l) \in Range(observations(o)) <=> o.answer = l
    BY <1>1, <1>2, SeriesDiffer DEF Outcomes
  <2> QED
    BY <1>3, <2>1
<1>5. ASSUME NEW o \in Outcomes
      PROVE  /\ Fc("success") \in Range(observations(o)) <=> o \in {Accepted, Rejected, Unparsed}
             /\ Fc("error") \in Range(observations(o)) <=> o \in {Trapped, Exhausted}
             /\ Fe \in Range(observations(o)) <=> o = Exhausted
  BY <1>1, SeriesDiffer DEF Outcomes, Unreached, Accepted, Rejected, Unparsed, Trapped, Exhausted
<1>6. {Accepted, Rejected, Unparsed, Trapped, Exhausted} \subseteq Outcomes
  BY DEF Outcomes
<1> QED
  BY <1>3, <1>4, <1>5, <1>6

\* With no call in progress every call made is counted once, under its answer
\* and under how its guest ended, however the calls were interleaved
\* (observe_contract_*).
THEOREM MetricsIdleCountersAgree == Spec => []IdleCountersAgree
<1>1. MetricsInv => IdleCountersAgree
  <2> SUFFICES ASSUME MetricsInv, Idle
               PROVE  IdleCountersAgree
    BY DEF IdleCountersAgree
  <2>1. \A s \in Series : Upcoming(s) = 0 /\ Waiting(s) = 0
    <3> TAKE s \in Series
    <3>1. NextOf(<< >>) # s /\ Range(<< >>) = {}
      BY SeriesDiffer DEF NextOf, Range
    <3>2. {t \in Threads : NextOf(todo[t]) = s} = {} /\ {t \in Threads : s \in Range(todo[t])} = {}
      BY <3>1 DEF Idle
    <3> QED
      BY <3>2, FS_EmptySet DEF Upcoming, Waiting
  <2>2. \A s \in Series : count[s] \in Nat /\ count[s] = With(Updating(s))
    <3> TAKE s \in Series
    <3>1. count[s] \in Nat
      BY DEF MetricsInv, TypeOK
    <3>2. count[s] + Waiting(s) = With(Updating(s))
      BY DEF MetricsInv, AccountInv, Idle
    <3> QED
      BY <2>1, <3>1, <3>2
  <2>3. /\ \A l \in Answers : count[Ex(l)] = count[Sec(l)]
        /\ \A l \in {"success", "error"} : count[Fc(l)] = count[Mp(l)]
    BY <2>1, <2>2, SeriesDiffer DEF MetricsInv, OrderInv
  <2>4. /\ \A l : Value("executions", l) = count[Ex(l)] /\ Value("seconds", l) = count[Sec(l)]
        /\ \A l : Value("fuel_consumed", l) = count[Fc(l)] /\ Value("memory_peak", l) = count[Mp(l)]
        /\ Value("fuel_exhausted", "error") = count[Fe]
    BY DEF Value, Ex, Sec, Fc, Mp, Fe
  <2>5. LabelsOf("executions") = Answers
    BY DEF LabelsOf, Answers
  <2>6. \A l \in Answers : count[Ex(l)] = With({o \in Outcomes : o.answer = l})
    BY <2>2, Updates, SeriesDiffer, Zenon
  <2>7. /\ count[Fc("success")] = With({Accepted, Rejected, Unparsed})
        /\ count[Fc("error")] = With({Trapped, Exhausted})
        /\ count[Fe] = With({Exhausted})
    BY <2>2, Updates, SeriesDiffer, Zenon
  <2>8. /\ \A l \in LabelsOf("executions") :
             /\ Value("executions", l) = With({o \in Outcomes : o.answer = l})
             /\ Value("seconds", l) = Value("executions", l)
        /\ \A l \in {"success", "error"} : Value("fuel_consumed", l) = Value("memory_peak", l)
    BY <2>3, <2>4, <2>5, <2>6, Zenon
  <2> QED
    BY <2>4, <2>7, <2>8, Zenon DEF IdleCountersAgree
<1> QED
  BY <1>1, MetricsInvariant, PTL

=============================================================================
