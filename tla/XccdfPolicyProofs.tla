-------------------------- MODULE XccdfPolicyProofs --------------------------
(***************************************************************************)
(* Selections are exact, and rules and callbacks are reported in order and *)
(* completely: for any benchmark, profile, selectors, checks and answers.  *)
(***************************************************************************)
EXTENDS XccdfPolicy, RecursionLemmas

-----------------------------------------------------------------------------
(***************************************************************************)
(* Lists of events and results.                                            *)
(***************************************************************************)
Events == [type : {"START", "MULTI", "END"}, rule : Rules]

LEMMA AppendShape ==
  ASSUME NEW S, NEW q \in Seq(S), NEW e \in S
  PROVE  /\ Append(q, e) \in Seq(S)
         /\ Len(Append(q, e)) = Len(q) + 1 /\ Len(q) \in Nat
         /\ DOMAIN q = 1 .. Len(q) /\ DOMAIN Append(q, e) = 1 .. Len(q) + 1
         /\ Append(q, e)[Len(q) + 1] = e
         /\ \A k \in 1 .. Len(q) : Append(q, e)[k] = q[k]
         /\ Append(q, e) # <<>>
OBVIOUS

\* What may follow the events ev.
Follows(ev, e) ==
  /\ e.type = "START" => ev = <<>> \/ ev[Len(ev)].type = "END"
  /\ e.type # "START" => ev # <<>> /\ ev[Len(ev)].type # "END" /\ ev[Len(ev)].rule = e.rule

LEMMA OrderedAppend ==
  ASSUME NEW ev \in Seq(Events), NEW e \in Events, EventsOrdered(ev), Follows(ev, e)
  PROVE  EventsOrdered(Append(ev, e))
<1>1. PICK n, q : n = Len(ev) /\ q = Append(ev, e)
  OBVIOUS
<1>2. /\ n \in Nat /\ DOMAIN ev = 1 .. n /\ DOMAIN q = 1 .. n + 1 /\ q[n + 1] = e
      /\ \A k \in 1 .. n : q[k] = ev[k]
  BY <1>1, AppendShape
<1>3. ev = <<>> <=> n = 0
  BY <1>1
<1>4. ASSUME NEW k \in 1 .. n
      PROVE  /\ q[k].type = "START" => k = 1 \/ q[k - 1].type = "END"
             /\ q[k].type # "START" => k > 1 /\ q[k - 1].type # "END" /\ q[k - 1].rule = q[k].rule
  <2>1. k > 1 => k - 1 \in 1 .. n
    BY <1>2
  <2>2. /\ ev[k].type = "START" => k = 1 \/ ev[k - 1].type = "END"
        /\ ev[k].type # "START" => k > 1 /\ ev[k - 1].type # "END" /\ ev[k - 1].rule = ev[k].rule
    BY <1>2 DEF EventsOrdered
  <2>3. q[k] = ev[k] /\ (k > 1 => q[k - 1] = ev[k - 1]) /\ (k = 1 \/ k > 1)
    BY <1>2, <2>1
  <2> QED
    BY <2>2, <2>3
<1>5. /\ q[n + 1].type = "START" => n + 1 = 1 \/ q[n].type = "END"
      /\ q[n + 1].type # "START" => n + 1 > 1 /\ q[n].type # "END" /\ q[n].rule = q[n + 1].rule
  <2>1. n > 0 => n \in 1 .. n
    BY <1>2
  <2> QED
    BY <1>1, <1>2, <1>3, <2>1 DEF Follows
<1>6. \A k \in 1 .. n + 1 : k \in 1 .. n \/ (k = n + 1 /\ k - 1 = n)
  BY <1>2
<1>7. EventsOrdered(q)
  BY <1>2, <1>4, <1>5, <1>6 DEF EventsOrdered
<1> QED
  BY <1>1, <1>7

LEMMA EndsCounted ==
  ASSUME NEW ev \in Seq(Events), NEW e \in Events, NEW r
  PROVE  /\ Cardinality(EndsFor(ev, r)) \in Nat
         /\ Cardinality(EndsFor(Append(ev, e), r)) =
               Cardinality(EndsFor(ev, r)) + IF e.rule = r /\ e.type = "END" THEN 1 ELSE 0
<1>1. PICK n, q : n = Len(ev) /\ q = Append(ev, e)
  OBVIOUS
<1>2. /\ n \in Nat /\ DOMAIN ev = 1 .. n /\ DOMAIN q = 1 .. n + 1 /\ q[n + 1] = e
      /\ \A k \in 1 .. n : q[k] = ev[k]
  BY <1>1, AppendShape
<1>3. EndsFor(ev, r) \in SUBSET (1 .. n) /\ n + 1 \notin EndsFor(ev, r)
  BY <1>2 DEF EndsFor
<1>4. IsFiniteSet(EndsFor(ev, r)) /\ Cardinality(EndsFor(ev, r)) \in Nat
  <2>1. IsFiniteSet(1 .. n)
    BY <1>2, FS_Interval
  <2> QED
    BY <1>3, <2>1, FS_Subset, FS_CardinalityType
<1>5. \A k \in 1 .. n + 1 : k \in 1 .. n \/ k = n + 1
  BY <1>2
<1>6. CASE e.rule = r /\ e.type = "END"
  <2>1. EndsFor(q, r) = EndsFor(ev, r) \cup {n + 1}
    BY <1>2, <1>5, <1>6 DEF EndsFor
  <2> QED
    BY <1>1, <1>3, <1>4, <1>6, <2>1, FS_AddElement
<1>7. CASE ~(e.rule = r /\ e.type = "END")
  <2>1. EndsFor(q, r) = EndsFor(ev, r)
    BY <1>2, <1>5, <1>7 DEF EndsFor
  <2> QED
    BY <1>1, <1>4, <1>7, <2>1
<1> QED
  BY <1>4, <1>6, <1>7

LEMMA ResultsCounted ==
  ASSUME NEW S, NEW res \in Seq(S), NEW e \in S, NEW r
  PROVE  /\ Cardinality(ResultsFor(res, r)) \in Nat
         /\ Cardinality(ResultsFor(res, r)) = 0 => ResultsFor(res, r) = {}
         /\ Cardinality(ResultsFor(Append(res, e), r)) =
               Cardinality(ResultsFor(res, r)) + IF e.rule = r THEN 1 ELSE 0
<1>1. PICK n, q : n = Len(res) /\ q = Append(res, e)
  OBVIOUS
<1>2. /\ n \in Nat /\ DOMAIN res = 1 .. n /\ DOMAIN q = 1 .. n + 1 /\ q[n + 1] = e
      /\ \A k \in 1 .. n : q[k] = res[k]
  BY <1>1, AppendShape
<1>3. ResultsFor(res, r) \in SUBSET (1 .. n) /\ n + 1 \notin ResultsFor(res, r)
  BY <1>2 DEF ResultsFor
<1>4. /\ IsFiniteSet(ResultsFor(res, r)) /\ Cardinality(ResultsFor(res, r)) \in Nat
      /\ Cardinality(ResultsFor(res, r)) = 0 => ResultsFor(res, r) = {}
  <2>1. IsFiniteSet(1 .. n)
    BY <1>2, FS_Interval
  <2>2. IsFiniteSet(ResultsFor(res, r))
    BY <1>3, <2>1, FS_Subset
  <2> QED
    BY <2>2, FS_CardinalityType, FS_EmptySet
<1>5. \A k \in 1 .. n + 1 : k \in 1 .. n \/ k = n + 1
  BY <1>2
<1>6. CASE e.rule = r
  <2>1. ResultsFor(q, r) = ResultsFor(res, r) \cup {n + 1}
    BY <1>2, <1>5, <1>6 DEF ResultsFor
  <2> QED
    BY <1>1, <1>3, <1>4, <1>6, <2>1, FS_AddElement
<1>7. CASE e.rule # r
  <2>1. ResultsFor(q, r) = ResultsFor(res, r)
    BY <1>2, <1>5, <1>7 DEF ResultsFor
  <2> QED
    BY <1>1, <1>4, <1>7, <2>1
<1> QED
  BY <1>4, <1>6, <1>7

\* Rules and their places in document order.
LEMMA Places ==
  /\ Len(Order) \in Nat /\ DOMAIN Order = 1 .. Len(Order)
  /\ \A n \in 1 .. Len(Order) : Order[n] \in Rules /\ Place(Order[n]) = n
  /\ \A r \in Rules : Place(r) \in 1 .. Len(Order) /\ Order[Place(r)] = r
<1>1. PICK o : o = Order
  OBVIOUS
<1>2. /\ o \in Seq(Rules) /\ \A r \in Rules : \E n \in DOMAIN o : o[n] = r
      /\ \A m, n \in DOMAIN o : o[m] = o[n] => m = n
  BY <1>1, OrderAssumption
<1>3. Len(o) \in Nat /\ DOMAIN o = 1 .. Len(o) /\ \A n \in 1 .. Len(o) : o[n] \in Rules
  BY <1>2
<1>4. ASSUME NEW r \in Rules
      PROVE  Place(r) \in 1 .. Len(o) /\ o[Place(r)] = r
  <2>1. Place(r) = CHOOSE n \in 1 .. Len(o) : o[n] = r
    BY <1>1, <1>3 DEF Place
  <2> QED
    BY <1>2, <1>3, <2>1
<1> QED
  BY <1>1, <1>2, <1>3, <1>4
-----------------------------------------------------------------------------
(***************************************************************************)
(* Steps of the evaluation.                                                *)
(***************************************************************************)
Count(r) == Cardinality(ResultsFor(results, r))
Ends(r) == Cardinality(EndsFor(events, r))

\* What is expected of a rule depends on the policy alone.
LEMMA PolicyKept ==
  ASSUME UNCHANGED Policy
  PROVE  /\ \A r : Settled(r)' = Settled(r)
         /\ \A r : CheckOf(r)' = CheckOf(r)
         /\ \A r : Expected(r)' = Expected(r)
         /\ only' = only /\ final' = final
<1>1. only' = only /\ final' = final /\ refine' = refine
  BY DEF Policy
<1>2. \A r : CheckOf(r)' = CheckOf(r)
  BY <1>1 DEF CheckOf, ApplicableCheck
<1>3. \A r : FinalRole(r)' = FinalRole(r)
  BY <1>1 DEF FinalRole
<1>4. \A r : Settled(r)' = Settled(r)
  BY <1>1, <1>2, <1>3 DEF Settled
<1> QED
  BY <1>1, <1>2, <1>4 DEF Expected

\* The current rule, and rules that come later.
LEMMA Current ==
  ASSUME PolicyInv, phase = "evaluating"
  PROVE  /\ pos \in 1 .. Len(Order) /\ Cur \in Rules /\ Place(Cur) = pos
         /\ \A r \in Rules : Place(r) = pos => r = Cur
         /\ Count(Cur) = IF at > 0 THEN at - 1 ELSE 0
         /\ \A k \in DOMAIN results : Place(results[k].rule) <= pos
<1>1. pos \in 1 .. Len(Order)
  BY Places DEF PolicyInv, PhaseInv
<1>2. /\ Cur \in Rules /\ Place(Cur) = pos /\ \A r \in Rules : Place(r) = pos => r = Cur
      /\ \A r \in Rules : Place(r) \in Nat
  BY <1>1, Places DEF Cur
<1>3. \A r \in Rules : Count(r) = IF Place(r) < pos THEN Expected(r)
                                  ELSE IF Place(r) = pos /\ at > 0 THEN at - 1 ELSE 0
  BY DEF PolicyInv, ResultsInv, Count
<1>4. Count(Cur) = IF at > 0 THEN at - 1 ELSE 0
  BY <1>1, <1>2, <1>3
<1>5. ASSUME NEW k \in DOMAIN results
      PROVE  Place(results[k].rule) <= pos
  <2>1. results[k].rule \in Rules /\ k \in ResultsFor(results, results[k].rule)
    BY DEF PolicyInv, ResultsInv, ResultsFor
  <2>2. results \in Seq(ToSet(results)) /\ results[k] \in ToSet(results)
    BY DEF PolicyInv, ResultsInv, ToSet
  <2>3. Count(results[k].rule) # 0
    BY <2>1, <2>2, ResultsCounted DEF Count
  <2> QED
    BY <1>1, <1>2, <1>3, <2>1, <2>3
<1> QED
  BY <1>1, <1>2, <1>4, <1>5

\* A rule-result is added for the current rule.
LEMMA ResultAdded ==
  ASSUME PolicyInv, phase = "evaluating", UNCHANGED Policy, NEW res, NEW verdict,
         results' = Append(results, RuleResult(res, verdict)),
         Cur \notin final => res = NOT_SELECTED
  PROVE  /\ results' \in Seq(ToSet(results')) /\ \A k \in DOMAIN results' : results'[k].rule \in Rules
         /\ \A j, k \in DOMAIN results' : j < k => Place(results'[j].rule) <= Place(results'[k].rule)
         /\ \A k \in DOMAIN results' : results'[k].rule \notin final' => results'[k].result = NOT_SELECTED
         /\ \A r \in Rules : Count(r) \in Nat /\ Count(r)' = Count(r) + IF r = Cur THEN 1 ELSE 0
<1>1. PICK n, e, S : n = Len(results) /\ e = RuleResult(res, verdict) /\ S = ToSet(results) \cup {e}
  OBVIOUS
<1>2. e.rule = Cur /\ e.result = res
  BY <1>1 DEF RuleResult
<1>3. results \in Seq(S) /\ e \in S
  BY <1>1 DEF PolicyInv, ResultsInv
<1>4. /\ n \in Nat /\ DOMAIN results = 1 .. n /\ DOMAIN results' = 1 .. n + 1 /\ results'[n + 1] = e
      /\ \A k \in 1 .. n : results'[k] = results[k]
  BY <1>1, <1>3, AppendShape
<1>5. \A k \in 1 .. n + 1 : k \in 1 .. n \/ k = n + 1
  BY <1>4
<1>6. results' \in Seq(ToSet(results'))
  <2>1. results' \in Seq(S)
    BY <1>1, <1>3, AppendShape
  <2>2. Len(results') \in Nat /\ DOMAIN results' = 1 .. Len(results')
    BY <2>1
  <2>3. \A k \in DOMAIN results' : results'[k] \in ToSet(results')
    BY DEF ToSet
  <2> QED
    BY <2>1, <2>2, <2>3
<1>7. \A k \in DOMAIN results' : results'[k].rule \in Rules
  BY <1>2, <1>4, <1>5, Current DEF PolicyInv, ResultsInv
<1>8. ASSUME NEW j \in DOMAIN results', NEW k \in DOMAIN results', j < k
      PROVE  Place(results'[j].rule) <= Place(results'[k].rule)
  <2>1. j \in 1 .. n
    BY <1>4, <1>5, <1>8
  <2>2. CASE k \in 1 .. n
    BY <1>4, <1>8, <2>1, <2>2 DEF PolicyInv, ResultsInv
  <2>3. CASE k = n + 1
    BY <1>2, <1>4, <2>1, <2>3, Current
  <2> QED
    BY <1>4, <1>5, <2>2, <2>3
<1>9. \A k \in DOMAIN results' : results'[k].rule \notin final' => results'[k].result = NOT_SELECTED
  BY <1>2, <1>4, <1>5, PolicyKept DEF PolicyInv, ResultsInv
<1>10. \A r \in Rules : Count(r) \in Nat /\ Count(r)' = Count(r) + IF r = Cur THEN 1 ELSE 0
  BY <1>1, <1>2, <1>3, ResultsCounted DEF Count
<1> QED
  BY <1>6, <1>7, <1>8, <1>9, <1>10

\* The evaluation goes on with the next rule.
LEMMA Advance ==
  ASSUME PolicyInv, phase = "evaluating", UNCHANGED Policy, NextRule,
         \A r \in Rules : Count(r) \in Nat /\ Count(r)' = Count(r) + IF r = Cur THEN 1 ELSE 0,
         Count(Cur) + 1 = Expected(Cur)
  PROVE  /\ PhaseInv' /\ RuleInv' /\ at' = 0
         /\ \A r \in Rules : Count(r)' = IF Place(r) < pos' THEN Expected(r)'
                                         ELSE IF Place(r) = pos' /\ at' > 0 THEN at' - 1 ELSE 0
<1>1. pos' = pos + 1 /\ at' = 0 /\ phase' = PhaseAt(pos + 1, only) /\ pos \in Nat \ {0}
  BY DEF NextRule, PolicyInv, PhaseInv
<1>2. PhaseInv'
  BY <1>1, Places DEF PhaseInv, PhaseAt
<1>3. RuleInv'
  BY <1>1 DEF RuleInv
<1>4. ASSUME NEW r \in Rules
      PROVE  Count(r)' = IF Place(r) < pos' THEN Expected(r)'
                         ELSE IF Place(r) = pos' /\ at' > 0 THEN at' - 1 ELSE 0
  <2>1. Count(r) = IF Place(r) < pos THEN Expected(r) ELSE IF Place(r) = pos /\ at > 0 THEN at - 1 ELSE 0
    BY DEF PolicyInv, ResultsInv, Count
  <2>2. Expected(r)' = Expected(r) /\ Place(r) \in Nat
    BY PolicyKept, Places
  <2>3. CASE r = Cur
    BY <1>1, <2>2, <2>3, Current
  <2>4. CASE r # Cur
    BY <1>1, <2>1, <2>2, <2>4, Current
  <2> QED
    BY <2>3, <2>4
<1> QED
  BY <1>1, <1>2, <1>3, <1>4

\* A callback is told something about the current rule.
LEMMA EventAdded ==
  ASSUME PolicyInv, phase = "evaluating", NEW ev \in Seq(Events), EventsOrdered(ev),
         NEW type \in {"START", "MULTI", "END"}, Follows(ev, Event(type))
  PROVE  LET q == Append(ev, Event(type))
         IN  /\ q \in Seq(Events) /\ EventsOrdered(q)
             /\ q # <<>> /\ q[Len(q)] = Event(type)
             /\ Event(type).type = type /\ Event(type).rule = Cur
             /\ \A r : /\ Cardinality(EndsFor(ev, r)) \in Nat
                       /\ Cardinality(EndsFor(q, r)) = Cardinality(EndsFor(ev, r))
                                                     + IF r = Cur /\ type = "END" THEN 1 ELSE 0
<1>1. Event(type) \in Events /\ Event(type).type = type /\ Event(type).rule = Cur
  BY Current DEF Event, Events
<1> QED
  BY <1>1, AppendShape, OrderedAppend, EndsCounted

\* The evaluation ends early.
LEMMA Halted ==
  ASSUME PolicyInv, phase' \in {"stopped", "error"}, UNCHANGED <<pos, at>>
  PROVE  PhaseInv' /\ RuleInv'
BY DEF PolicyInv, PhaseInv, RuleInv

LEMMA EndStep ==
  ASSUME PolicyInv, phase = "evaluating", UNCHANGED Policy, NEW res, NEW verdict, End(res, verdict),
         Cur \notin final => res = NOT_SELECTED, Expected(Cur) = 1,
         at = 1 \/ (at = 0 /\ only \notin {"any", Cur})
  PROVE  PolicyInv'
<1>1. /\ events \in Seq(Events) /\ EventsOrdered(events)
      /\ \A r \in Rules : Ends(r) = IF only \in {"any", r} THEN Count(r) ELSE 0
      /\ pos \in Nat \ {0}
  BY DEF PolicyInv, EventsInv, ResultsInv, PhaseInv, Events, Ends, Count
<1>2. CASE res = -1
  <2>1. phase' = "error" /\ UNCHANGED <<pos, at, results, events>>
    BY <1>2 DEF End
  <2> QED
    BY <2>1, Halted, PolicyKept DEF PolicyInv, EventsInv, ResultsInv
<1>3. CASE res # -1
  <2>1. /\ results' = Append(results, RuleResult(res, verdict))
        /\ IF Reported THEN events' = Append(events, Event("END")) /\ (NextRule \/ Stop)
           ELSE events' = events /\ NextRule
    BY <1>3 DEF End
  <2>2. /\ results' \in Seq(ToSet(results')) /\ \A k \in DOMAIN results' : results'[k].rule \in Rules
        /\ \A j, k \in DOMAIN results' : j < k => Place(results'[j].rule) <= Place(results'[k].rule)
        /\ \A k \in DOMAIN results' : results'[k].rule \notin final' => results'[k].result = NOT_SELECTED
        /\ \A r \in Rules : Count(r) \in Nat /\ Count(r)' = Count(r) + IF r = Cur THEN 1 ELSE 0
    BY <2>1, ResultAdded
  <2>3. Count(Cur) + 1 = Expected(Cur) /\ Cur \in Rules
    BY Current
  <2>4. only' = only
    BY PolicyKept
  <2>5. /\ events' \in Seq(Events) /\ EventsOrdered(events')
        /\ \A r \in Rules : Ends(r)' = IF only' \in {"any", r} THEN Count(r)' ELSE 0
        /\ events' = <<>> \/ events'[Len(events')].type = "END"
    <3>1. CASE Reported
      <4>1. only \in {"any", Cur} /\ at = 1
        BY <3>1 DEF Reported
      <4>2. events # <<>> /\ events[Len(events)] = Event("START")
        BY <4>1 DEF PolicyInv, EventsInv
      <4>3. Follows(events, Event("END"))
        BY <4>2 DEF Follows, Event
      <4>4. /\ events' \in Seq(Events) /\ EventsOrdered(events')
            /\ events'[Len(events')].type = "END"
            /\ \A r : Ends(r) \in Nat /\ Ends(r)' = Ends(r) + IF r = Cur THEN 1 ELSE 0
        BY <1>1, <2>1, <3>1, <4>3, EventAdded DEF Ends
      <4>5. ASSUME NEW r \in Rules
            PROVE  Ends(r)' = IF only' \in {"any", r} THEN Count(r)' ELSE 0
        BY <1>1, <2>2, <2>4, <4>1, <4>4
      <4> QED
        BY <4>4, <4>5
    <3>2. CASE ~Reported
      <4>1. events' = events /\ only \notin {"any", Cur}
        BY <2>1, <3>2 DEF Reported
      <4>2. at = 0
        BY <4>1 DEF PolicyInv, RuleInv
      <4>3. \A r : Ends(r)' = Ends(r)
        BY <4>1 DEF Ends
      <4>4. ASSUME NEW r \in Rules
            PROVE  Ends(r)' = IF only' \in {"any", r} THEN Count(r)' ELSE 0
        BY <1>1, <2>2, <2>4, <4>1, <4>3
      <4> QED
        BY <1>1, <4>1, <4>2, <4>4 DEF PolicyInv, EventsInv
    <3> QED
      BY <3>1, <3>2
  <2>6. CASE NextRule
    <3>1. /\ PhaseInv' /\ RuleInv' /\ at' = 0
          /\ \A r \in Rules : Count(r)' = IF Place(r) < pos' THEN Expected(r)'
                                          ELSE IF Place(r) = pos' /\ at' > 0 THEN at' - 1 ELSE 0
      BY <2>2, <2>3, <2>6, Advance
    <3>2. EventsInv'
      BY <2>5, <3>1 DEF EventsInv, Events
    <3>3. ResultsInv'
      BY <2>2, <2>5, <3>1 DEF ResultsInv, Count, Ends
    <3> QED
      BY <3>1, <3>2, <3>3 DEF PolicyInv
  <2>7. CASE Stop
    <3>1. phase' \in {"stopped", "error"} /\ UNCHANGED <<pos, at>>
      BY <2>7 DEF Stop
    <3>2. EventsInv'
      BY <2>5, <3>1 DEF EventsInv, Events
    <3>3. ResultsInv'
      BY <2>2, <2>5, <3>1 DEF ResultsInv, Count, Ends
    <3> QED
      BY <3>1, <3>2, <3>3, Halted DEF PolicyInv
  <2> QED
    BY <2>1, <2>6, <2>7
<1> QED
  BY <1>2, <1>3

LEMMA StartStep ==
  ASSUME PolicyInv, Start
  PROVE  PolicyInv'
<1>1. /\ phase = "evaluating" /\ at = 0 /\ only \in {"any", Cur} /\ UNCHANGED Policy /\ results' = results
      /\ events' = Append(events, Event("START"))
      /\ \/ at' = 1 /\ UNCHANGED <<phase, pos>>
         \/ Stop
  BY DEF Start, Evaluating
<1>2. /\ events \in Seq(Events) /\ EventsOrdered(events)
      /\ \A r \in Rules : Ends(r) = IF only \in {"any", r} THEN Count(r) ELSE 0
      /\ events = <<>> \/ events[Len(events)].type = "END"
  BY <1>1 DEF PolicyInv, EventsInv, ResultsInv, Events, Ends, Count
<1>3. Follows(events, Event("START"))
  BY <1>2 DEF Follows, Event
<1>4. /\ events' \in Seq(Events) /\ EventsOrdered(events')
      /\ events' # <<>> /\ events'[Len(events')] = Event("START")
      /\ \A r : Ends(r) \in Nat /\ Ends(r)' = Ends(r)
  BY <1>1, <1>2, <1>3, EventAdded DEF Ends
<1>5. \A r : Count(r)' = Count(r) /\ Expected(r)' = Expected(r)
  BY <1>1, PolicyKept DEF Count
<1>6. /\ results' \in Seq(ToSet(results')) /\ \A k \in DOMAIN results' : results'[k].rule \in Rules
      /\ \A j, k \in DOMAIN results' : j < k => Place(results'[j].rule) <= Place(results'[k].rule)
      /\ \A k \in DOMAIN results' : results'[k].rule \notin final' => results'[k].result = NOT_SELECTED
      /\ \A r \in Rules : Ends(r)' = IF only' \in {"any", r} THEN Count(r)' ELSE 0
  BY <1>1, <1>2, <1>4, <1>5, PolicyKept DEF PolicyInv, ResultsInv
<1>7. CASE at' = 1 /\ UNCHANGED <<phase, pos>>
  <2>1. PhaseInv'
    BY <1>1, <1>7 DEF PolicyInv, PhaseInv
  <2>2. Cur' = Cur /\ only' = only
    BY <1>1, <1>7, PolicyKept DEF Cur
  <2>3. EventsInv'
    BY <1>4, <1>7, <2>2 DEF EventsInv, Events, Event
  <2>4. RuleInv'
    BY <1>1, <1>7, <2>2 DEF RuleInv
  <2>5. \A r \in Rules : Count(r)' = IF Place(r) < pos' THEN Expected(r)'
                                     ELSE IF Place(r) = pos' /\ at' > 0 THEN at' - 1 ELSE 0
    BY <1>1, <1>5, <1>7 DEF PolicyInv, ResultsInv, Count
  <2>6. ResultsInv'
    BY <1>6, <2>5 DEF ResultsInv, Count, Ends
  <2> QED
    BY <2>1, <2>3, <2>4, <2>6 DEF PolicyInv
<1>8. CASE Stop
  <2>1. phase' \in {"stopped", "error"} /\ UNCHANGED <<pos, at>>
    BY <1>8 DEF Stop
  <2>2. EventsInv'
    BY <1>4, <2>1 DEF EventsInv, Events
  <2>3. ResultsInv'
    BY <1>6, <2>1 DEF ResultsInv, Count, Ends
  <2> QED
    BY <2>1, <2>2, <2>3, Halted DEF PolicyInv
<1> QED
  BY <1>1, <1>7, <1>8


LEMMA MultiStep ==
  ASSUME PolicyInv, Multi
  PROVE  PolicyInv'
<1> DEFINE check == CheckOf(Cur)
           asked == Append(events, Event("MULTI"))
           ended == Append(asked, Event("END"))
           again == Append(ended, Event("START"))
<1>1. /\ phase = "evaluating" /\ at >= 1 /\ Settled(Cur) = 0 /\ UNCHANGED Policy /\ check.kind = "multi"
      /\ \/ events' = asked /\ Stop /\ results' = results
         \/ phase' = "error" /\ events' = asked /\ UNCHANGED <<pos, at, results>>
         \/ \E ret :
              /\ results' = Append(results, RuleResult(ret, "none"))
              /\ \/ events' = ended /\ Stop
                 \/ at = check.definitions /\ events' = ended /\ NextRule
                 \/ events' = again /\ Stop
                 \/ at < check.definitions /\ events' = again /\ at' = at + 1 /\ UNCHANGED <<phase, pos>>
  BY DEF Multi
<1>2. /\ events \in Seq(Events) /\ EventsOrdered(events)
      /\ \A r \in Rules : Ends(r) = IF only \in {"any", r} THEN Count(r) ELSE 0
      /\ events # <<>> /\ events[Len(events)] = Event("START")
      /\ at \in Nat /\ pos \in Nat \ {0} /\ only \in {"any", Cur}
  BY <1>1 DEF PolicyInv, EventsInv, ResultsInv, PhaseInv, RuleInv, Events, Ends, Count
<1>3. Cur \in Rules /\ Count(Cur) = at - 1 /\ Expected(Cur) = check.definitions
  BY <1>1, <1>2, Current DEF Expected
<1>4. only' = only /\ final' = final
  BY <1>1, PolicyKept
<1>5. /\ asked \in Seq(Events) /\ EventsOrdered(asked) /\ asked # <<>> /\ asked[Len(asked)] = Event("MULTI")
      /\ \A r : Ends(r) \in Nat /\ Cardinality(EndsFor(asked, r)) = Ends(r)
  <2>1. Follows(events, Event("MULTI"))
    BY <1>2 DEF Follows, Event
  <2> QED
    BY <1>1, <1>2, <2>1, EventAdded DEF Ends
<1>6. /\ ended \in Seq(Events) /\ EventsOrdered(ended) /\ ended # <<>> /\ ended[Len(ended)] = Event("END")
      /\ \A r : Cardinality(EndsFor(ended, r)) = Ends(r) + IF r = Cur THEN 1 ELSE 0
  <2>1. Follows(asked, Event("END"))
    BY <1>5 DEF Follows, Event
  <2> HIDE DEF asked
  <2> QED
    BY <1>1, <1>5, <2>1, EventAdded
<1>7. /\ again \in Seq(Events) /\ EventsOrdered(again) /\ again # <<>> /\ again[Len(again)] = Event("START")
      /\ \A r : Cardinality(EndsFor(again, r)) = Ends(r) + IF r = Cur THEN 1 ELSE 0
  <2>1. Follows(ended, Event("START"))
    BY <1>6 DEF Follows, Event
  <2>2. \A r : Cardinality(EndsFor(ended, r)) \in Nat
    BY <1>5, <1>6
  <2> HIDE DEF ended
  <2> QED
    BY <1>1, <1>6, <2>1, <2>2, EventAdded
<1> HIDE DEF check, asked, ended, again
<1>8. ASSUME results' = results, events' = asked, phase' \in {"stopped", "error"}, UNCHANGED <<pos, at>>
      PROVE  PolicyInv'
  <2>1. \A r : Ends(r)' = Ends(r) /\ Count(r)' = Count(r)
    BY <1>5, <1>8 DEF Ends, Count
  <2>2. EventsInv'
    BY <1>5, <1>8 DEF EventsInv, Events
  <2>3. ResultsInv'
    BY <1>2, <1>4, <1>8, <2>1 DEF PolicyInv, ResultsInv, Count, Ends
  <2> QED
    BY <1>8, <2>2, <2>3, Halted DEF PolicyInv
<1>9. ASSUME NEW ret, results' = Append(results, RuleResult(ret, "none")), events' \in {ended, again}
      PROVE  /\ results' \in Seq(ToSet(results')) /\ \A k \in DOMAIN results' : results'[k].rule \in Rules
             /\ \A j, k \in DOMAIN results' : j < k => Place(results'[j].rule) <= Place(results'[k].rule)
             /\ \A k \in DOMAIN results' : results'[k].rule \notin final' => results'[k].result = NOT_SELECTED
             /\ \A r \in Rules : Count(r) \in Nat /\ Count(r)' = Count(r) + IF r = Cur THEN 1 ELSE 0
             /\ \A r \in Rules : Ends(r)' = IF only' \in {"any", r} THEN Count(r)' ELSE 0
             /\ events' \in Seq(Events) /\ EventsOrdered(events')
  <2>1. Cur \in final
    BY <1>1 DEF Settled, NOT_SELECTED
  <2>2. /\ results' \in Seq(ToSet(results')) /\ \A k \in DOMAIN results' : results'[k].rule \in Rules
        /\ \A j, k \in DOMAIN results' : j < k => Place(results'[j].rule) <= Place(results'[k].rule)
        /\ \A k \in DOMAIN results' : results'[k].rule \notin final' => results'[k].result = NOT_SELECTED
        /\ \A r \in Rules : Count(r) \in Nat /\ Count(r)' = Count(r) + IF r = Cur THEN 1 ELSE 0
    BY <1>1, <1>9, <2>1, ResultAdded
  <2>3. \A r : Ends(r)' = Ends(r) + IF r = Cur THEN 1 ELSE 0
    BY <1>6, <1>7, <1>9 DEF Ends
  <2>4. ASSUME NEW r \in Rules
        PROVE  Ends(r)' = IF only' \in {"any", r} THEN Count(r)' ELSE 0
    BY <1>2, <1>4, <1>5, <2>2, <2>3
  <2> QED
    BY <1>6, <1>7, <1>9, <2>2, <2>4
<1>10. ASSUME NEW ret, results' = Append(results, RuleResult(ret, "none")), events' \in {ended, again}, Stop
       PROVE  PolicyInv'
  <2>1. phase' \in {"stopped", "error"} /\ UNCHANGED <<pos, at>>
    BY <1>10 DEF Stop
  <2>2. EventsInv'
    BY <1>9, <1>10, <2>1 DEF EventsInv, Events
  <2>3. ResultsInv'
    BY <1>9, <1>10, <2>1 DEF ResultsInv, Count, Ends
  <2> QED
    BY <2>1, <2>2, <2>3, Halted DEF PolicyInv
<1>11. ASSUME NEW ret, results' = Append(results, RuleResult(ret, "none")), events' = ended,
              at = check.definitions, NextRule
       PROVE  PolicyInv'
  <2>1. /\ PhaseInv' /\ RuleInv' /\ at' = 0
        /\ \A r \in Rules : Count(r)' = IF Place(r) < pos' THEN Expected(r)'
                                        ELSE IF Place(r) = pos' /\ at' > 0 THEN at' - 1 ELSE 0
    BY <1>1, <1>2, <1>3, <1>9, <1>11, Advance
  <2>2. /\ events'[Len(events')].type = "END"
        /\ events' \in Seq(Events) /\ EventsOrdered(events')
    BY <1>6, <1>11 DEF Event
  <2>3. EventsInv'
    BY <2>1, <2>2 DEF EventsInv, Events
  <2>4. ResultsInv'
    BY <1>9, <1>11, <2>1 DEF ResultsInv, Count, Ends
  <2> QED
    BY <2>1, <2>3, <2>4 DEF PolicyInv
<1>12. ASSUME NEW ret, results' = Append(results, RuleResult(ret, "none")), events' = again,
              at' = at + 1, UNCHANGED <<phase, pos>>
       PROVE  PolicyInv'
  <2>1. Cur' = Cur /\ Event("START")' = Event("START")
    BY <1>12 DEF Cur, Event
  <2>2. Settled(Cur)' = Settled(Cur) /\ CheckOf(Cur)' = CheckOf(Cur)
    BY <1>1, <2>1, PolicyKept
  <2>3. PhaseInv'
    BY <1>1, <1>2, <1>12 DEF PolicyInv, PhaseInv
  <2>4. RuleInv'
    BY <1>1, <1>2, <1>4, <2>1, <2>2 DEF RuleInv, check
  <2>5. EventsInv'
    BY <1>1, <1>2, <1>7, <1>9, <1>12, <2>1 DEF EventsInv, Events
  <2>6. ASSUME NEW r \in Rules
        PROVE  Count(r)' = IF Place(r) < pos' THEN Expected(r)'
                           ELSE IF Place(r) = pos' /\ at' > 0 THEN at' - 1 ELSE 0
    <3>1. Count(r)' = Count(r) + IF r = Cur THEN 1 ELSE 0
      BY <1>9, <1>12
    <3>2. /\ Count(r) = IF Place(r) < pos THEN Expected(r) ELSE IF Place(r) = pos /\ at > 0 THEN at - 1 ELSE 0
          /\ Count(r) \in Nat
      BY <1>1, <1>9, <1>12 DEF PolicyInv, ResultsInv, Count
    <3>3. Expected(r)' = Expected(r) /\ Place(r) \in Nat /\ (r = Cur <=> Place(r) = pos)
      BY <1>1, PolicyKept, Places, Current
    <3> QED
      BY <1>1, <1>2, <1>12, <3>1, <3>2, <3>3
  <2>7. ResultsInv'
    BY <1>9, <1>12, <2>6 DEF ResultsInv, Count, Ends
  <2> QED
    BY <2>3, <2>4, <2>5, <2>7 DEF PolicyInv
<1> QED
  <2>1. CASE events' = asked /\ Stop /\ results' = results
    BY <1>8, <2>1 DEF Stop
  <2>2. CASE phase' = "error" /\ events' = asked /\ UNCHANGED <<pos, at, results>>
    BY <1>8, <2>2
  <2> QED
    BY <1>1, <1>10, <1>11, <1>12, <2>1, <2>2

\* Selecting, and the start of an evaluation.
LEMMA SelectingStep ==
  ASSUME PolicyInv, New \/ AddSelect \/ Evaluate
  PROVE  PolicyInv'
<1>1. /\ phase \in {"new", "ready"} /\ UNCHANGED <<pos, at, results, events>>
      /\ phase' = "ready" \/ \E o : phase' = PhaseAt(pos, o)
  BY DEF New, AddSelect, Evaluate
<1>2. pos = 1 /\ at = 0 /\ results = <<>> /\ events = <<>>
  BY <1>1 DEF PolicyInv, PhaseInv
<1>3. PhaseInv'
  BY <1>1, <1>2, Places DEF PhaseInv, PhaseAt
<1>4. EventsInv' /\ RuleInv'
  BY <1>1, <1>2 DEF PolicyInv, EventsInv, RuleInv, EventsOrdered
<1>5. \A r : ResultsFor(results', r) = {} /\ EndsFor(events', r) = {}
  BY <1>1, <1>2 DEF ResultsFor, EndsFor
<1>6. \A r : Cardinality(ResultsFor(results', r)) = 0 /\ Cardinality(EndsFor(events', r)) = 0
  BY <1>5, FS_EmptySet
<1>7. ResultsInv'
  <2>1. \A r \in Rules : Place(r) >= 1 /\ Place(r) \in Nat
    BY Places
  <2>2. results' = <<>> /\ pos' = 1 /\ at' = 0
    BY <1>1, <1>2
  <2> QED
    BY <1>6, <2>1, <2>2 DEF ResultsInv
<1> QED
  BY <1>3, <1>4, <1>7 DEF PolicyInv

LEMMA PolicyStep ==
  ASSUME PolicyInv, [Next]_vars
  PROVE  PolicyInv'
<1>1. CASE New \/ AddSelect \/ Evaluate
  BY <1>1, SelectingStep
<1>2. CASE Skip
  <2>1. /\ phase = "evaluating" /\ at = 0 /\ only \notin {"any", Cur} /\ UNCHANGED Policy
        /\ End(NOT_SELECTED, "none")
    BY <1>2 DEF Skip, Evaluating
  <2>2. Expected(Cur) = 1
    BY <2>1 DEF Expected
  <2> QED
    BY <2>1, <2>2, EndStep
<1>3. CASE Start
  BY <1>3, StartStep
<1>4. CASE Settle
  <2>1. /\ phase = "evaluating" /\ at = 1 /\ Settled(Cur) # 0 /\ UNCHANGED Policy
        /\ End(Settled(Cur), "none")
    BY <1>4 DEF Settle, Evaluating
  <2>2. Expected(Cur) = 1
    BY <2>1 DEF Expected
  <2>3. Cur \notin final => Settled(Cur) = NOT_SELECTED
    BY DEF Settled
  <2> QED
    BY <2>1, <2>2, <2>3, EndStep
<1>5. CASE Complex \/ Simple
  <2>1. /\ phase = "evaluating" /\ at = 1 /\ Settled(Cur) = 0 /\ UNCHANGED Policy
        /\ CheckOf(Cur).kind \in {"complex", "simple"}
        /\ \E res, verdict : End(res, verdict)
    BY <1>5 DEF Complex, Simple, Evaluating
  <2>2. Expected(Cur) = 1
    BY <2>1 DEF Expected
  <2>3. Cur \in final
    BY <2>1 DEF Settled, NOT_SELECTED
  <2> QED
    BY <2>1, <2>2, <2>3, EndStep
<1>6. CASE Multi
  BY <1>6, MultiStep
<1>7. CASE UNCHANGED vars
  <2>1. UNCHANGED Policy /\ UNCHANGED <<phase, pos, at, results, events>>
    BY <1>7 DEF vars, Policy
  <2>2. Cur' = Cur
    BY <2>1 DEF Cur
  <2>3. PhaseInv' /\ EventsInv'
    BY <2>1, <2>2 DEF PolicyInv, PhaseInv, EventsInv, Event
  <2>4. RuleInv' /\ ResultsInv'
    BY <2>1, <2>2, PolicyKept DEF PolicyInv, RuleInv, ResultsInv
  <2> QED
    BY <2>3, <2>4 DEF PolicyInv
<1> QED
  BY <1>1, <1>2, <1>3, <1>4, <1>5, <1>6, <1>7 DEF Next

LEMMA PolicyInit ==
  ASSUME Init
  PROVE  PolicyInv
<1>1. phase = "new" /\ pos = 1 /\ at = 0 /\ results = <<>> /\ events = <<>>
  BY DEF Init
<1>2. PhaseInv /\ EventsInv /\ RuleInv
  BY <1>1 DEF PhaseInv, EventsInv, RuleInv, EventsOrdered
<1>3. \A r : ResultsFor(results, r) = {} /\ EndsFor(events, r) = {}
  BY <1>1 DEF ResultsFor, EndsFor
<1>4. \A r : Cardinality(ResultsFor(results, r)) = 0 /\ Cardinality(EndsFor(events, r)) = 0
  BY <1>3, FS_EmptySet
<1>5. ResultsInv
  BY <1>1, <1>4 DEF ResultsInv
<1> QED
  BY <1>2, <1>5 DEF PolicyInv

\* The inductive invariant of the evaluation: what was reported and recorded
\* is what the place in the benchmark says (xccdf_policy_evaluate,
\* _xccdf_policy_rule_evaluate).
THEOREM PolicyInvariance == Spec => []PolicyInv
BY PolicyInit, PolicyStep, PTL DEF Spec

\* Starts and ends of rules come to the callbacks in pairs; a finished
\* evaluation has the expected results of every rule, in document order, each
\* reported once (_xccdf_policy_report_rule_result).
THEOREM RulesAreReported == Spec => []RulesReported
<1>1. PolicyInv => RulesReported
  <2> SUFFICES ASSUME PolicyInv
               PROVE  RulesReported
    OBVIOUS
  <2>1. EventsOrdered(events)
    BY DEF PolicyInv, EventsInv
  <2>2. ASSUME phase = "done"
        PROVE  \A r \in Rules : Place(r) < pos
    BY <2>2, Places DEF PolicyInv, PhaseInv
  <2>3. \A r \in Rules : r \notin final => \A k \in ResultsFor(results, r) : results[k].result = NOT_SELECTED
    BY DEF PolicyInv, ResultsInv, ResultsFor
  <2> QED
    BY <2>1, <2>2, <2>3 DEF RulesReported, PolicyInv, ResultsInv
<1> QED
  BY <1>1, PolicyInvariance, PTL


-----------------------------------------------------------------------------
(***************************************************************************)
(* The tree of items.                                                      *)
(***************************************************************************)
LEMMA HolderIn ==
  ASSUME NEW i \in Items
  PROVE  /\ Holder(i) = "benchmark" \/ (Holder(i) \in Items /\ Holder(i) # "benchmark")
         /\ i \in ToSet(Content[Holder(i)])
<1>1. \E g \in Groups \cup {"benchmark"} : i \in ToSet(Content[g])
  BY TreeAssumption
<1>2. Holder(i) \in Groups \cup {"benchmark"} /\ i \in ToSet(Content[Holder(i)])
  BY <1>1 DEF Holder
<1> QED
  BY <1>2, TreeAssumption DEF Items

\* Induction from the top of the benchmark down.
LEMMA TreeInduction ==
  ASSUME NEW T \in SUBSET Items,
         \A i \in Items : Holder(i) = "benchmark" \/ Holder(i) \in T => i \in T
  PROVE  T = Items
<1>1. PICK level \in [Items -> 1 .. Cardinality(Items)] :
         \A i \in Items : Holder(i) # "benchmark" => level[Holder(i)] < level[i]
  BY TreeAssumption
<1>2. Cardinality(Items) \in Nat
  BY TreeAssumption, FS_CardinalityType
<1>3. \A i \in Items : level[i] \in Nat
  BY <1>1, <1>2
<1>4. SUFFICES ASSUME T # Items
               PROVE  FALSE
  OBVIOUS
<1>5. PICK U : U = {level[i] : i \in Items \ T}
  OBVIOUS
<1>6. U \in SUBSET Nat /\ U # {}
  BY <1>3, <1>4, <1>5
<1>7. PICK n \in U : \A m \in U : n <= m
  BY <1>6, LeastNatural
<1>8. PICK i \in Items \ T : n = level[i]
  BY <1>5, <1>7
<1>9. Holder(i) # "benchmark" /\ Holder(i) \in Items \ T
  BY <1>8, HolderIn
<1>10. level[Holder(i)] < level[i] /\ level[Holder(i)] \in U
  BY <1>1, <1>5, <1>8, <1>9
<1> QED
  BY <1>3, <1>7, <1>8, <1>9, <1>10

LEMMA PathDef ==
  \A i \in Items : Path[i] = {i} \cup IF Holder(i) = "benchmark" THEN {} ELSE Path[Holder(i)]
<1> DEFINE Closed(C) == \A z \in C : Holder(z) # "benchmark" => Holder(z) \in C
           W(x) == {y \in Items : \A C \in SUBSET Items : x \in C /\ Closed(C) => y \in C}
<1>1. ASSUME NEW i \in Items
      PROVE  W(i) = {i} \cup IF Holder(i) = "benchmark" THEN {} ELSE W(Holder(i))
  <2>1. i \in W(i)
    OBVIOUS
  <2>2. CASE Holder(i) = "benchmark"
    <3>1. {i} \in SUBSET Items /\ Closed({i})
      BY <2>2
    <3> QED
      BY <2>1, <2>2, <3>1
  <2>3. CASE Holder(i) # "benchmark"
    <3>1. Holder(i) \in Items
      BY <2>3, HolderIn
    <3>2. W(Holder(i)) \subseteq W(i)
      BY <2>3
    <3>3. PICK C : C = {i} \cup W(Holder(i))
      OBVIOUS
    <3>4. Closed(C)
      <4>1. Holder(i) \in W(Holder(i))
        BY <3>1
      <4>2. ASSUME NEW z \in W(Holder(i)), Holder(z) # "benchmark"
            PROVE  Holder(z) \in W(Holder(i))
        BY <4>2, HolderIn
      <4> HIDE DEF W
      <4> QED
        BY <3>3, <4>1, <4>2
    <3>5. C \in SUBSET Items /\ i \in C
      BY <3>3
    <3>6. W(i) \subseteq C
      BY <3>4, <3>5
    <3> QED
      BY <2>1, <2>3, <3>2, <3>3, <3>6
  <2> QED
    BY <2>2, <2>3
<1> HIDE DEF W
<1>2. PICK p : p = [i \in Items |-> W(i)]
  OBVIOUS
<1>3. p = [i \in Items |-> {i} \cup IF Holder(i) = "benchmark" THEN {} ELSE p[Holder(i)]]
  BY <1>1, <1>2, HolderIn
<1>4. Path = [i \in Items |-> {i} \cup IF Holder(i) = "benchmark" THEN {} ELSE Path[Holder(i)]]
  BY <1>3 DEF Path
<1> QED
  BY <1>4

\* The groups an item is in are above it, and its path goes on with theirs.
LEMMA PathFacts ==
  ASSUME NEW x \in Items
  PROVE  /\ x \in Path[x] /\ Path[x] \subseteq Items
         /\ Holder(x) # "benchmark" => x \notin Path[Holder(x)] /\ Path[Holder(x)] \subseteq Path[x]
         /\ \A g \in Path[x] : Path[g] \subseteq Path[x]
         /\ \A g \in Path[x] : x \in Path[g] => g = x
<1>1. PICK level \in [Items -> 1 .. Cardinality(Items)] :
         \A i \in Items : Holder(i) # "benchmark" => level[Holder(i)] < level[i]
  BY TreeAssumption
<1>2. Cardinality(Items) \in Nat
  BY TreeAssumption, FS_CardinalityType
<1>3. \A i \in Items : level[i] \in Nat
  BY <1>1, <1>2
<1> DEFINE Good(i) == /\ i \in Path[i] /\ Path[i] \subseteq Items
                      /\ \A g \in Path[i] : g = i \/ level[g] < level[i]
                      /\ \A g \in Path[i] : Path[g] \subseteq Path[i]
           T == {i \in Items : Good(i)}
<1>4. ASSUME NEW i \in Items, Holder(i) = "benchmark" \/ Holder(i) \in T
      PROVE  i \in T
  <2>1. CASE Holder(i) = "benchmark"
    BY <2>1, PathDef
  <2>2. CASE Holder(i) # "benchmark"
    <3>1. Path[i] = {i} \cup Path[Holder(i)] /\ level[Holder(i)] < level[i] /\ Good(Holder(i)) /\ Holder(i) \in Items
      BY <1>1, <1>4, <2>2, PathDef
    <3>2. i \in Path[i] /\ Path[i] \subseteq Items
      BY <3>1
    <3>3. \A g \in Path[i] : g = i \/ level[g] < level[i]
      BY <1>3, <3>1
    <3>4. \A g \in Path[i] : Path[g] \subseteq Path[i]
      BY <3>1
    <3> QED
      BY <3>2, <3>3, <3>4
  <2> QED
    BY <2>1, <2>2
<1>5. T = Items
  <2>1. T \in SUBSET Items
    OBVIOUS
  <2> HIDE DEF T
  <2> QED
    BY <1>4, <2>1, TreeInduction
<1>6. Good(x)
  BY <1>5
<1>7. ASSUME Holder(x) # "benchmark"
      PROVE  x \notin Path[Holder(x)] /\ Path[Holder(x)] \subseteq Path[x]
  <2>1. Holder(x) \in Items /\ Good(Holder(x)) /\ level[Holder(x)] < level[x]
    BY <1>1, <1>5, <1>7, HolderIn
  <2> QED
    BY <1>3, <1>7, <2>1, PathDef
<1>8. ASSUME NEW g \in Path[x], x \in Path[g]
      PROVE  g = x
  BY <1>3, <1>5, <1>6, <1>8
<1> QED
  BY <1>6, <1>7, <1>8

\* What is above an item x and not within the group i is above i.
LEMMA PathChain ==
  ASSUME NEW i \in Items, NEW x \in Items, i \in Path[x], NEW g \in Path[x], i \notin Path[g]
  PROVE  Holder(i) # "benchmark" /\ g \in Path[Holder(i)]
<1> DEFINE Good(y) == \A h \in Path[y] : i \in Path[y] /\ i \notin Path[h] =>
                                           Holder(i) # "benchmark" /\ h \in Path[Holder(i)]
           T == {y \in Items : Good(y)}
<1>1. ASSUME NEW y \in Items, Holder(y) = "benchmark" \/ Holder(y) \in T
      PROVE  y \in T
  <2>1. SUFFICES ASSUME NEW h \in Path[y], i \in Path[y], i \notin Path[h]
                 PROVE  Holder(i) # "benchmark" /\ h \in Path[Holder(i)]
    OBVIOUS
  <2>2. h # y /\ Holder(y) # "benchmark" /\ h \in Path[Holder(y)]
    BY <2>1, PathDef
  <2>3. CASE i = y
    BY <2>2, <2>3
  <2>4. CASE i # y
    <3>1. i \in Path[Holder(y)]
      BY <2>1, <2>2, <2>4, PathDef
    <3> QED
      BY <1>1, <2>1, <2>2, <3>1
  <2> QED
    BY <2>3, <2>4
<1>2. T = Items
  <2>1. T \in SUBSET Items
    OBVIOUS
  <2> HIDE DEF T
  <2> QED
    BY <1>1, <2>1, TreeInduction
<1> QED
  BY <1>2


-----------------------------------------------------------------------------
(***************************************************************************)
(* Resolving items.                                                        *)
(***************************************************************************)
\* The item and every group it is in are selected.
AllOwn(int, x) == \A g \in Path[x] : Own(int, g)

LEMMA AllOwnDef ==
  ASSUME NEW int, NEW x \in Items
  PROVE  AllOwn(int, x) <=> Own(int, x) /\ (Holder(x) = "benchmark" \/ AllOwn(int, Holder(x)))
BY PathDef DEF AllOwn

\* What is handed down from an item.
LEMMA PassedDef ==
  ASSUME NEW int, NEW i \in Items, NEW selected \in BOOLEAN, NEW x \in Under(i)
  PROVE  Passed(int, i, selected)[x] <=> selected /\ \A g \in Path[x] : i \in Path[g] => Own(int, g)
<1> DEFINE Between(y) == selected /\ \A g \in Path[y] : i \in Path[g] => Own(int, g)
<1>1. ASSUME NEW y \in Under(i)
      PROVE  Between(y) <=> (IF y = i THEN selected ELSE Between(Holder(y))) /\ Own(int, y)
  <2>1. y \in Items /\ i \in Path[y]
    BY DEF Under
  <2>2. CASE y = i
    <3>1. \A g \in Path[y] : i \in Path[g] => g = y
      BY <2>1, <2>2, PathFacts
    <3>2. y \in Path[y]
      BY <2>1, PathFacts
    <3> QED
      BY <2>1, <2>2, <3>1, <3>2
  <2>3. CASE y # i
    <3>1. Holder(y) # "benchmark" /\ Path[y] = {y} \cup Path[Holder(y)]
      BY <2>1, <2>3, PathDef
    <3> QED
      BY <2>1, <2>3, <3>1
  <2> QED
    BY <2>2, <2>3
<1>2. ASSUME NEW y \in Under(i), y # i
      PROVE  Holder(y) \in Under(i)
  <2>1. y \in Items /\ i \in Path[y]
    BY DEF Under
  <2>2. Holder(y) # "benchmark" /\ i \in Path[Holder(y)]
    BY <1>2, <2>1, PathDef
  <2> QED
    BY <2>1, <2>2, HolderIn DEF Under
<1>3. PICK w : w = [y \in Under(i) |-> Between(y)]
  OBVIOUS
<1>4. PICK p : p = Passed(int, i, selected)
  OBVIOUS
<1>5. p = [y \in Under(i) |-> (IF y = i THEN selected ELSE p[Holder(y)]) /\ Own(int, y)]
  <2>1. ASSUME NEW y \in Under(i)
        PROVE  Between(y) = ((IF y = i THEN selected ELSE w[Holder(y)]) /\ Own(int, y))
    <3>1. CASE y = i
      BY <1>1, <3>1
    <3>2. CASE y # i
      <4>1. w[Holder(y)] = Between(Holder(y))
        BY <1>2, <1>3, <3>2
      <4>2. Between(y) \in BOOLEAN
        OBVIOUS
      <4>3. Between(y) <=> Between(Holder(y)) /\ Own(int, y)
        BY <1>1, <3>2
      <4> HIDE DEF Between
      <4> QED
        BY <3>2, <4>1, <4>2, <4>3
    <3> QED
      BY <3>1, <3>2
  <2> HIDE DEF Between
  <2>2. w = [y \in Under(i) |-> (IF y = i THEN selected ELSE w[Holder(y)]) /\ Own(int, y)]
    BY <1>3, <2>1
  <2> QED
    BY <1>4, <2>2 DEF Passed
<1> DEFINE T == {y \in Items : y \in Under(i) => (p[y] <=> Between(y))}
<1>6. ASSUME NEW y \in Items, Holder(y) = "benchmark" \/ Holder(y) \in T
      PROVE  y \in T
  <2>1. CASE y \notin Under(i)
    BY <2>1
  <2>2. CASE y \in Under(i)
    <3>1. p[y] <=> (IF y = i THEN selected ELSE p[Holder(y)]) /\ Own(int, y)
      BY <1>5, <2>2
    <3>2. CASE y = i
      BY <1>1, <2>2, <3>1, <3>2
    <3>3. CASE y # i
      <4>1. Holder(y) \in Under(i) /\ Holder(y) \in T
        BY <1>2, <1>6, <2>2, <3>3, TreeAssumption DEF Under
      <4>2. p[Holder(y)] <=> Between(Holder(y))
        BY <4>1
      <4>3. Between(y) <=> Between(Holder(y)) /\ Own(int, y)
        BY <1>1, <2>2, <3>3
      <4> HIDE DEF Between
      <4> QED
        BY <2>2, <3>1, <3>3, <4>2, <4>3
    <3> QED
      BY <3>2, <3>3
  <2> QED
    BY <2>1, <2>2
<1>7. T = Items
  <2>1. T \in SUBSET Items
    OBVIOUS
  <2> HIDE DEF T
  <2> QED
    BY <1>6, <2>1, TreeInduction
<1> QED
  BY <1>4, <1>7 DEF Under

\* An item that is resolved below a holder that is right makes everything in
\* it right.
LEMMA ResolvedBelow ==
  ASSUME NEW int, NEW i \in Items, NEW selected \in BOOLEAN, NEW x \in Under(i),
         selected <=> Holder(i) = "benchmark" \/ AllOwn(int, Holder(i))
  PROVE  Passed(int, i, selected)[x] <=> AllOwn(int, x)
<1>1. x \in Items /\ i \in Path[x]
  BY DEF Under
<1>2. Passed(int, i, selected)[x] <=> selected /\ \A g \in Path[x] : i \in Path[g] => Own(int, g)
  BY PassedDef
<1>3. \A g \in Path[x] : i \in Path[g] \/ (Holder(i) # "benchmark" /\ g \in Path[Holder(i)])
  BY <1>1, PathChain
<1>4. Holder(i) # "benchmark" => Path[Holder(i)] \subseteq Path[x]
  BY <1>1, PathFacts
<1> QED
  BY <1>2, <1>3, <1>4 DEF AllOwn


\* The walk over the items to resolve.
Walk(f, int, fin, order) ==
  /\ f[0] = fin /\ f[Len(order)] = ResolveAll(int, fin, order)
  /\ \A n \in 1 .. Len(order) :
        f[n] = ResolveItem(int, f[n - 1], order[n],
                           Holder(order[n]) = "benchmark" \/ Holder(order[n]) \in f[n - 1])

LEMMA ResolveAllDef ==
  ASSUME NEW int, NEW fin \in SUBSET Items, NEW order \in Seq(Items)
  PROVE  \E f \in [0 .. Len(order) -> SUBSET Items] : Walk(f, int, fin, order)
<1>1. PICK N : N = Len(order)
  OBVIOUS
<1>2. N \in Nat /\ \A n \in 1 .. N : order[n] \in Items
  BY <1>1
<1> DEFINE Resolved(A, n) == ResolveItem(int, A, order[n], Holder(order[n]) = "benchmark" \/ Holder(order[n]) \in A)
<1>3. \A A, n : Resolved(A, n) \in SUBSET Items
  BY DEF ResolveItem
<1>4. \E f : f = [n \in 0 .. N |-> IF n = 0 THEN fin ELSE Resolved(f[n - 1], n)]
  <2> HIDE DEF Resolved
  <2>1. PICK G : G = [n \in 1 .. N |-> [A \in SUBSET Items |-> Resolved(A, n)]]
    OBVIOUS
  <2>2. G \in [1 .. N -> [SUBSET Items -> SUBSET Items]]
    BY <1>3, <2>1
  <2>3. PICK f \in [0 .. N -> SUBSET Items] : f[0] = fin /\ \A n \in 1 .. N : f[n] = G[n][f[n - 1]]
    <3>1. PICK S : S = SUBSET Items
      OBVIOUS
    <3>2. fin \in S /\ G \in [1 .. N -> [S -> S]]
      BY <2>2, <3>1
    <3>3. \E f \in [0 .. N -> S] : Recurs(f, fin, N, G)
      BY <1>2, <3>2, NatRecursion
    <3> QED
      BY <3>1, <3>3 DEF Recurs
  <2>4. ASSUME NEW n \in 0 .. N
        PROVE  f[n] = IF n = 0 THEN fin ELSE Resolved(f[n - 1], n)
    <3>1. CASE n = 0
      BY <2>3, <3>1
    <3>2. CASE n # 0
      <4>1. n \in 1 .. N /\ n - 1 \in 0 .. N
        BY <1>2, <3>2
      <4>2. f[n - 1] \in SUBSET Items
        BY <2>3, <4>1
      <4> QED
        BY <2>1, <2>3, <3>2, <4>1, <4>2
    <3> QED
      BY <3>1, <3>2
  <2>5. f = [n \in 0 .. N |-> IF n = 0 THEN fin ELSE Resolved(f[n - 1], n)]
    BY <2>3, <2>4
  <2> QED
    BY <2>5
<1>5. PICK d : d = CHOOSE f : f = [n \in 0 .. N |-> IF n = 0 THEN fin ELSE Resolved(f[n - 1], n)]
  OBVIOUS
<1>6. ResolveAll(int, fin, order) = d[N]
  BY <1>1, <1>5 DEF ResolveAll
<1> HIDE DEF Resolved
<1>7. d = [n \in 0 .. N |-> IF n = 0 THEN fin ELSE Resolved(d[n - 1], n)]
  BY <1>4, <1>5
<1>8. /\ d \in [0 .. N -> SUBSET Items]
      /\ d[0] = fin /\ \A n \in 1 .. N : d[n] = Resolved(d[n - 1], n)
  <2>1. d[0] = fin /\ \A n \in 1 .. N : d[n] = Resolved(d[n - 1], n)
    BY <1>2, <1>7
  <2>2. \A n \in 0 .. N : d[n] \in SUBSET Items
    BY <1>2, <1>3, <2>1
  <2> QED
    BY <1>7, <2>1, <2>2
<1> QED
  BY <1>1, <1>6, <1>8 DEF Resolved, Walk

\* When the items that have nothing to resolve above them are right, all are
\* right in the end, in whatever order the items are resolved.
LEMMA ResolveAllExact ==
  ASSUME NEW int, NEW fin \in SUBSET Items, NEW order \in Seq(Items),
         \A x \in Items : (\A m \in 1 .. Len(order) : order[m] \notin Path[x]) => (x \in fin <=> AllOwn(int, x))
  PROVE  ResolveAll(int, fin, order) = {x \in Items : AllOwn(int, x)}
<1> DEFINE N == Len(order)
<1>1. N \in Nat /\ \A n \in 1 .. N : order[n] \in Items
  OBVIOUS
<1>2. PICK f \in [0 .. N -> SUBSET Items] : Walk(f, int, fin, order)
  BY ResolveAllDef
<1>3. /\ f[0] = fin /\ f[N] = ResolveAll(int, fin, order)
      /\ \A n \in 1 .. N : f[n] = ResolveItem(int, f[n - 1], order[n],
                                       Holder(order[n]) = "benchmark" \/ Holder(order[n]) \in f[n - 1])
  BY <1>2 DEF Walk
<1> DEFINE Right(n) == \A x \in Items : (\A m \in n + 1 .. N : order[m] \notin Path[x]) => (x \in f[n] <=> AllOwn(int, x))
<1>4. Right(0)
  BY <1>3
<1> HIDE DEF N
<1>5. ASSUME NEW n \in 1 .. N, Right(n - 1)
      PROVE  Right(n)
  <2>1. SUFFICES ASSUME NEW x \in Items, \A m \in n + 1 .. N : order[m] \notin Path[x]
                 PROVE  x \in f[n] <=> AllOwn(int, x)
    OBVIOUS
  <2>2. PICK i, s : i = order[n] /\ s = (Holder(i) = "benchmark" \/ Holder(i) \in f[n - 1])
    OBVIOUS
  <2>3. i \in Items /\ s \in BOOLEAN
    BY <1>1, <2>2
  <2>4. x \in f[n] <=> IF x \in Under(i) THEN Passed(int, i, s)[x] ELSE x \in f[n - 1]
    BY <1>3, <2>2 DEF ResolveItem
  <2>5. \A m \in (n - 1) + 1 .. N : m \in n + 1 .. N \/ m = n
    BY <1>1
  <2>6. CASE x \in Under(i)
    <3>1. ASSUME Holder(i) # "benchmark"
          PROVE  Holder(i) \in f[n - 1] <=> AllOwn(int, Holder(i))
      <4>1. Holder(i) \in Items
        BY <2>3, <3>1, HolderIn
      <4>2. i \notin Path[Holder(i)] /\ Path[Holder(i)] \subseteq Path[i]
        BY <2>3, <3>1, PathFacts
      <4>3. Path[i] \subseteq Path[x]
        BY <2>6, PathFacts DEF Under
      <4>4. \A m \in (n - 1) + 1 .. N : order[m] \notin Path[Holder(i)]
        BY <2>1, <2>2, <2>5, <4>2, <4>3
      <4> QED
        BY <1>5, <4>1, <4>4
    <3>2. s <=> Holder(i) = "benchmark" \/ AllOwn(int, Holder(i))
      BY <2>2, <3>1
    <3> QED
      BY <2>3, <2>4, <2>6, <3>2, ResolvedBelow
  <2>7. CASE x \notin Under(i)
    <3>1. \A m \in (n - 1) + 1 .. N : order[m] \notin Path[x]
      BY <2>1, <2>2, <2>5, <2>7 DEF Under
    <3> QED
      BY <1>5, <2>4, <2>7, <3>1
  <2> QED
    BY <2>6, <2>7
<1>6. Right(N)
  <2> HIDE DEF Right
  <2>1. SUFFICES ASSUME ~Right(N)
                 PROVE  FALSE
    OBVIOUS
  <2>2. PICK T : T = {k \in 0 .. N : ~Right(k)}
    OBVIOUS
  <2>3. PICK k \in T : \A m \in T : k <= m
    <3>1. N \in T /\ T \in SUBSET Nat
      BY <1>1, <2>1, <2>2
    <3> QED
      BY <3>1, LeastNatural
  <2>4. k \in 1 .. N /\ k - 1 \in 0 .. N /\ k - 1 \notin T
    BY <1>1, <1>4, <2>2, <2>3
  <2> QED
    BY <1>5, <2>2, <2>3, <2>4
<1>7. \A x \in Items : x \in f[N] <=> AllOwn(int, x)
  BY <1>1, <1>6
<1> QED
  BY <1>1, <1>3, <1>7

\* Every item is in some item at the top.
LEMMA TopItem ==
  ASSUME NEW x \in Items
  PROVE  \E m \in 1 .. Len(Content["benchmark"]) : Content["benchmark"][m] \in Path[x]
<1>1. PICK c : c = Content["benchmark"]
  OBVIOUS
<1>2. c \in Seq(Items)
  BY <1>1, TreeAssumption
<1> DEFINE T == {y \in Items : \E m \in 1 .. Len(c) : c[m] \in Path[y]}
<1>3. ASSUME NEW y \in Items, Holder(y) = "benchmark" \/ Holder(y) \in T
      PROVE  y \in T
  <2>1. CASE Holder(y) = "benchmark"
    <3>1. y \in ToSet(c) /\ y \in Path[y]
      BY <1>1, <2>1, HolderIn, PathFacts
    <3> QED
      BY <1>2, <3>1 DEF ToSet
  <2>2. CASE Holder(y) # "benchmark"
    BY <1>3, <2>2, PathFacts
  <2> QED
    BY <2>1, <2>2
<1>4. T = Items
  <2>1. T \in SUBSET Items
    OBVIOUS
  <2> HIDE DEF T
  <2> QED
    BY <1>3, <2>1, TreeInduction
<1> QED
  BY <1>1, <1>4

\* The items a selector names, in any order.
LEMMA NamedInOrder ==
  ASSUME NEW sel, NEW order \in SetToSeqs(Named(sel))
  PROVE  /\ order \in Seq(Items)
         /\ \A x \in Named(sel) : \E m \in 1 .. Len(order) : order[m] = x
<1>1. PICK S, n : S = Named(sel) /\ n = Cardinality(S)
  OBVIOUS
<1>2. S \in SUBSET Items
  BY <1>1, ClusterAssumption DEF Named
<1>3. IsFiniteSet(S) /\ n \in Nat
  BY <1>1, <1>2, TreeAssumption, FS_Subset, FS_CardinalityType
<1>4. order \in [1 .. n -> S] /\ \A i, j \in 1 .. n : i # j => order[i] # order[j]
  BY <1>1 DEF SetToSeqs
<1>5. order \in Seq(Items) /\ Len(order) = n
  BY <1>2, <1>3, <1>4
<1>6. PICK T : T = {order[m] : m \in 1 .. n}
  OBVIOUS
<1>7. ExistsBijection(1 .. n, T)
  <2>1. order \in Bijection(1 .. n, T)
    BY <1>4, <1>6 DEF Bijection, Injection, Surjection, IsInjective
  <2> QED
    BY <2>1 DEF ExistsBijection
<1>8. IsFiniteSet(1 .. n) /\ Cardinality(1 .. n) = n
  BY <1>3, FS_Interval
<1>9. T \in SUBSET S /\ IsFiniteSet(T) /\ Cardinality(T) = n
  BY <1>3, <1>4, <1>6, <1>7, <1>8, FS_Bijection
<1>10. T = S
  BY <1>1, <1>3, <1>9, FS_Subset
<1> QED
  BY <1>1, <1>5, <1>6, <1>10


-----------------------------------------------------------------------------
(***************************************************************************)
(* Selections.                                                             *)
(***************************************************************************)
SelectionInv == (phase = "new" => final = {}) /\ SelectionExact

LEMMA SelectionStep ==
  ASSUME SelectionInv, [Next]_vars
  PROVE  SelectionInv'
<1>1. CASE New
  <2>1. phase' = "ready" /\ final = {} /\ final' = ResolveAll(internal', final, Content["benchmark"])
    BY <1>1 DEF New, SelectionInv
  <2>2. Content["benchmark"] \in Seq(Items)
    BY TreeAssumption
  <2>3. final' = {x \in Items : AllOwn(internal', x)}
    <3>1. PICK int, fin, top : int = internal' /\ fin = final /\ top = Content["benchmark"]
      OBVIOUS
    <3>2. ResolveAll(int, fin, top) = {x \in Items : AllOwn(int, x)}
      BY <2>1, <2>2, <3>1, TopItem, ResolveAllExact
    <3> QED
      BY <2>1, <3>1, <3>2
  <2> QED
    BY <2>1, <2>3 DEF SelectionInv, SelectionExact, Exact, AllOwn
<1>2. CASE AddSelect
  <2>1. phase = "ready" /\ phase' = "ready"
    BY <1>2 DEF AddSelect
  <2>2. final = {x \in Items : AllOwn(internal, x)}
    BY <2>1 DEF SelectionInv, SelectionExact, Exact, AllOwn
  <2>3. PICK sel, order :
           /\ order \in SetToSeqs(Named(sel))
           /\ internal' = Note(internal, sel) /\ final' = ResolveAll(internal', final, order)
    BY <1>2 DEF AddSelect
  <2>4. PICK int, fin : int = internal' /\ fin = final
    OBVIOUS
  <2>5. order \in Seq(Items) /\ fin \in SUBSET Items
    BY <2>2, <2>3, <2>4, NamedInOrder
  <2>6. ASSUME NEW x \in Items, \A m \in 1 .. Len(order) : order[m] \notin Path[x]
        PROVE  x \in fin <=> AllOwn(int, x)
    <3>1. ASSUME NEW g \in Path[x]
          PROVE  Own(int, g) <=> Own(internal, g)
      <4>1. g \in Items /\ g \notin Named(sel)
        BY <2>3, <2>6, NamedInOrder, PathFacts
      <4>2. int[g] = internal[g]
        BY <2>3, <2>4, <4>1 DEF Note
      <4> QED
        BY <4>2 DEF Own
    <3> QED
      BY <2>2, <2>4, <3>1 DEF AllOwn
  <2>7. ResolveAll(int, fin, order) = {x \in Items : AllOwn(int, x)}
    BY <2>5, <2>6, ResolveAllExact
  <2> QED
    BY <2>1, <2>3, <2>4, <2>7 DEF SelectionInv, SelectionExact, Exact, AllOwn
<1>3. ASSUME UNCHANGED <<internal, final>>, phase # "new", phase' # "new"
      PROVE  SelectionInv'
  BY <1>3 DEF SelectionInv, SelectionExact, Exact, Own
<1>4. CASE Evaluate
  BY <1>3, <1>4 DEF Evaluate, PhaseAt
<1>5. CASE Skip
  BY <1>3, <1>5 DEF Skip, Evaluating, End, Stop, NextRule, PhaseAt, Policy
<1>6. CASE Start
  BY <1>3, <1>6 DEF Start, Evaluating, Stop, Policy
<1>7. CASE Settle
  BY <1>3, <1>7 DEF Settle, Evaluating, End, Stop, NextRule, PhaseAt, Policy
<1>8. CASE Complex \/ Simple
  <2>1. phase = "evaluating" /\ UNCHANGED Policy /\ \E res, verdict : End(res, verdict)
    BY <1>8 DEF Complex, Simple, Evaluating
  <2> QED
    BY <1>3, <2>1 DEF End, Stop, NextRule, PhaseAt, Policy
<1>9. CASE Multi
  BY <1>3, <1>9 DEF Multi, Stop, NextRule, PhaseAt, Policy
<1>10. CASE UNCHANGED vars
  BY <1>10 DEF vars, SelectionInv, SelectionExact, Exact, Own
<1> QED
  BY <1>1, <1>2, <1>4, <1>5, <1>6, <1>7, <1>8, <1>9, <1>10 DEF Next

\* Once the policy exists, an item is selected exactly when it and every group
\* it is in are, each by its last selector or else its own attribute, whatever
\* selectors are added and in whatever order a cluster is walked
\* (xccdf_policy_new, xccdf_policy_add_select, xccdf_policy_resolve_item).
THEOREM SelectionsAreExact == Spec => []SelectionExact
<1>1. Init => SelectionInv
  BY DEF Init, SelectionInv, SelectionExact
<1>2. SelectionInv /\ [Next]_vars => SelectionInv'
  BY SelectionStep
<1>3. SelectionInv => SelectionExact
  BY DEF SelectionInv
<1> QED
  BY <1>1, <1>2, <1>3, PTL DEF Spec


-----------------------------------------------------------------------------
(***************************************************************************)
(* Complex-checks.                                                         *)
(***************************************************************************)
Classes == {"pass", "fail", "undecided", "neutral"}

\* Two results are combined to one in the class of the stronger.
LEMMA TableSound ==
  ASSUME NEW oper \in {"AND", "OR"}, NEW a \in 1 .. 8, NEW b \in 1 .. 8
  PROVE  /\ ResolveOperation(a, b, oper) \in 1 .. 8
         /\ Class(ResolveOperation(a, b, oper)) = Strongest({Class(a), Class(b)}, oper)
<1>1. ResolveOperation(a, b, oper) = ResultTable[oper][a][b]
  BY DEF ResolveOperation
<1>2. b = 1 \/ b = 2 \/ b = 3 \/ b = 4 \/ b = 5 \/ b = 6 \/ b = 7 \/ b = 8
  OBVIOUS
<1>3. CASE oper = "AND" /\ a = 1
  BY <1>1, <1>2, <1>3 DEF ResultTable, Class, Strongest, PASS, FAIL, ERROR, UNKNOWN
<1>4. CASE oper = "AND" /\ a = 2
  BY <1>1, <1>2, <1>4 DEF ResultTable, Class, Strongest, PASS, FAIL, ERROR, UNKNOWN
<1>5. CASE oper = "AND" /\ a = 3
  BY <1>1, <1>2, <1>5 DEF ResultTable, Class, Strongest, PASS, FAIL, ERROR, UNKNOWN
<1>6. CASE oper = "AND" /\ a = 4
  BY <1>1, <1>2, <1>6 DEF ResultTable, Class, Strongest, PASS, FAIL, ERROR, UNKNOWN
<1>7. CASE oper = "AND" /\ a = 5
  BY <1>1, <1>2, <1>7 DEF ResultTable, Class, Strongest, PASS, FAIL, ERROR, UNKNOWN
<1>8. CASE oper = "AND" /\ a = 6
  BY <1>1, <1>2, <1>8 DEF ResultTable, Class, Strongest, PASS, FAIL, ERROR, UNKNOWN
<1>9. CASE oper = "AND" /\ a = 7
  BY <1>1, <1>2, <1>9 DEF ResultTable, Class, Strongest, PASS, FAIL, ERROR, UNKNOWN
<1>10. CASE oper = "AND" /\ a = 8
  BY <1>1, <1>2, <1>10 DEF ResultTable, Class, Strongest, PASS, FAIL, ERROR, UNKNOWN
<1>11. CASE oper = "OR" /\ a = 1
  BY <1>1, <1>2, <1>11 DEF ResultTable, Class, Strongest, PASS, FAIL, ERROR, UNKNOWN
<1>12. CASE oper = "OR" /\ a = 2
  BY <1>1, <1>2, <1>12 DEF ResultTable, Class, Strongest, PASS, FAIL, ERROR, UNKNOWN
<1>13. CASE oper = "OR" /\ a = 3
  BY <1>1, <1>2, <1>13 DEF ResultTable, Class, Strongest, PASS, FAIL, ERROR, UNKNOWN
<1>14. CASE oper = "OR" /\ a = 4
  BY <1>1, <1>2, <1>14 DEF ResultTable, Class, Strongest, PASS, FAIL, ERROR, UNKNOWN
<1>15. CASE oper = "OR" /\ a = 5
  BY <1>1, <1>2, <1>15 DEF ResultTable, Class, Strongest, PASS, FAIL, ERROR, UNKNOWN
<1>16. CASE oper = "OR" /\ a = 6
  BY <1>1, <1>2, <1>16 DEF ResultTable, Class, Strongest, PASS, FAIL, ERROR, UNKNOWN
<1>17. CASE oper = "OR" /\ a = 7
  BY <1>1, <1>2, <1>17 DEF ResultTable, Class, Strongest, PASS, FAIL, ERROR, UNKNOWN
<1>18. CASE oper = "OR" /\ a = 8
  BY <1>1, <1>2, <1>18 DEF ResultTable, Class, Strongest, PASS, FAIL, ERROR, UNKNOWN
<1> QED
  BY <1>3, <1>4, <1>5, <1>6, <1>7, <1>8, <1>9, <1>10, <1>11, <1>12, <1>13, <1>14, <1>15, <1>16, <1>17, <1>18



LEMMA ClassType ==
  /\ \A v : Class(v) \in Classes
  /\ \A P, oper : Strongest(P, oper) \in Classes
  /\ \A x \in Classes, oper \in {"AND", "OR"} : Strongest({x}, oper) = x
BY DEF Class, Classes, Strongest

LEMMA StrongestJoin ==
  ASSUME NEW P \in SUBSET Classes, NEW x \in Classes, NEW oper \in {"AND", "OR"}
  PROVE  Strongest(P \cup {x}, oper) = Strongest({Strongest(P, oper), x}, oper)
<1>1. CASE oper = "AND"
  BY <1>1 DEF Strongest, Classes
<1>2. CASE oper = "OR"
  BY <1>2 DEF Strongest, Classes
<1> QED
  BY <1>1, <1>2

Answered == {-1} \cup 1 .. 8

\* The parts of a complex-check: -1 if an engine failed, or else a result in
\* the class of the strongest.
LEMMA CombineSound ==
  ASSUME NEW vals \in Seq(Answered), vals # <<>>, NEW oper \in {"AND", "OR"}
  PROVE  \/ Combine(vals, oper) = -1
         \/ /\ Combine(vals, oper) \in 1 .. 8
            /\ \A k \in DOMAIN vals : vals[k] # -1
            /\ Class(Combine(vals, oper)) = Strongest({Class(vals[k]) : k \in DOMAIN vals}, oper)
<1> DEFINE Step(s, n) == IF s = -1 \/ vals[n] = -1 THEN -1
                         ELSE IF s = 0 THEN vals[n] ELSE ResolveOperation(s, vals[n], oper)
<1>1. PICK N : N = Len(vals)
  OBVIOUS
<1>2. N \in Nat \ {0} /\ DOMAIN vals = 1 .. N /\ \A n \in 1 .. N : vals[n] \in Answered
  BY <1>1
<1>3. PICK S : S = {0} \cup Answered
  OBVIOUS
<1>4. ASSUME NEW s \in S, NEW n \in 1 .. N
      PROVE  Step(s, n) \in S
  <2>1. s \in {-1, 0} \cup 1 .. 8 /\ vals[n] \in Answered
    BY <1>2, <1>3, <1>4 DEF Answered
  <2>2. s \in 1 .. 8 /\ vals[n] \in 1 .. 8 => ResolveOperation(s, vals[n], oper) \in 1 .. 8
    BY TableSound
  <2> QED
    BY <1>3, <2>1, <2>2 DEF Answered
<1> HIDE DEF Step
<1>5. \E f : f = [n \in 0 .. N |-> IF n = 0 THEN 0 ELSE Step(f[n - 1], n)]
  <2>1. PICK G : G = [n \in 1 .. N |-> [s \in S |-> Step(s, n)]]
    OBVIOUS
  <2>2. G \in [1 .. N -> [S -> S]] /\ 0 \in S
    BY <1>3, <1>4, <2>1
  <2>3. PICK f \in [0 .. N -> S] : Recurs(f, 0, N, G)
    BY <1>2, <2>2, NatRecursion
  <2>4. ASSUME NEW n \in 0 .. N
        PROVE  f[n] = IF n = 0 THEN 0 ELSE Step(f[n - 1], n)
    <3>1. CASE n = 0
      BY <2>3, <3>1 DEF Recurs
    <3>2. CASE n # 0
      <4>1. n \in 1 .. N /\ n - 1 \in 0 .. N
        BY <1>2, <3>2
      <4>2. f[n - 1] \in S
        BY <2>3, <4>1
      <4>3. f[n] = G[n][f[n - 1]]
        BY <2>3, <4>1 DEF Recurs
      <4> QED
        BY <2>1, <3>2, <4>1, <4>2, <4>3
    <3> QED
      BY <3>1, <3>2
  <2>5. f = [n \in 0 .. N |-> IF n = 0 THEN 0 ELSE Step(f[n - 1], n)]
    BY <2>3, <2>4
  <2> QED
    BY <2>5
<1>6. PICK ret : ret = CHOOSE f : f = [n \in 0 .. N |-> IF n = 0 THEN 0 ELSE Step(f[n - 1], n)]
  OBVIOUS
<1>7. Combine(vals, oper) = ret[N]
  BY <1>1, <1>6 DEF Combine, Step
<1>8. ret = [n \in 0 .. N |-> IF n = 0 THEN 0 ELSE Step(ret[n - 1], n)]
  BY <1>5, <1>6
<1>9. ret[0] = 0 /\ \A n \in 1 .. N : ret[n] = Step(ret[n - 1], n)
  BY <1>2, <1>8
<1> DEFINE Found(n) == {Class(vals[k]) : k \in 1 .. n}
           Right(n) == \/ n > 0 /\ ret[n] = -1
                       \/ n = 0 /\ ret[n] = 0
                       \/ /\ n > 0 /\ ret[n] \in 1 .. 8 /\ \A k \in 1 .. n : vals[k] # -1
                          /\ Class(ret[n]) = Strongest(Found(n), oper)
<1>10. Right(0)
  BY <1>9
<1>11. ASSUME NEW n \in 1 .. N, Right(n - 1)
       PROVE  Right(n)
  <2>1. ret[n] = Step(ret[n - 1], n) /\ n \in Nat /\ n > 0 /\ vals[n] \in Answered
    BY <1>2, <1>9
  <2>2. Found(n) = Found(n - 1) \cup {Class(vals[n])}
    <3>1. \A k \in 1 .. n : k \in 1 .. n - 1 \/ k = n
      BY <1>2
    <3>2. \A k \in 1 .. n - 1 : k \in 1 .. n
      BY <1>2
    <3>3. n \in 1 .. n
      BY <1>2
    <3> QED
      BY <3>1, <3>2, <3>3
  <2>3. Found(n - 1) \in SUBSET Classes /\ Class(vals[n]) \in Classes
    BY ClassType
  <2>4. Strongest(Found(n), oper) = Strongest({Strongest(Found(n - 1), oper), Class(vals[n])}, oper)
    BY <2>2, <2>3, StrongestJoin
  <2>5. CASE ret[n - 1] = -1 \/ vals[n] = -1
    BY <2>1, <2>5 DEF Step
  <2>6. CASE ret[n - 1] # -1 /\ vals[n] # -1
    <3>1. vals[n] \in 1 .. 8
      BY <2>1, <2>6 DEF Answered
    <3>2. CASE n - 1 = 0
      <4>1. ret[n] = vals[n]
        BY <1>9, <2>1, <2>6, <3>2 DEF Step
      <4>2. Found(n) = {Class(vals[n])} /\ \A k \in 1 .. n : k = n
        BY <3>2
      <4>3. Strongest(Found(n), oper) = Class(vals[n])
        BY <2>3, <4>2, ClassType
      <4> HIDE DEF Found
      <4> QED
        BY <2>1, <2>6, <3>1, <4>1, <4>2, <4>3
    <3>3. CASE n - 1 # 0
      <4> HIDE DEF Found
      <4>1. /\ ret[n - 1] \in 1 .. 8 /\ \A k \in 1 .. n - 1 : vals[k] # -1
            /\ Class(ret[n - 1]) = Strongest(Found(n - 1), oper)
        BY <1>11, <2>6, <3>3
      <4>2. ret[n] = ResolveOperation(ret[n - 1], vals[n], oper)
        BY <2>1, <2>6, <4>1 DEF Step
      <4>3. ret[n] \in 1 .. 8 /\ Class(ret[n]) = Strongest({Class(ret[n - 1]), Class(vals[n])}, oper)
        <5>1. PICK a, b : a = ret[n - 1] /\ b = vals[n]
          OBVIOUS
        <5>2. a \in 1 .. 8 /\ b \in 1 .. 8
          BY <3>1, <4>1, <5>1
        <5>3. /\ ResolveOperation(a, b, oper) \in 1 .. 8
              /\ Class(ResolveOperation(a, b, oper)) = Strongest({Class(a), Class(b)}, oper)
          BY <5>2, TableSound
        <5> QED
          BY <4>2, <5>1, <5>3
      <4>4. \A k \in 1 .. n : vals[k] # -1
        BY <2>1, <2>6, <4>1
      <4> QED
        BY <2>1, <2>4, <4>1, <4>3, <4>4
    <3> QED
      BY <3>2, <3>3
  <2> QED
    BY <2>5, <2>6
<1>12. Right(N)
  <2> HIDE DEF Right
  <2>1. SUFFICES ASSUME ~Right(N)
                 PROVE  FALSE
    OBVIOUS
  <2>2. PICK T : T = {k \in 0 .. N : ~Right(k)}
    OBVIOUS
  <2>3. PICK k \in T : \A m \in T : k <= m
    <3>1. N \in T /\ T \in SUBSET Nat
      BY <1>2, <2>1, <2>2
    <3> QED
      BY <3>1, LeastNatural
  <2>4. k \in 1 .. N /\ k - 1 \in 0 .. N /\ k - 1 \notin T
    BY <1>2, <1>10, <2>2, <2>3
  <2> QED
    BY <1>11, <2>2, <2>3, <2>4
<1> QED
  BY <1>2, <1>7, <1>12

\* Checks are visited from the leaves of the trees up.
LEMMA CheckInduction ==
  ASSUME NEW T \in SUBSET DOMAIN Check, \A c \in DOMAIN Check : Parts(c) \subseteq T => c \in T
  PROVE  T = DOMAIN Check
<1>1. SUFFICES ASSUME T # DOMAIN Check
               PROVE  FALSE
  OBVIOUS
<1>2. PICK S : S = DOMAIN Check \ T
  OBVIOUS
<1>3. PICK c \in S : Parts(c) \cap S = {}
  BY <1>1, <1>2, CheckAssumption
<1>4. Parts(c) \subseteq DOMAIN Check
  BY <1>2, <1>3, CheckAssumption DEF Parts, ToSet
<1> QED
  BY <1>2, <1>3, <1>4


\* The recursive definitions over checks are what they say.
LEMMA LeavesDef ==
  \A c \in DOMAIN Check :
            Leaves[c] = IF Check[c].kind = "complex" THEN UNION {Leaves[p] : p \in Parts(c)} ELSE ToSet(Check[c].refs)
<1> DEFINE Body(f, c) == IF Check[c].kind = "complex" THEN UNION {f[p] : p \in Parts(c)} ELSE ToSet(Check[c].refs)
           Closed(A) == \A c \in A : Parts(c) \subseteq A
           F == {A \in SUBSET DOMAIN Check : Closed(A) /\ \E f : \A c \in A : f[c] = Body(f, c)}
<1>1. ASSUME NEW f, NEW h, NEW c \in DOMAIN Check, \A p \in Parts(c) : f[p] = h[p]
      PROVE  Body(f, c) = Body(h, c)
  <2>1. {f[p] : p \in Parts(c)} = {h[p] : p \in Parts(c)}
    BY <1>1
  <2> QED
    BY <2>1
<1>2. \A c \in DOMAIN Check : Parts(c) \subseteq DOMAIN Check
  BY CheckAssumption DEF Parts, ToSet
<1> HIDE DEF Body
<1>3. {} \in F
  OBVIOUS
<1>4. ASSUME NEW A \in F, A # DOMAIN Check
      PROVE  \E c \in DOMAIN Check \ A : A \cup {c} \in F
  <2>1. PICK c \in DOMAIN Check \ A : Parts(c) \cap (DOMAIN Check \ A) = {}
    BY <1>4, CheckAssumption
  <2>2. Parts(c) \subseteq A
    BY <1>2, <2>1
  <2>3. Closed(A) /\ A \in SUBSET DOMAIN Check
    OBVIOUS
  <2>4. PICK f : \A x \in A : f[x] = Body(f, x)
    OBVIOUS
  <2>5. PICK h : h = [x \in DOMAIN Check |-> IF x = c THEN Body(f, c) ELSE f[x]]
    OBVIOUS
  <2>6. \A x \in A : h[x] = f[x]
    BY <2>1, <2>3, <2>5
  <2>7. \A x \in A : h[x] = Body(h, x)
    BY <1>1, <2>3, <2>4, <2>6
  <2>8. h[c] = Body(h, c)
    BY <1>1, <2>1, <2>2, <2>5, <2>6
  <2>9. A \cup {c} \in SUBSET DOMAIN Check /\ Closed(A \cup {c})
    BY <2>1, <2>2, <2>3
  <2>10. \A x \in A \cup {c} : h[x] = Body(h, x)
    BY <2>7, <2>8
  <2> QED
    BY <2>1, <2>9, <2>10
<1>5. DOMAIN Check \in F
  <2>1. F \in SUBSET SUBSET DOMAIN Check
    OBVIOUS
  <2> HIDE DEF F
  <2> QED
    BY <1>3, <1>4, <2>1, CheckAssumption, FamilyExhausts
<1>6. PICK f : \A c \in DOMAIN Check : f[c] = Body(f, c)
  BY <1>5
<1>7. PICK h : h = [c \in DOMAIN Check |-> f[c]]
  OBVIOUS
<1>8. \A c \in DOMAIN Check : Body(f, c) = Body(h, c)
  BY <1>1, <1>2, <1>7
<1>9. h = [c \in DOMAIN Check |-> Body(h, c)]
  BY <1>6, <1>7, <1>8
<1>10. Leaves = CHOOSE g : g = [c \in DOMAIN Check |-> Body(g, c)]
  BY DEF Leaves, Body
<1>11. Leaves = [c \in DOMAIN Check |-> Body(Leaves, c)]
  BY <1>9, <1>10
<1> QED
  BY <1>11 DEF Body

\* What a check yields, from what its parts yield.
Yields(val, c, ans) ==
  ResolveNegate(IF Check[c].kind = "complex"
                THEN Combine([k \in DOMAIN Check[c].children |-> val[Check[c].children[k]]], Check[c].oper)
                ELSE FirstAnswer(Check[c], ans, 0), Check[c].negate)

LEMMA CheckEvaluateDef ==
  ASSUME NEW ans
  PROVE  \E val : \A c \in DOMAIN Check : val[c] = Yields(val, c, ans) /\ CheckEvaluate(c, ans) = val[c]
<1> DEFINE Body(f, c) == Yields(f, c, ans)
           Closed(A) == \A c \in A : Parts(c) \subseteq A
           F == {A \in SUBSET DOMAIN Check : Closed(A) /\ \E f : \A c \in A : f[c] = Body(f, c)}
<1>1. ASSUME NEW f, NEW h, NEW c \in DOMAIN Check, \A p \in Parts(c) : f[p] = h[p]
      PROVE  Body(f, c) = Body(h, c)
  <2>1. CASE Check[c].kind = "complex"
    <3>1. [k \in DOMAIN Check[c].children |-> f[Check[c].children[k]]] =
          [k \in DOMAIN Check[c].children |-> h[Check[c].children[k]]]
      BY <1>1, <2>1 DEF Parts, ToSet
    <3> QED
      BY <2>1, <3>1 DEF Yields
  <2>2. CASE Check[c].kind # "complex"
    BY <2>2 DEF Yields
  <2> QED
    BY <2>1, <2>2
<1>2. \A c \in DOMAIN Check : Parts(c) \subseteq DOMAIN Check
  BY CheckAssumption DEF Parts, ToSet
<1> HIDE DEF Body
<1>3. {} \in F
  OBVIOUS
<1>4. ASSUME NEW A \in F, A # DOMAIN Check
      PROVE  \E c \in DOMAIN Check \ A : A \cup {c} \in F
  <2>1. PICK c \in DOMAIN Check \ A : Parts(c) \cap (DOMAIN Check \ A) = {}
    BY <1>4, CheckAssumption
  <2>2. Parts(c) \subseteq A
    BY <1>2, <2>1
  <2>3. Closed(A) /\ A \in SUBSET DOMAIN Check
    OBVIOUS
  <2>4. PICK f : \A x \in A : f[x] = Body(f, x)
    OBVIOUS
  <2>5. PICK h : h = [x \in DOMAIN Check |-> IF x = c THEN Body(f, c) ELSE f[x]]
    OBVIOUS
  <2>6. \A x \in A : h[x] = f[x]
    BY <2>1, <2>3, <2>5
  <2>7. \A x \in A : h[x] = Body(h, x)
    BY <1>1, <2>3, <2>4, <2>6
  <2>8. h[c] = Body(h, c)
    BY <1>1, <2>1, <2>2, <2>5, <2>6
  <2>9. A \cup {c} \in SUBSET DOMAIN Check /\ Closed(A \cup {c})
    BY <2>1, <2>2, <2>3
  <2>10. \A x \in A \cup {c} : h[x] = Body(h, x)
    BY <2>7, <2>8
  <2> QED
    BY <2>1, <2>9, <2>10
<1>5. DOMAIN Check \in F
  <2>1. F \in SUBSET SUBSET DOMAIN Check
    OBVIOUS
  <2> HIDE DEF F
  <2> QED
    BY <1>3, <1>4, <2>1, CheckAssumption, FamilyExhausts
<1>6. PICK f : \A c \in DOMAIN Check : f[c] = Body(f, c)
  BY <1>5
<1>7. PICK h : h = [c \in DOMAIN Check |-> f[c]]
  OBVIOUS
<1>8. \A c \in DOMAIN Check : Body(f, c) = Body(h, c)
  BY <1>1, <1>2, <1>7
<1>9. h = [c \in DOMAIN Check |-> Body(h, c)]
  BY <1>6, <1>7, <1>8
<1>10. PICK val : val = CHOOSE g : g = [c \in DOMAIN Check |-> Body(g, c)]
  OBVIOUS
<1>11. \A c \in DOMAIN Check : CheckEvaluate(c, ans) = val[c]
  BY <1>10 DEF CheckEvaluate, Body, Yields
<1>12. val = [c \in DOMAIN Check |-> Body(val, c)]
  BY <1>9, <1>10
<1> QED
  BY <1>11, <1>12 DEF Body

\* What the tree of checks says.
Says(v, c, ans) ==
  LET plain == IF Check[c].kind = "complex" THEN Strongest({v[p] : p \in Parts(c)}, Check[c].oper)
               ELSE Class(FirstAnswer(Check[c], ans, 0))
  IN  IF Check[c].negate THEN Opposite(plain) ELSE plain

LEMMA VerdictDef ==
  ASSUME NEW ans
  PROVE  \E v : \A c \in DOMAIN Check : v[c] = Says(v, c, ans) /\ Verdict(c, ans) = v[c]
<1> DEFINE Body(f, c) == Says(f, c, ans)
           Closed(A) == \A c \in A : Parts(c) \subseteq A
           F == {A \in SUBSET DOMAIN Check : Closed(A) /\ \E f : \A c \in A : f[c] = Body(f, c)}
<1>1. ASSUME NEW f, NEW h, NEW c \in DOMAIN Check, \A p \in Parts(c) : f[p] = h[p]
      PROVE  Body(f, c) = Body(h, c)
  <2>1. {f[p] : p \in Parts(c)} = {h[p] : p \in Parts(c)}
    BY <1>1
  <2> QED
    BY <2>1 DEF Says
<1>2. \A c \in DOMAIN Check : Parts(c) \subseteq DOMAIN Check
  BY CheckAssumption DEF Parts, ToSet
<1> HIDE DEF Body
<1>3. {} \in F
  OBVIOUS
<1>4. ASSUME NEW A \in F, A # DOMAIN Check
      PROVE  \E c \in DOMAIN Check \ A : A \cup {c} \in F
  <2>1. PICK c \in DOMAIN Check \ A : Parts(c) \cap (DOMAIN Check \ A) = {}
    BY <1>4, CheckAssumption
  <2>2. Parts(c) \subseteq A
    BY <1>2, <2>1
  <2>3. Closed(A) /\ A \in SUBSET DOMAIN Check
    OBVIOUS
  <2>4. PICK f : \A x \in A : f[x] = Body(f, x)
    OBVIOUS
  <2>5. PICK h : h = [x \in DOMAIN Check |-> IF x = c THEN Body(f, c) ELSE f[x]]
    OBVIOUS
  <2>6. \A x \in A : h[x] = f[x]
    BY <2>1, <2>3, <2>5
  <2>7. \A x \in A : h[x] = Body(h, x)
    BY <1>1, <2>3, <2>4, <2>6
  <2>8. h[c] = Body(h, c)
    BY <1>1, <2>1, <2>2, <2>5, <2>6
  <2>9. A \cup {c} \in SUBSET DOMAIN Check /\ Closed(A \cup {c})
    BY <2>1, <2>2, <2>3
  <2>10. \A x \in A \cup {c} : h[x] = Body(h, x)
    BY <2>7, <2>8
  <2> QED
    BY <2>1, <2>9, <2>10
<1>5. DOMAIN Check \in F
  <2>1. F \in SUBSET SUBSET DOMAIN Check
    OBVIOUS
  <2> HIDE DEF F
  <2> QED
    BY <1>3, <1>4, <2>1, CheckAssumption, FamilyExhausts
<1>6. PICK f : \A c \in DOMAIN Check : f[c] = Body(f, c)
  BY <1>5
<1>7. PICK h : h = [c \in DOMAIN Check |-> f[c]]
  OBVIOUS
<1>8. \A c \in DOMAIN Check : Body(f, c) = Body(h, c)
  BY <1>1, <1>2, <1>7
<1>9. h = [c \in DOMAIN Check |-> Body(h, c)]
  BY <1>6, <1>7, <1>8
<1>10. PICK v : v = CHOOSE g : g = [c \in DOMAIN Check |-> Body(g, c)]
  OBVIOUS
<1>11. \A c \in DOMAIN Check : Verdict(c, ans) = v[c]
  BY <1>10 DEF Verdict, Body, Says
<1>12. v = [c \in DOMAIN Check |-> Body(v, c)]
  BY <1>9, <1>10
<1> QED
  BY <1>11, <1>12 DEF Body



LEMMA FirstAnswered ==
  ASSUME NEW check, NEW L, NEW ans \in [L -> Answers],
         check.refs \in Seq(ToSet(check.refs)) \ {<<>>}, ToSet(check.refs) \subseteq L
  PROVE  FirstAnswer(check, ans, 0) \in Answered
<1> DEFINE refs == check.refs
           usable == {k \in DOMAIN refs : ans[refs[k]] # NOT_CHECKED}
           first == CHOOSE k \in usable : \A m \in usable : k <= m
<1>1. FirstAnswer(check, ans, 0) = IF ~check.bound THEN UNKNOWN ELSE IF refs = <<>> THEN 0
                                   ELSE IF usable = {} THEN NOT_CHECKED ELSE ans[refs[first]]
  BY DEF FirstAnswer
<1>2. refs # <<>> /\ DOMAIN refs = 1 .. Len(refs) /\ Len(refs) \in Nat
  OBVIOUS
<1>3. \A k \in DOMAIN refs : ans[refs[k]] \in Answered
  <2>1. \A k \in DOMAIN refs : refs[k] \in L
    BY DEF ToSet
  <2> QED
    BY <2>1, CheckAssumption DEF Answered
<1>4. CASE usable # {}
  <2>1. usable \in SUBSET Nat
    BY <1>2
  <2>2. first \in usable
    <3> HIDE DEF usable
    <3> QED
      BY <1>4, <2>1, LeastNatural
  <2>3. ans[refs[first]] \in Answered
    <3> HIDE DEF first
    <3> QED
      BY <1>3, <2>2
  <2> HIDE DEF usable, first
  <2> QED
    BY <1>1, <1>2, <1>4, <2>3 DEF Answered, UNKNOWN
<1>5. CASE usable = {}
  <2> HIDE DEF usable, first
  <2> QED
    BY <1>1, <1>2, <1>5 DEF Answered, UNKNOWN, NOT_CHECKED
<1> QED
  BY <1>4, <1>5

LEMMA NegateSound ==
  ASSUME NEW v \in Answered, NEW negate
  PROVE  /\ ResolveNegate(v, negate) = -1 <=> v = -1
         /\ ResolveNegate(v, negate) \in Answered
         /\ v # -1 => Class(ResolveNegate(v, negate)) = IF negate THEN Opposite(Class(v)) ELSE Class(v)
<1>1. CASE negate
  BY <1>1 DEF ResolveNegate, Answered, Class, Opposite, PASS, FAIL, ERROR, UNKNOWN
<1>2. CASE ~negate
  BY <1>2 DEF ResolveNegate, Answered, Class, Opposite, PASS, FAIL, ERROR, UNKNOWN
<1> QED
  BY <1>1, <1>2

\* A complex-check yields -1 or a result in the class its tree says.
LEMMA EvaluationSound ==
  ASSUME NEW id \in DOMAIN Check, Check[id].kind = "complex", NEW ans \in [Leaves[id] -> Answers]
  PROVE  /\ CheckEvaluate(id, ans) \in Answered
         /\ CheckEvaluate(id, ans) = -1 \/ Class(CheckEvaluate(id, ans)) = Verdict(id, ans)
<1>1. PICK val : \A c \in DOMAIN Check : val[c] = Yields(val, c, ans) /\ CheckEvaluate(c, ans) = val[c]
  BY CheckEvaluateDef
<1>2. PICK v : \A c \in DOMAIN Check : v[c] = Says(v, c, ans) /\ Verdict(c, ans) = v[c]
  BY VerdictDef
<1> DEFINE Fit(c) == /\ Leaves[c] \subseteq Leaves[id]
                     /\ Check[c].kind # "complex" => Check[c].refs \in Seq(ToSet(Check[c].refs)) \ {<<>>}
           Right(c) == val[c] \in Answered /\ (val[c] # -1 => Class(val[c]) = v[c])
           T == {c \in DOMAIN Check : Fit(c) => Right(c)}
<1>3. ASSUME NEW c \in DOMAIN Check, Parts(c) \subseteq T
      PROVE  c \in T
  <2>1. SUFFICES ASSUME Fit(c)
                 PROVE  Right(c)
    OBVIOUS
  <2>2. val[c] = Yields(val, c, ans) /\ v[c] = Says(v, c, ans)
    BY <1>1, <1>2
  <2>3. CASE Check[c].kind # "complex"
    <3>1. PICK a : a = FirstAnswer(Check[c], ans, 0)
      OBVIOUS
    <3>2. ToSet(Check[c].refs) \subseteq Leaves[id]
      BY <2>1, <2>3, LeavesDef
    <3>3. a \in Answered
      BY <2>1, <2>3, <3>1, <3>2, FirstAnswered
    <3>4. val[c] = ResolveNegate(a, Check[c].negate)
      BY <2>2, <2>3, <3>1 DEF Yields
    <3>5. v[c] = IF Check[c].negate THEN Opposite(Class(a)) ELSE Class(a)
      BY <2>2, <2>3, <3>1 DEF Says
    <3> QED
      BY <3>3, <3>4, <3>5, NegateSound
  <2>4. CASE Check[c].kind = "complex"
    <3>1. PICK kids, vals : /\ kids = Check[c].children
                            /\ vals = [k \in DOMAIN kids |-> val[kids[k]]]
      OBVIOUS
    <3>2. /\ kids \in Seq(DOMAIN Check) /\ kids # <<>> /\ Check[c].oper \in {"AND", "OR"}
          /\ \A p \in Parts(c) : Check[p].kind # "complex" => Check[p].refs \in Seq(ToSet(Check[p].refs)) \ {<<>>}
      BY <2>4, <3>1, CheckAssumption
    <3>3. Parts(c) = {kids[k] : k \in DOMAIN kids} /\ DOMAIN kids = 1 .. Len(kids) /\ Len(kids) \in Nat \ {0}
      BY <2>4, <3>1, <3>2 DEF Parts, ToSet
    <3>4. ASSUME NEW p \in Parts(c)
          PROVE  Right(p)
      <4>1. Leaves[c] = UNION {Leaves[q] : q \in Parts(c)}
        BY <2>4, LeavesDef
      <4>2. Leaves[p] \subseteq Leaves[id]
        BY <2>1, <4>1
      <4>3. Fit(p)
        BY <3>2, <4>2
      <4> QED
        BY <1>3, <4>3
    <3> HIDE DEF Fit
    <3>5. vals \in Seq(Answered) /\ vals # <<>> /\ DOMAIN vals = DOMAIN kids
      <4>1. \A k \in 1 .. Len(kids) : val[kids[k]] \in Answered
        BY <3>3, <3>4
      <4>2. PICK n : n = Len(kids)
        OBVIOUS
      <4>3. vals \in [1 .. n -> Answered] /\ n \in Nat \ {0}
        BY <3>1, <3>3, <4>1, <4>2
      <4>4. vals \in Seq(Answered) /\ Len(vals) = n
        BY <4>3
      <4> QED
        BY <3>1, <4>3, <4>4
    <3>6. PICK a : a = Combine(vals, Check[c].oper)
      OBVIOUS
    <3>7. \/ a = -1
          \/ /\ a \in 1 .. 8 /\ \A k \in DOMAIN vals : vals[k] # -1
             /\ Class(a) = Strongest({Class(vals[k]) : k \in DOMAIN vals}, Check[c].oper)
      BY <3>2, <3>5, <3>6, CombineSound
    <3>8. val[c] = ResolveNegate(a, Check[c].negate)
      BY <2>2, <2>4, <3>1, <3>6 DEF Yields
    <3>9. CASE a = -1
      BY <3>8, <3>9, NegateSound DEF Answered
    <3>10. CASE a # -1
      <4>1. \A k \in DOMAIN kids : Class(vals[k]) = v[kids[k]]
        BY <3>1, <3>3, <3>4, <3>5, <3>7, <3>10
      <4>2. {Class(vals[k]) : k \in DOMAIN vals} = {v[p] : p \in Parts(c)}
        BY <3>3, <3>5, <4>1
      <4>3. v[c] = IF Check[c].negate THEN Opposite(Class(a)) ELSE Class(a)
        BY <2>2, <2>4, <3>7, <3>10, <4>2 DEF Says
      <4> QED
        BY <3>7, <3>8, <3>10, <4>3, NegateSound DEF Answered
    <3> QED
      BY <3>9, <3>10
  <2> QED
    BY <2>3, <2>4
<1>4. T = DOMAIN Check
  <2>1. T \in SUBSET DOMAIN Check
    OBVIOUS
  <2> HIDE DEF T
  <2> QED
    BY <1>3, <2>1, CheckInduction
<1>5. Right(id)
  BY <1>4
<1> QED
  BY <1>1, <1>2, <1>5


\* The check of a rule is one of its candidates.
LEMMA CandidateSelected ==
  ASSUME NEW r \in Rules, NEW selector, SelectedCheck(r, selector) # NoCheck
  PROVE  SelectedCheck(r, selector) \in DOMAIN Check
<1> DEFINE cands == Checks[r]
           complex == {k \in DOMAIN cands : Check[cands[k].check].kind = "complex"}
           With(s) == {k \in DOMAIN cands : cands[k].selector = s}
           named == IF With(selector) = {} THEN With(Unset) ELSE With(selector)
           usable == {k \in named : cands[k].registered}
<1>1. /\ DOMAIN cands = 1 .. Len(cands) /\ Len(cands) \in Nat
      /\ \A k \in DOMAIN cands : cands[k].check \in DOMAIN Check
  BY CheckAssumption
<1>2. complex \in SUBSET DOMAIN cands /\ usable \in SUBSET DOMAIN cands
  OBVIOUS
<1>3. SelectedCheck(r, selector) = IF complex # {} THEN cands[Min(complex)].check
                                   ELSE IF usable = {} THEN NoCheck ELSE cands[Max(usable)].check
  BY DEF SelectedCheck
<1> HIDE DEF cands, complex, With, named, usable
<1>4. complex # {} => Min(complex) \in complex
  BY <1>1, <1>2, LeastNatural DEF Min
<1>5. usable # {} => Max(usable) \in usable
  <2>1. ASSUME usable # {}
        PROVE  \E k \in usable : \A m \in usable : m <= k
    <3>1. PICK n : n = Len(cands)
      OBVIOUS
    <3>2. PICK T : T = {n - k : k \in usable}
      OBVIOUS
    <3>3. T \in SUBSET Nat /\ T # {}
      BY <1>1, <1>2, <2>1, <3>1, <3>2
    <3>4. PICK d \in T : \A e \in T : d <= e
      BY <3>3, LeastNatural
    <3>5. PICK k \in usable : d = n - k
      BY <3>2, <3>4
    <3>6. \A m \in usable : n - k <= n - m
      BY <3>2, <3>4, <3>5
    <3> QED
      BY <1>1, <1>2, <3>1, <3>5, <3>6
  <2> QED
    BY <2>1 DEF Max
<1> QED
  BY <1>1, <1>2, <1>3, <1>4, <1>5

LEMMA VerdictStep ==
  ASSUME PolicyInv, ComplexVerdict, [Next]_vars
  PROVE  ComplexVerdict'
<1>1. CASE results' = results
  BY <1>1 DEF ComplexVerdict
<1>2. ASSUME NEW res, NEW verdict, results' = Append(results, RuleResult(res, verdict)),
             verdict # "none" => Class(res) = verdict
      PROVE  ComplexVerdict'
  <2>1. PICK n, e, S : n = Len(results) /\ e = RuleResult(res, verdict) /\ S = ToSet(results) \cup {e}
    OBVIOUS
  <2>2. e.result = res /\ e.verdict = verdict
    BY <2>1 DEF RuleResult
  <2>3. results \in Seq(S) /\ e \in S
    BY <2>1 DEF PolicyInv, ResultsInv
  <2>4. /\ n \in Nat /\ DOMAIN results = 1 .. n /\ DOMAIN results' = 1 .. n + 1 /\ results'[n + 1] = e
        /\ \A k \in 1 .. n : results'[k] = results[k]
    BY <1>2, <2>1, <2>3, AppendShape
  <2>5. \A k \in 1 .. n + 1 : k \in 1 .. n \/ k = n + 1
    BY <2>4
  <2>6. ASSUME NEW k \in DOMAIN results', results'[k].verdict # "none"
        PROVE  Class(results'[k].result) = results'[k].verdict
    BY <1>2, <2>2, <2>4, <2>5, <2>6 DEF ComplexVerdict
  <2> QED
    BY <2>6 DEF ComplexVerdict
<1>3. ASSUME NEW res, NEW verdict, End(res, verdict), res # -1 /\ verdict # "none" => Class(res) = verdict
      PROVE  ComplexVerdict'
  BY <1>1, <1>2, <1>3 DEF End
<1>4. CASE New \/ AddSelect \/ Evaluate \/ Start \/ UNCHANGED vars
  BY <1>1, <1>4 DEF New, AddSelect, Evaluate, Start, vars
<1>5. CASE Skip \/ Settle \/ Simple
  <2>1. \E res : End(res, "none")
    BY <1>5 DEF Skip, Settle, Simple
  <2> QED
    BY <1>3, <2>1
<1>6. CASE Complex
  <2>1. CheckOf(Cur).kind = "complex"
    BY <1>6 DEF Complex
  <2>2. PICK id : id = ApplicableCheck(Cur)
    OBVIOUS
  <2>3. PICK ans \in [Leaves[id] -> Answers] : End(CheckEvaluate(id, ans), Verdict(id, ans))
    BY <1>6, <2>2 DEF Complex
  <2>4. id # NoCheck /\ Check[id].kind = "complex"
    BY <2>1, <2>2 DEF CheckOf
  <2>5. id \in DOMAIN Check
    <3>1. Cur \in Rules
      BY <1>6, Current DEF Complex, Evaluating
    <3> QED
      BY <2>2, <2>4, <3>1, CandidateSelected DEF ApplicableCheck
  <2>6. CheckEvaluate(id, ans) = -1 \/ Class(CheckEvaluate(id, ans)) = Verdict(id, ans)
    BY <2>4, <2>5, EvaluationSound
  <2> QED
    BY <1>3, <2>3, <2>6
<1>7. CASE Multi
  <2>1. results' = results \/ \E ret : results' = Append(results, RuleResult(ret, "none"))
    BY <1>7 DEF Multi
  <2> QED
    BY <1>1, <1>2, <2>1
<1> QED
  BY <1>4, <1>5, <1>6, <1>7 DEF Next


\* A complex-check passes, fails or is undecided exactly when its tree says so,
\* for every tree of checks and whatever the engines answer
\* (xccdf_policy_check_evaluate, _resolve_operation, _resolve_negate).
THEOREM VerdictsFollowTheTree == Spec => []ComplexVerdict
<1>1. Init => ComplexVerdict
  BY DEF Init, ComplexVerdict
<1>2. PolicyInv /\ ComplexVerdict /\ [Next]_vars => ComplexVerdict'
  BY VerdictStep
<1> QED
  BY <1>1, <1>2, PolicyInvariance, PTL DEF Spec


-----------------------------------------------------------------------------
(***************************************************************************)
(* Scores.  What is reported of a rule is a result; the rules in a group   *)
(* are those in what it holds; a weighted average lies between the least   *)
(* and the greatest value, and reaches them only when all values do.       *)
(***************************************************************************)
LEMMA SimpleAnswered ==
  ASSUME NEW c \in DOMAIN Check, Check[c].kind = "simple", NEW ans \in [ToSet(Check[c].refs) -> Answers]
  PROVE  FirstAnswer(Check[c], ans, NOT_CHECKED) \in Answered
<1>1. PICK check : check = Check[c]
  OBVIOUS
<1>2. check.refs \in Seq(ToSet(check.refs)) /\ ans \in [ToSet(check.refs) -> Answers]
  BY <1>1, CheckAssumption
<1>3. CASE check.refs # <<>>
  <2>1. FirstAnswer(check, ans, 0) \in Answered
    BY <1>2, <1>3, FirstAnswered
  <2>2. FirstAnswer(check, ans, 0) = FirstAnswer(check, ans, NOT_CHECKED)
    BY <1>3 DEF FirstAnswer
  <2> QED
    BY <1>1, <2>1, <2>2
<1>4. CASE check.refs = <<>>
  BY <1>1, <1>4 DEF FirstAnswer, Answered, UNKNOWN, NOT_CHECKED
<1> QED
  BY <1>3, <1>4

LEMMA ResultTypeStep ==
  ASSUME PolicyInv, ResultTypeInv, [Next]_vars
  PROVE  ResultTypeInv'
<1>1. CASE results' = results
  BY <1>1 DEF ResultTypeInv
<1>2. ASSUME NEW res \in 1 .. 8, NEW verdict, results' = Append(results, RuleResult(res, verdict))
      PROVE  ResultTypeInv'
  <2>1. PICK n, e, S : n = Len(results) /\ e = RuleResult(res, verdict) /\ S = ToSet(results) \cup {e}
    OBVIOUS
  <2>2. e.result = res
    BY <2>1 DEF RuleResult
  <2>3. results \in Seq(S) /\ e \in S
    BY <2>1 DEF PolicyInv, ResultsInv
  <2>4. /\ n \in Nat /\ DOMAIN results = 1 .. n /\ DOMAIN results' = 1 .. n + 1 /\ results'[n + 1] = e
        /\ \A k \in 1 .. n : results'[k] = results[k]
    BY <1>2, <2>1, <2>3, AppendShape
  <2>5. \A k \in 1 .. n + 1 : k \in 1 .. n \/ k = n + 1
    BY <2>4
  <2>6. \A k \in DOMAIN results' : results'[k].result \in 1 .. 8
    BY <2>2, <2>4, <2>5 DEF ResultTypeInv
  <2> QED
    BY <2>6 DEF ResultTypeInv
<1>3. ASSUME NEW res \in Answered, NEW verdict, End(res, verdict)
      PROVE  ResultTypeInv'
  <2>1. res = -1 \/ res \in 1 .. 8
    BY DEF Answered
  <2> QED
    BY <1>1, <1>2, <1>3, <2>1 DEF End
<1>4. CASE New \/ AddSelect \/ Evaluate \/ Start \/ UNCHANGED vars
  BY <1>1, <1>4 DEF New, AddSelect, Evaluate, Start, vars
<1>5. CASE Skip
  BY <1>3, <1>5 DEF Skip, Answered, NOT_SELECTED
<1>6. CASE Settle
  <2>1. Settled(Cur) # 0 /\ End(Settled(Cur), "none")
    BY <1>6 DEF Settle
  <2>2. Settled(Cur) \in {0, NOT_SELECTED, NOT_CHECKED, NOT_APPLICABLE, UNKNOWN}
    BY DEF Settled
  <2>3. Settled(Cur) \in Answered
    BY <2>1, <2>2 DEF Answered, NOT_SELECTED, NOT_CHECKED, NOT_APPLICABLE, UNKNOWN
  <2> QED
    BY <1>3, <2>1, <2>3
<1>7. ASSUME CheckOf(Cur).kind \in {"complex", "simple", "multi"}, phase = "evaluating"
      PROVE  ApplicableCheck(Cur) \in DOMAIN Check /\ CheckOf(Cur) = Check[ApplicableCheck(Cur)]
  <2>1. ApplicableCheck(Cur) # NoCheck /\ CheckOf(Cur) = Check[ApplicableCheck(Cur)]
    BY <1>7 DEF CheckOf
  <2>2. Cur \in Rules
    BY <1>7, Current
  <2> QED
    BY <2>1, <2>2, CandidateSelected DEF ApplicableCheck
<1>8. CASE Complex
  <2>1. CheckOf(Cur).kind = "complex" /\ phase = "evaluating"
    BY <1>8 DEF Complex, Evaluating
  <2>2. PICK id : id = ApplicableCheck(Cur)
    OBVIOUS
  <2>3. PICK ans \in [Leaves[id] -> Answers] : End(CheckEvaluate(id, ans), Verdict(id, ans))
    BY <1>8, <2>2 DEF Complex
  <2>4. id \in DOMAIN Check /\ Check[id].kind = "complex"
    BY <1>7, <2>1, <2>2
  <2>5. CheckEvaluate(id, ans) \in Answered
    BY <2>4, EvaluationSound
  <2> QED
    BY <1>3, <2>3, <2>5
<1>9. CASE Simple
  <2>1. CheckOf(Cur).kind = "simple" /\ phase = "evaluating"
    BY <1>9 DEF Simple, Evaluating
  <2>2. PICK id : id \in DOMAIN Check /\ CheckOf(Cur) = Check[id]
    BY <1>7, <2>1
  <2>3. PICK ans \in [ToSet(Check[id].refs) -> Answers] :
           End(ResolveNegate(IF FinalRole(Cur) = "unscored" THEN INFORMATIONAL
                             ELSE FirstAnswer(Check[id], ans, NOT_CHECKED), Check[id].negate), "none")
    BY <1>9, <2>2 DEF Simple
  <2>4. PICK ret : ret = IF FinalRole(Cur) = "unscored" THEN INFORMATIONAL
                         ELSE FirstAnswer(Check[id], ans, NOT_CHECKED)
    OBVIOUS
  <2>5. FirstAnswer(Check[id], ans, NOT_CHECKED) \in Answered
    BY <2>1, <2>2, SimpleAnswered
  <2>6. ret \in Answered
    BY <2>4, <2>5 DEF Answered, INFORMATIONAL
  <2>7. ResolveNegate(ret, Check[id].negate) \in Answered
    BY <2>6, NegateSound
  <2> QED
    BY <1>3, <2>3, <2>4, <2>7
<1>10. CASE Multi
  <2>1. \/ results' = results
        \/ \E a \in Answers : /\ ResolveNegate(a, CheckOf(Cur).negate) # -1
                              /\ results' = Append(results, RuleResult(ResolveNegate(a, CheckOf(Cur).negate), "none"))
    BY <1>10 DEF Multi
  <2>2. \A a \in Answers : a \in Answered
    BY CheckAssumption DEF Answered
  <2>3. ASSUME NEW a \in Answers, ResolveNegate(a, CheckOf(Cur).negate) # -1
        PROVE  ResolveNegate(a, CheckOf(Cur).negate) \in 1 .. 8
    <3>1. ResolveNegate(a, CheckOf(Cur).negate) \in Answered
      BY <2>2, NegateSound
    <3> QED
      BY <2>3, <3>1 DEF Answered
  <2> QED
    BY <1>1, <1>2, <2>1, <2>3
<1> QED
  BY <1>4, <1>5, <1>6, <1>8, <1>9, <1>10 DEF Next

LEMMA ResultTypes == Spec => []ResultTypeInv
<1>1. Init => ResultTypeInv
  BY DEF Init, ResultTypeInv
<1>2. PolicyInv /\ ResultTypeInv /\ [Next]_vars => ResultTypeInv'
  BY ResultTypeStep
<1> QED
  BY <1>1, <1>2, PolicyInvariance, PTL DEF Spec


\* The items an item holds.
Kids(i) == IF i \in Rules THEN {} ELSE ToSet(Content[i])
Nodes == Items \cup {"benchmark"}

LEMMA KidsAreItems ==
  ASSUME NEW i \in Nodes
  PROVE  Kids(i) \subseteq Items /\ \A c \in Kids(i) : Holder(c) = i
<1>1. i \in Rules \/ i \in Groups \cup {"benchmark"}
  BY DEF Nodes, Items
<1>2. CASE i \in Rules
  BY <1>2 DEF Kids
<1>3. CASE i \notin Rules
  <2>1. i \in Groups \cup {"benchmark"} /\ Kids(i) = ToSet(Content[i])
    BY <1>1, <1>3 DEF Kids
  <2>2. Content[i] \in Seq(Items)
    BY <2>1, TreeAssumption
  <2>3. Kids(i) \subseteq Items
    BY <2>1, <2>2 DEF ToSet
  <2>4. ASSUME NEW c \in Kids(i)
        PROVE  Holder(c) = i
    <3>1. Holder(c) \in Groups \cup {"benchmark"} /\ c \in ToSet(Content[Holder(c)])
      BY <2>1 DEF Holder
    <3>2. \A g, h \in Groups \cup {"benchmark"} : g # h => ToSet(Content[g]) \cap ToSet(Content[h]) = {}
      BY TreeAssumption
    <3>3. PICK g : g = Holder(c)
      OBVIOUS
    <3>4. c \in ToSet(Content[i]) /\ c \in ToSet(Content[g]) /\ g \in Groups \cup {"benchmark"}
      BY <2>1, <3>1, <3>3
    <3>5. i = g
      BY ONLY <2>1, <3>2, <3>4
    <3> QED
      BY <3>3, <3>5
  <2> QED
    BY <2>3, <2>4
<1> QED
  BY <1>2, <1>3

\* From the rules up: some item of a set of items holds no other of them.
LEMMA LowestItem ==
  ASSUME NEW S \in SUBSET Nodes, S # {}
  PROVE  \E c \in S : Kids(c) \cap S = {}
<1>1. PICK level \in [Items -> 1 .. Cardinality(Items)] :
         \A i \in Items : Holder(i) # "benchmark" => level[Holder(i)] < level[i]
  BY TreeAssumption
<1>2. Cardinality(Items) \in Nat /\ "benchmark" \notin Items
  BY TreeAssumption, FS_CardinalityType
<1>3. \A i \in Items : level[i] \in Nat
  BY <1>1, <1>2
<1>4. CASE S \cap Items = {}
  BY <1>4, KidsAreItems
<1>5. CASE S \cap Items # {}
  <2>1. PICK U : U = {level[i] : i \in S \cap Items}
    OBVIOUS
  <2>2. U \in SUBSET (1 .. Cardinality(Items)) /\ U # {}
    BY <1>1, <1>5, <2>1
  <2>3. PICK n \in U : \A m \in U : m <= n
    BY <1>2, <2>2, GreatestPlace
  <2>4. PICK c \in S \cap Items : n = level[c]
    BY <2>1, <2>3
  <2>5. ASSUME NEW x \in Kids(c) \cap S
        PROVE  FALSE
    <3>1. x \in Items /\ Holder(x) = c /\ c # "benchmark"
      BY <1>2, <2>4, KidsAreItems DEF Nodes
    <3>2. level[c] < level[x] /\ level[x] <= level[c]
      BY <1>1, <2>1, <2>3, <2>4, <2>5, <3>1
    <3> QED
      BY <1>3, <2>4, <3>1, <3>2
  <2> QED
    BY <2>4, <2>5
<1> QED
  BY <1>4, <1>5

LEMMA ItemInduction ==
  ASSUME NEW T \in SUBSET Nodes, \A i \in Nodes : Kids(i) \subseteq T => i \in T
  PROVE  T = Nodes
<1>1. SUFFICES ASSUME Nodes \ T # {}
               PROVE  FALSE
  OBVIOUS
<1>2. PICK n \in Nodes \ T : Kids(n) \cap (Nodes \ T) = {}
  BY <1>1, LowestItem
<1>3. Kids(n) \subseteq T
  BY <1>2, KidsAreItems DEF Nodes
<1> QED
  BY <1>2, <1>3

\* What is in an item, itself included.
ItemsIn(i) == IF i = "benchmark" THEN Items ELSE {x \in Items : i \in Path[x]}

LEMMA ItemsInKids ==
  ASSUME NEW i \in Nodes
  PROVE  /\ i \in Items => i \in ItemsIn(i)
         /\ i \in Rules => ItemsIn(i) = {i}
         /\ i \notin Rules => \A x \in ItemsIn(i) : x = i \/ \E c \in Kids(i) : x \in ItemsIn(c)
         /\ \A c \in Kids(i) : ItemsIn(c) \subseteq ItemsIn(i)
<1>1. "benchmark" \notin Items /\ Groups \cap Rules = {} /\ Rules \subseteq Items
  BY TreeAssumption DEF Items
<1> DEFINE Through(x) == \A g \in Path[x] : g = x \/ (g \in Groups /\ \E c \in Path[x] : Holder(c) = g)
           T == {x \in Items : Through(x)}
<1>2. ASSUME NEW x \in Items, Holder(x) = "benchmark" \/ Holder(x) \in T
      PROVE  x \in T
  <2>1. CASE Holder(x) = "benchmark"
    BY <2>1, PathDef
  <2>2. CASE Holder(x) # "benchmark"
    <3>1. Holder(x) \in Groups
      <4>1. Holder(x) \in Groups \cup {"benchmark"}
        BY TreeAssumption DEF Holder
      <4> QED
        BY <2>2, <4>1
    <3>2. Path[x] = {x} \cup Path[Holder(x)] /\ Through(Holder(x))
      BY <1>2, <2>2, PathDef
    <3>3. ASSUME NEW g \in Path[x], g # x
          PROVE  g \in Groups /\ \E c \in Path[x] : Holder(c) = g
      BY <3>1, <3>2, <3>3
    <3> QED
      BY <3>3
  <2> QED
    BY <2>1, <2>2
<1>3. T = Items
  <2>1. T \in SUBSET Items
    OBVIOUS
  <2> HIDE DEF T
  <2> QED
    BY <1>2, <2>1, TreeInduction
<1>4. i \in Items => i \in ItemsIn(i)
  BY <1>1, PathFacts DEF ItemsIn
<1>5. ASSUME i \in Rules
      PROVE  ItemsIn(i) = {i}
  <2>1. i # "benchmark" /\ i \in Path[i] /\ i \in Items
    BY <1>1, <1>5, PathFacts
  <2>2. \A x \in Items : i \in Path[x] => i = x
    BY <1>1, <1>3, <1>5
  <2> QED
    BY <2>1, <2>2 DEF ItemsIn
<1>6. ASSUME i \notin Rules, NEW x \in ItemsIn(i), x # i
      PROVE  \E c \in Kids(i) : x \in ItemsIn(c)
  <2>1. Kids(i) = ToSet(Content[i]) /\ Kids(i) \subseteq Items /\ x \in Items
    BY <1>6, KidsAreItems DEF Kids, ItemsIn
  <2>2. \A c \in Kids(i) : ItemsIn(c) = {y \in Items : c \in Path[y]}
    BY <1>1, <2>1 DEF ItemsIn
  <2>3. CASE i = "benchmark"
    <3>1. PICK m \in 1 .. Len(Content["benchmark"]) : Content["benchmark"][m] \in Path[x]
      BY <2>1, TopItem
    <3>2. Content["benchmark"] \in Seq(Items)
      BY TreeAssumption
    <3>3. Content["benchmark"][m] \in Kids(i)
      BY <2>1, <2>3, <3>1, <3>2 DEF ToSet
    <3> QED
      BY <2>1, <2>2, <3>1, <3>3
  <2>4. CASE i # "benchmark"
    <3>1. i \in Path[x]
      BY <2>4 DEF ItemsIn
    <3>2. PICK c \in Path[x] : Holder(c) = i
      BY <1>3, <1>6, <2>1, <3>1
    <3>3. c \in Items
      BY <2>1, PathFacts
    <3>4. c \in Kids(i)
      BY <2>1, <3>2, <3>3, HolderIn
    <3> QED
      BY <2>1, <2>2, <3>2, <3>4
  <2> QED
    BY <2>3, <2>4
<1>7. ASSUME NEW c \in Kids(i), NEW x \in ItemsIn(c)
      PROVE  x \in ItemsIn(i)
  <2>1. c \in Items /\ c # "benchmark" /\ Holder(c) = i
    BY <1>1, KidsAreItems
  <2>2. x \in Items /\ c \in Path[x]
    BY <2>1 DEF ItemsIn
  <2>3. CASE i # "benchmark"
    <3>1. i \in Items
      BY <2>3 DEF Nodes
    <3>2. i \in Path[i] /\ Path[i] \subseteq Path[c] /\ Path[c] \subseteq Path[x]
      BY <2>1, <2>2, <2>3, <3>1, PathFacts
    <3> QED
      BY <2>2, <2>3, <3>2 DEF ItemsIn
  <2> QED
    BY <2>2, <2>3 DEF ItemsIn
<1> QED
  BY <1>4, <1>5, <1>6, <1>7

\* No weight of 0 on the way from item i down to x.
Below(x, i) == \A j \in Path[x] \ (IF i = "benchmark" THEN {} ELSE Path[i]) : Weight[j] > 0

LEMMA BelowKid ==
  ASSUME NEW i \in Nodes, NEW c \in Kids(i), NEW x \in ItemsIn(c)
  PROVE  Below(x, i) <=> Weight[c] > 0 /\ Below(x, c)
<1>1. c \in Items /\ Holder(c) = i /\ c # "benchmark"
  BY KidsAreItems, TreeAssumption
<1>2. x \in Items /\ c \in Path[x]
  BY <1>1 DEF ItemsIn
<1>3. PICK A : A = IF i = "benchmark" THEN {} ELSE Path[i]
  OBVIOUS
<1>4. Path[c] = {c} \cup A /\ c \notin A
  BY <1>1, <1>3, PathDef, PathFacts
<1>5. Path[c] \subseteq Path[x]
  BY <1>2, PathFacts
<1>6. Below(x, i) <=> \A j \in Path[x] \ A : Weight[j] > 0
  BY <1>3 DEF Below
<1>7. Below(x, c) <=> \A j \in Path[x] \ Path[c] : Weight[j] > 0
  BY <1>1 DEF Below
<1> QED
  BY <1>2, <1>4, <1>5, <1>6, <1>7

\* The score of an item, from the scores of what it holds.
ScoredBy(scores, i) ==
    IF i \in Rules
    THEN [count |-> IF Counts(i) THEN 1 ELSE 0,
          score |-> IF Counts(i) /\ Passes(i) THEN <<100, 1>> ELSE <<0, 1>>]
    ELSE GroupScore([c \in ToSet(Content[i]) |-> scores[c]], i)

LEMMA DefaultScoreDef ==
  \A i \in Nodes : DefaultScore[i] = ScoredBy(DefaultScore, i)
<1> DEFINE Closed(A) == \A n \in A : Kids(n) \subseteq A
           F == {A \in SUBSET Nodes : Closed(A) /\ \E f : \A n \in A : f[n] = ScoredBy(f, n)}
<1>1. ASSUME NEW f, NEW h, NEW n \in Nodes, \A m \in Kids(n) : f[m] = h[m]
      PROVE  ScoredBy(f, n) = ScoredBy(h, n)
  <2>1. CASE n \in Rules
    BY <2>1 DEF ScoredBy
  <2>2. CASE n \notin Rules
    <3>1. [c \in ToSet(Content[n]) |-> f[c]] = [c \in ToSet(Content[n]) |-> h[c]]
      BY <1>1, <2>2 DEF Kids
    <3> QED
      BY <2>2, <3>1 DEF ScoredBy
  <2> QED
    BY <2>1, <2>2
<1>2. \A n \in Nodes : Kids(n) \subseteq Nodes
  BY KidsAreItems DEF Nodes
<1>3. {} \in F
  OBVIOUS
<1>4. ASSUME NEW A \in F, A # Nodes
      PROVE  \E c \in Nodes \ A : A \cup {c} \in F
  <2>1. PICK c \in Nodes \ A : Kids(c) \cap (Nodes \ A) = {}
    BY <1>4, LowestItem
  <2>2. Kids(c) \subseteq A
    BY <1>2, <2>1
  <2>3. Closed(A) /\ A \in SUBSET Nodes
    OBVIOUS
  <2>4. PICK f : \A x \in A : f[x] = ScoredBy(f, x)
    OBVIOUS
  <2>5. PICK h : h = [x \in Nodes |-> IF x = c THEN ScoredBy(f, c) ELSE f[x]]
    OBVIOUS
  <2>6. \A x \in A : h[x] = f[x]
    BY <2>1, <2>3, <2>5
  <2>7. \A x \in A : h[x] = ScoredBy(h, x)
    BY <1>1, <2>3, <2>4, <2>6
  <2>8. h[c] = ScoredBy(h, c)
    BY <1>1, <2>1, <2>2, <2>5, <2>6
  <2>9. A \cup {c} \in SUBSET Nodes /\ Closed(A \cup {c})
    BY <2>1, <2>2, <2>3
  <2>10. \A x \in A \cup {c} : h[x] = ScoredBy(h, x)
    BY <2>7, <2>8
  <2> QED
    BY <2>1, <2>9, <2>10
<1>5. Nodes \in F
  <2>1. F \in SUBSET SUBSET Nodes
    OBVIOUS
  <2>2. IsFiniteSet(Nodes)
    BY TreeAssumption, FS_AddElement DEF Nodes
  <2> HIDE DEF F
  <2> QED
    BY <1>3, <1>4, <2>1, <2>2, FamilyExhausts
<1>6. PICK f : \A n \in Nodes : f[n] = ScoredBy(f, n)
  BY <1>5
<1>7. PICK h : h = [n \in Nodes |-> f[n]]
  OBVIOUS
<1>8. \A n \in Nodes : ScoredBy(f, n) = ScoredBy(h, n)
  BY <1>1, <1>2, <1>7
<1>9. h = [n \in Nodes |-> ScoredBy(h, n)]
  BY <1>6, <1>7, <1>8
<1>10. DefaultScore = CHOOSE g : g = [n \in Nodes |-> ScoredBy(g, n)]
  BY DEF DefaultScore, ScoredBy, Nodes
<1>11. DefaultScore = [n \in Nodes |-> ScoredBy(DefaultScore, n)]
  BY <1>9, <1>10
<1> QED
  BY <1>11


-----------------------------------------------------------------------------
\* Adding the weighted value a/b to the sum p/q of weight W keeps it between 0 and 100
\* times the weight, and at either end only if it was there and the value is, or has no weight.
LEMMA ProductPositive ==
  ASSUME NEW x \in Nat, NEW y \in Nat
  PROVE  x * y \in Nat /\ (x * y = 0 <=> x = 0 \/ y = 0)
<1>1. x * y \in Int
  OBVIOUS
<1>2. x > 0 /\ y > 0 => x * y > 0
  OBVIOUS
<1>3. x = 0 \/ y = 0 => x * y = 0
  OBVIOUS
<1> QED
  BY <1>1, <1>2, <1>3

Added(p, q, W, a, b, w, p2, q2) ==
  /\ p2 \in Nat /\ q2 \in Nat \ {0} /\ p2 <= 100 * (q2 * (W + w))
  /\ p2 = 0 <=> p = 0 /\ (w = 0 \/ a = 0)
  /\ p2 = 100 * (q2 * (W + w)) <=> p = 100 * (q * W) /\ (w = 0 \/ a = 100 * b)

LEMMA WeightedStep ==
  ASSUME NEW p \in Nat, NEW q \in Nat \ {0}, NEW W \in Nat,
         NEW a \in Nat, NEW b \in Nat \ {0}, NEW w \in Nat,
         p <= 100 * (q * W), a <= 100 * b,
         NEW p2, p2 = p * b + a * w * q, NEW q2, q2 = q * b
  PROVE  Added(p, q, W, a, b, w, p2, q2)
<1>1. PICK x, y \in Nat : p + x = 100 * (q * W) /\ a + y = 100 * b
  <2>1. PICK u, v \in Nat : u = 100 * (q * W) /\ v = 100 * b
    <3>1. q * W \in Nat
      BY ProductPositive
    <3> QED
      BY <3>1
  <2>2. p <= u /\ a <= v
    BY <2>1
  <2>3. u - p \in Nat /\ p + (u - p) = u /\ v - a \in Nat /\ a + (v - a) = v
    BY ONLY <2>2, p \in Nat, a \in Nat, u \in Nat, v \in Nat
  <2> QED
    BY <2>1, <2>3
<1>2. /\ p * b \in Nat /\ (p * b = 0 <=> p = 0)
      /\ x * b \in Nat /\ (x * b = 0 <=> x = 0)
      /\ a * w \in Nat /\ (a * w = 0 <=> w = 0 \/ a = 0)
      /\ y * w \in Nat /\ (y * w = 0 <=> w = 0 \/ y = 0)
  BY ProductPositive
<1>3. /\ a * w * q \in Nat /\ (a * w * q = 0 <=> w = 0 \/ a = 0)
      /\ y * w * q \in Nat /\ (y * w * q = 0 <=> w = 0 \/ y = 0)
  BY <1>2, ProductPositive
<1>4. q2 \in Nat \ {0}
  BY ProductPositive
<1>5. 100 * (q2 * (W + w)) = p2 + (x * b + y * w * q)
  <2>1. (p + x) * b = 100 * (q * W) * b /\ (a + y) * w * q = 100 * b * w * q
    BY <1>1
  <2>2. (p + x) * b = p * b + x * b /\ (a + y) * w * q = a * w * q + y * w * q
    OBVIOUS
  <2>3. 100 * (q2 * (W + w)) = 100 * (q * W) * b + 100 * b * w * q
    OBVIOUS
  <2> QED
    BY <1>2, <1>3, <2>1, <2>2, <2>3
<1>6. PICK i1, i2, i3, i4 \in Nat : i1 = p * b /\ i2 = x * b /\ i3 = a * w * q /\ i4 = y * w * q
  BY <1>2, <1>3
<1>7. p2 = i1 + i3 /\ 100 * (q2 * (W + w)) = p2 + (i2 + i4)
  BY <1>5, <1>6
<1>8. p2 \in Nat /\ p2 <= 100 * (q2 * (W + w))
  BY ONLY <1>7, <1>6
<1>9. p2 = 0 <=> p = 0 /\ (w = 0 \/ a = 0)
  BY ONLY <1>2, <1>3, <1>6, <1>7
<1>10. p2 = 100 * (q2 * (W + w)) <=> i2 = 0 /\ i4 = 0
  BY ONLY <1>6, <1>7
<1>11. i2 = 0 /\ i4 = 0 <=> x = 0 /\ (w = 0 \/ y = 0)
  BY ONLY <1>2, <1>3, <1>6
<1>12. (x = 0 <=> p = 100 * (q * W)) /\ (y = 0 <=> a = 100 * b)
  <2>1. PICK u, v \in Nat : u = 100 * (q * W) /\ v = 100 * b
    <3>1. q * W \in Nat
      BY ProductPositive
    <3> QED
      BY <3>1
  <2> QED
    BY ONLY <1>1, <2>1, p \in Nat, a \in Nat, x \in Nat, y \in Nat
<1> QED
  BY <1>4, <1>8, <1>9, <1>10, <1>11, <1>12 DEF Added

Sums == [count : Nat, weight : Nat, score : Nat \X Nat]
NoSum == [count |-> 0, weight |-> 0, score |-> <<0, 1>>]
AddTo(acc, s, w) ==
    IF s.count = 0 THEN acc
    ELSE [count |-> acc.count + 1, weight |-> acc.weight + w,
          score |-> <<acc.score[1] * s.score[2] + s.score[1] * w * acc.score[2],
                      acc.score[2] * s.score[2]>>]
IsScore(s) == s.count \in Nat /\ s.score \in Nat \X (Nat \ {0}) /\ s.score[1] <= 100 * s.score[2]

LEMMA AddToType ==
  ASSUME NEW acc \in Sums, NEW s, IsScore(s), NEW w \in Nat
  PROVE  AddTo(acc, s, w) \in Sums
<1>1. PICK p, q, a, b \in Nat : acc.score = <<p, q>> /\ s.score = <<a, b>>
  BY DEF Sums, IsScore
<1>2. p * b + a * w * q \in Nat /\ q * b \in Nat
  <2>1. p * b \in Nat /\ a * w \in Nat /\ q * b \in Nat
    BY ProductPositive
  <2>2. a * w * q \in Nat
    BY <2>1, ProductPositive
  <2>3. PICK i1, i2 \in Nat : i1 = p * b /\ i2 = a * w * q
    BY <2>1, <2>2
  <2> QED
    BY <2>1, <2>3
<1>3. /\ acc.score[1] * s.score[2] + s.score[1] * w * acc.score[2] = p * b + a * w * q
      /\ acc.score[2] * s.score[2] = q * b
  BY <1>1
<1> QED
  BY <1>2, <1>3 DEF AddTo, Sums

LEMMA WeightedSumDef ==
  ASSUME NEW scores, NEW content \in Seq(Items),
         \A n \in 1 .. Len(content) : IsScore(scores[content[n]])
  PROVE  \E f \in [0 .. Len(content) -> Sums] :
            /\ f[0] = NoSum /\ WeightedSum(scores, content) = f[Len(content)]
            /\ \A n \in 1 .. Len(content) : f[n] = AddTo(f[n - 1], scores[content[n]], Weight[content[n]])
<1>1. PICK N : N = Len(content)
  OBVIOUS
<1>2. N \in Nat /\ \A n \in 1 .. N : content[n] \in Items /\ Weight[content[n]] \in Nat
  BY <1>1, WeightAssumption
<1> DEFINE Step(A, n) == AddTo(A, scores[content[n]], Weight[content[n]])
<1>3. \A n \in 1 .. N : \A A \in Sums : Step(A, n) \in Sums
  BY <1>1, <1>2, AddToType
<1>4. NoSum \in Sums
  BY DEF NoSum, Sums
<1>5. \E f : f = [n \in 0 .. N |-> IF n = 0 THEN NoSum ELSE Step(f[n - 1], n)]
  <2> HIDE DEF Step
  <2>1. PICK G : G = [n \in 1 .. N |-> [A \in Sums |-> Step(A, n)]]
    OBVIOUS
  <2>2. G \in [1 .. N -> [Sums -> Sums]]
    BY <1>3, <2>1
  <2>3. PICK f \in [0 .. N -> Sums] : f[0] = NoSum /\ \A n \in 1 .. N : f[n] = G[n][f[n - 1]]
    <3>1. PICK S, z : S = Sums /\ z = NoSum
      OBVIOUS
    <3>2. z \in S /\ G \in [1 .. N -> [S -> S]]
      BY <1>4, <2>2, <3>1
    <3>3. \E f \in [0 .. N -> S] : Recurs(f, z, N, G)
      BY <1>2, <3>2, NatRecursion
    <3> QED
      BY <3>1, <3>3 DEF Recurs
  <2>4. ASSUME NEW n \in 0 .. N
        PROVE  f[n] = IF n = 0 THEN NoSum ELSE Step(f[n - 1], n)
    <3>1. CASE n = 0
      BY <2>3, <3>1
    <3>2. CASE n # 0
      <4>1. n \in 1 .. N /\ n - 1 \in 0 .. N
        BY <1>2, <3>2
      <4>2. f[n - 1] \in Sums
        BY <2>3, <4>1
      <4> QED
        BY <2>1, <2>3, <3>2, <4>1, <4>2
    <3> QED
      BY <3>1, <3>2
  <2>5. f = [n \in 0 .. N |-> IF n = 0 THEN NoSum ELSE Step(f[n - 1], n)]
    BY <2>3, <2>4
  <2> QED
    BY <2>5
<1>6. PICK d : d = CHOOSE f : f = [n \in 0 .. N |-> IF n = 0 THEN NoSum ELSE Step(f[n - 1], n)]
  OBVIOUS
<1>7. WeightedSum(scores, content) = d[N]
  BY <1>1, <1>6 DEF WeightedSum, AddTo, NoSum
<1> HIDE DEF Step
<1>8. d = [n \in 0 .. N |-> IF n = 0 THEN NoSum ELSE Step(d[n - 1], n)]
  BY <1>5, <1>6
<1>9. d[0] = NoSum /\ \A n \in 1 .. N : d[n] = Step(d[n - 1], n)
  BY <1>2, <1>8
<1>10. \A n \in 0 .. N : d[n] \in Sums
  <2>1. SUFFICES ASSUME NEW m \in 0 .. N, d[m] \notin Sums
                 PROVE  FALSE
    OBVIOUS
  <2>2. PICK T : T = {k \in 0 .. N : d[k] \notin Sums}
    OBVIOUS
  <2>3. PICK k \in T : \A j \in T : k <= j
    <3>1. m \in T /\ T \in SUBSET Nat
      BY <1>2, <2>1, <2>2
    <3> QED
      BY <3>1, LeastNatural
  <2>4. k \in 1 .. N /\ k - 1 \in 0 .. N /\ k - 1 \notin T
    BY <1>2, <1>4, <1>9, <2>2, <2>3
  <2> QED
    BY <1>3, <1>9, <2>2, <2>3, <2>4
<1>11. d \in [0 .. N -> Sums]
  BY <1>8, <1>10
<1> QED
  BY <1>1, <1>7, <1>9, <1>11 DEF Step

\* The weighted sum of scores: which children it is made of, and when it is least and greatest.
Extremes(sum, scores, content, n) ==
  LET p == sum.score[1]
      q == sum.score[2]
      in == {m \in 1 .. n : scores[content[m]].count # 0}
      heavy == {m \in in : Weight[content[m]] > 0}
  IN  /\ q > 0 /\ (sum.count = 0 <=> in = {}) /\ (sum.weight = 0 <=> heavy = {})
      /\ p <= 100 * (q * sum.weight)
      /\ p = 0 <=> \A m \in heavy : scores[content[m]].score[1] = 0
      /\ p = 100 * (q * sum.weight) <=>
            \A m \in heavy : scores[content[m]].score[1] = 100 * scores[content[m]].score[2]

LEMMA WeightedSumExtremes ==
  ASSUME NEW scores, NEW content \in Seq(Items),
         \A n \in 1 .. Len(content) : IsScore(scores[content[n]])
  PROVE  /\ WeightedSum(scores, content) \in Sums
         /\ Extremes(WeightedSum(scores, content), scores, content, Len(content))
<1>1. PICK N : N = Len(content)
  OBVIOUS
<1>2. PICK f \in [0 .. N -> Sums] :
            /\ f[0] = NoSum /\ WeightedSum(scores, content) = f[N]
            /\ \A n \in 1 .. N : f[n] = AddTo(f[n - 1], scores[content[n]], Weight[content[n]])
  BY <1>1, WeightedSumDef
<1>3. N \in Nat /\ \A n \in 1 .. N : content[n] \in Items /\ Weight[content[n]] \in Nat
                                     /\ IsScore(scores[content[n]])
  BY <1>1, WeightAssumption
<1> DEFINE Right(n) == Extremes(f[n], scores, content, n)
<1>4. Right(0)
  <2>1. f[0].count = 0 /\ f[0].weight = 0 /\ f[0].score[1] = 0 /\ f[0].score[2] = 1
    BY <1>2 DEF NoSum
  <2> QED
    BY <2>1 DEF Extremes
<1>5. ASSUME NEW n \in 1 .. N, Right(n - 1)
      PROVE  Right(n)
  <2>1. PICK s, w, acc : s = scores[content[n]] /\ w = Weight[content[n]] /\ acc = f[n - 1]
    OBVIOUS
  <2>2. IsScore(s) /\ w \in Nat /\ acc \in Sums /\ f[n] = AddTo(acc, s, w)
    <3>1. n - 1 \in 0 .. N
      BY <1>3
    <3> QED
      BY <1>2, <1>3, <2>1, <3>1
  <2>3. PICK in, in0, hv, hv0 :
           /\ in = {m \in 1 .. n : scores[content[m]].count # 0}
           /\ in0 = {m \in 1 .. n - 1 : scores[content[m]].count # 0}
           /\ hv = {m \in in : Weight[content[m]] > 0}
           /\ hv0 = {m \in in0 : Weight[content[m]] > 0}
    OBVIOUS
  <2>4. \A m : m \in 1 .. n <=> m \in 1 .. n - 1 \/ m = n
    BY <1>3
  <2>5. CASE s.count = 0
    <3>1. in = in0 /\ hv = hv0 /\ f[n] = acc
      BY <2>1, <2>2, <2>3, <2>4, <2>5 DEF AddTo
    <3> QED
      BY <1>5, <2>1, <2>3, <3>1 DEF Extremes
  <2>6. CASE s.count # 0
    <3>1. in = in0 \cup {n} /\ hv = hv0 \cup (IF w > 0 THEN {n} ELSE {})
      BY <2>1, <2>3, <2>4, <2>6
    <3>2. PICK p \in Nat, q \in Nat, a \in Nat, b \in Nat \ {0} : acc.score = <<p, q>> /\ s.score = <<a, b>>
      <4>1. acc.score \in Nat \X Nat
        BY <2>2 DEF Sums
      <4>2. s.score \in Nat \X (Nat \ {0})
        BY <2>2 DEF IsScore
      <4>3. PICK p \in Nat, q \in Nat : acc.score = <<p, q>>
        BY <4>1
      <4>4. PICK a \in Nat, b \in Nat \ {0} : s.score = <<a, b>>
        BY <4>2
      <4> QED
        BY <4>3, <4>4
    <3>3. PICK W \in Nat : acc.weight = W /\ acc.count \in Nat
      BY <2>2 DEF Sums
    <3>4. PICK p2, q2 : p2 = p * b + a * w * q /\ q2 = q * b
      OBVIOUS
    <3>5. f[n].count = acc.count + 1 /\ f[n].weight = W + w /\ f[n].score[1] = p2 /\ f[n].score[2] = q2
      BY <2>2, <2>6, <3>2, <3>3, <3>4 DEF AddTo
    <3>6. /\ q > 0 /\ p <= 100 * (q * W) /\ (W = 0 <=> hv0 = {})
          /\ p = 0 <=> \A m \in hv0 : scores[content[m]].score[1] = 0
          /\ p = 100 * (q * W) <=>
                \A m \in hv0 : scores[content[m]].score[1] = 100 * scores[content[m]].score[2]
      BY <1>5, <2>1, <2>3, <3>2, <3>3 DEF Extremes
    <3>7. a <= 100 * b
      BY <2>2, <3>2 DEF IsScore
    <3>8. /\ p2 \in Nat /\ q2 \in Nat \ {0} /\ p2 <= 100 * (q2 * (W + w))
          /\ p2 = 0 <=> p = 0 /\ (w = 0 \/ a = 0)
          /\ p2 = 100 * (q2 * (W + w)) <=> p = 100 * (q * W) /\ (w = 0 \/ a = 100 * b)
      <4>1. q \in Nat \ {0} /\ w \in Nat
        BY <2>2, <3>6
      <4>2. p <= 100 * (q * W)
        BY <3>6
      <4>3. Added(p, q, W, a, b, w, p2, q2)
        BY ONLY <3>4, <3>7, <4>1, <4>2, p \in Nat, W \in Nat, a \in Nat, b \in Nat \ {0}, WeightedStep
      <4> QED
        BY ONLY <4>3 DEF Added
    <3>9. /\ p2 = 0 <=> \A m \in hv : scores[content[m]].score[1] = 0
          /\ p2 = 100 * (q2 * (W + w)) <=>
                \A m \in hv : scores[content[m]].score[1] = 100 * scores[content[m]].score[2]
      <4>1. scores[content[n]].score[1] = a /\ scores[content[n]].score[2] = b
        BY <2>1, <3>2
      <4>2. (\A m \in hv : scores[content[m]].score[1] = 0)
               <=> (\A m \in hv0 : scores[content[m]].score[1] = 0) /\ (w > 0 => a = 0)
        BY ONLY <3>1, <4>1
      <4>3. (\A m \in hv : scores[content[m]].score[1] = 100 * scores[content[m]].score[2])
               <=> /\ \A m \in hv0 : scores[content[m]].score[1] = 100 * scores[content[m]].score[2]
                   /\ w > 0 => a = 100 * b
        BY ONLY <3>1, <4>1
      <4>4. w > 0 <=> w # 0
        BY <2>2
      <4> QED
        BY ONLY <3>6, <3>8, <4>2, <4>3, <4>4
    <3>10. in # {} /\ acc.count + 1 # 0 /\ (W + w = 0 <=> hv = {})
      <4>1. in # {} /\ acc.count + 1 # 0
        BY <3>1, <3>3
      <4>2. W + w = 0 <=> W = 0 /\ w = 0
        BY <2>2, <3>3
      <4>3. hv = {} <=> hv0 = {} /\ ~(w > 0)
        BY <3>1
      <4> QED
        BY <2>2, <3>6, <4>1, <4>2, <4>3
    <3> QED
      BY <2>3, <3>5, <3>8, <3>9, <3>10 DEF Extremes
  <2> QED
    BY <2>5, <2>6
<1>6. Right(N)
  <2> HIDE DEF Right
  <2>1. SUFFICES ASSUME ~Right(N)
                 PROVE  FALSE
    OBVIOUS
  <2>2. PICK T : T = {k \in 0 .. N : ~Right(k)}
    OBVIOUS
  <2>3. PICK k \in T : \A m \in T : k <= m
    <3>1. N \in T /\ T \in SUBSET Nat
      BY <1>3, <2>1, <2>2
    <3> QED
      BY <3>1, LeastNatural
  <2>4. k \in 1 .. N /\ k - 1 \in 0 .. N /\ k - 1 \notin T
    BY <1>3, <1>4, <2>2, <2>3
  <2> QED
    BY <1>5, <2>2, <2>3, <2>4
<1>7. f[N] \in Sums
  BY <1>2, <1>3
<1> QED
  BY <1>1, <1>2, <1>6, <1>7

-----------------------------------------------------------------------------
\* What the score of an item says about the rules in it.
Counting(i) == {r \in Rules : r \in ItemsIn(i) /\ Counts(r)}

FullScore(i) ==
  /\ \E r \in Counting(i) : Below(r, i)
  /\ \A r \in Counting(i) : Below(r, i) => Passes(r)
  /\ \A g \in Groups : g \in ItemsIn(i) /\ Below(g, i) /\ Counting(g) # {}
                        => \E r \in Counting(g) : Below(r, i)

ScoreOf(s, i) ==
  /\ IsScore(s)
  /\ s.count = 0 <=> Counting(i) = {}
  /\ s.score[1] = 0 <=> \A r \in Counting(i) : Below(r, i) => ~Passes(r)
  /\ s.score[1] = 100 * s.score[2] <=> FullScore(i)

LEMMA RuleScore ==
  ASSUME NEW r \in Rules
  PROVE  ScoreOf(DefaultScore[r], r)
<1>1. DefaultScore[r] = [count |-> IF Counts(r) THEN 1 ELSE 0,
                         score |-> IF Counts(r) /\ Passes(r) THEN <<100, 1>> ELSE <<0, 1>>]
  BY DefaultScoreDef DEF ScoredBy, Nodes, Items
<1>2. PICK s : s = DefaultScore[r]
  OBVIOUS
<1>3. ItemsIn(r) = {r} /\ r \notin Groups
  BY ItemsInKids, TreeAssumption DEF Nodes, Items
<1>4. Below(r, r)
  <2>1. r # "benchmark"
    BY TreeAssumption DEF Items
  <2> QED
    BY <2>1 DEF Below
<1>5. Counting(r) = IF Counts(r) THEN {r} ELSE {}
  BY <1>3 DEF Counting
<1>6. FullScore(r) <=> Counts(r) /\ Passes(r)
  BY <1>3, <1>4, <1>5 DEF FullScore
<1>7. (\A x \in Counting(r) : Below(x, r) => ~Passes(x)) <=> ~(Counts(r) /\ Passes(r))
  BY <1>4, <1>5
<1>8. CASE ~Counts(r)
  <2>1. s.count = 0 /\ s.score = <<0, 1>>
    BY <1>1, <1>2, <1>8
  <2>2. s.score[1] = 0 /\ s.score[2] = 1
    BY <2>1
  <2> QED
    BY <1>2, <1>5, <1>6, <1>7, <1>8, <2>1, <2>2 DEF ScoreOf, IsScore
<1>9. CASE Counts(r) /\ Passes(r)
  <2>1. s.count = 1 /\ s.score = <<100, 1>>
    BY <1>1, <1>2, <1>9
  <2>2. s.score[1] = 100 /\ s.score[2] = 1
    BY <2>1
  <2> QED
    BY <1>2, <1>5, <1>6, <1>7, <1>9, <2>1, <2>2 DEF ScoreOf, IsScore
<1>10. CASE Counts(r) /\ ~Passes(r)
  <2>1. s.count = 1 /\ s.score = <<0, 1>>
    BY <1>1, <1>2, <1>10
  <2>2. s.score[1] = 0 /\ s.score[2] = 1
    BY <2>1
  <2> QED
    BY <1>2, <1>5, <1>6, <1>7, <1>10, <2>1, <2>2 DEF ScoreOf, IsScore
<1> QED
  BY <1>8, <1>9, <1>10

\* A group has the full score when something of weight counts in it and all of that has.
LEMMA FullGroup ==
  ASSUME NEW i \in Nodes, i \notin Rules,
         NEW heavy, heavy = {c \in Kids(i) : Counting(c) # {} /\ Weight[c] > 0}
  PROVE  FullScore(i) <=> heavy # {} /\ \A c \in heavy : FullScore(c)
<1>1. Kids(i) \subseteq Items /\ Rules \subseteq Items /\ Groups \subseteq Items /\ Items = Groups \cup Rules
  BY KidsAreItems DEF Items
<1>2. \A c \in Kids(i) : ItemsIn(c) \subseteq ItemsIn(i) /\ c \in ItemsIn(c)
  BY <1>1, ItemsInKids DEF Nodes
<1>3. \A x \in ItemsIn(i) : x = i \/ \E c \in Kids(i) : x \in ItemsIn(c)
  BY ItemsInKids
<1>4. \A c \in Kids(i) : \A x \in ItemsIn(c) : Below(x, i) <=> Weight[c] > 0 /\ Below(x, c)
  BY BelowKid
<1>5. \A c \in Kids(i) : Below(c, c)
  BY <1>1, TreeAssumption DEF Below
<1>6. ASSUME NEW x \in Items, NEW y \in ItemsIn(x)
      PROVE  ItemsIn(y) \subseteq ItemsIn(x) /\ y \in Items
  <2>1. x # "benchmark" /\ y \in Items /\ x \in Path[y]
    BY TreeAssumption DEF ItemsIn
  <2>2. y # "benchmark"
    BY <2>1, TreeAssumption
  <2>3. \A z \in ItemsIn(y) : z \in Items /\ y \in Path[z]
    BY <2>2 DEF ItemsIn
  <2>4. \A z \in ItemsIn(y) : x \in Path[z]
    BY <2>1, <2>3, PathFacts
  <2> QED
    BY <2>1, <2>3, <2>4 DEF ItemsIn
<1>7. \A x, r : r \in Counting(x) <=> r \in Rules /\ r \in ItemsIn(x) /\ Counts(r)
  BY DEF Counting
<1>8. \A c \in Kids(i) : c \in Rules => \A x \in ItemsIn(c) : x = c
  BY <1>1, ItemsInKids DEF Nodes
<1>9. ASSUME heavy # {}, \A c \in heavy : FullScore(c)
      PROVE  FullScore(i)
  <2>1. \E r \in Counting(i) : Below(r, i)
    <3>1. PICK c \in heavy : FullScore(c)
      BY <1>9
    <3>2. PICK r \in Counting(c) : Below(r, c)
      BY <3>1 DEF FullScore
    <3> QED
      BY <1>2, <1>4, <1>7, <3>1, <3>2
  <2>2. ASSUME NEW r \in Counting(i), Below(r, i)
        PROVE  Passes(r)
    <3>1. PICK c \in Kids(i) : r \in ItemsIn(c)
      BY <1>3, <1>7
    <3>2. r \in Counting(c) /\ Weight[c] > 0 /\ Below(r, c)
      BY <1>4, <1>7, <2>2, <3>1
    <3>3. c \in heavy
      BY <3>2
    <3> QED
      BY <1>9, <3>2, <3>3 DEF FullScore
  <2>3. ASSUME NEW g \in Groups, g \in ItemsIn(i), Below(g, i), Counting(g) # {}
        PROVE  \E r \in Counting(g) : Below(r, i)
    <3>1. CASE g = i
      BY <2>1, <3>1
    <3>2. CASE g # i
      <4>1. PICK c \in Kids(i) : g \in ItemsIn(c)
        BY <1>3, <2>3, <3>2
      <4>2. ItemsIn(g) \subseteq ItemsIn(c)
        BY <1>1, <1>6, <4>1
      <4>3. Weight[c] > 0 /\ Below(g, c)
        BY <1>4, <2>3, <4>1
      <4>4. c \in heavy
        BY <1>7, <2>3, <4>2, <4>3
      <4>5. PICK r \in Counting(g) : Below(r, c)
        BY <1>9, <2>3, <4>1, <4>3, <4>4 DEF FullScore
      <4> QED
        BY <1>4, <1>7, <4>2, <4>3, <4>5
    <3> QED
      BY <3>1, <3>2
  <2> QED
    BY <2>1, <2>2, <2>3 DEF FullScore
<1>10. ASSUME FullScore(i)
       PROVE  heavy # {} /\ \A c \in heavy : FullScore(c)
  <2>1. heavy # {}
    <3>1. PICK r \in Counting(i) : Below(r, i)
      BY <1>10 DEF FullScore
    <3>2. PICK c \in Kids(i) : r \in ItemsIn(c)
      BY <1>3, <1>7, <3>1
    <3> QED
      BY <1>4, <1>7, <3>1, <3>2
  <2>2. ASSUME NEW c \in heavy
        PROVE  FullScore(c)
    <3>1. c \in Kids(i) /\ Counting(c) # {} /\ Weight[c] > 0 /\ c \in Items
      BY <1>1, <2>2
    <3>2. \A x \in ItemsIn(c) : Below(x, i) <=> Below(x, c)
      BY <1>4, <3>1
    <3>3. \E r \in Counting(c) : Below(r, c)
      <4>1. CASE c \in Rules
        BY <1>5, <1>7, <1>8, <3>1, <4>1
      <4>2. CASE c \in Groups
        <5>1. c \in ItemsIn(i) /\ Below(c, i)
          BY <1>2, <1>5, <3>1, <3>2
        <5>2. PICK r \in Counting(c) : Below(r, i)
          BY <1>10, <3>1, <4>2, <5>1 DEF FullScore
        <5> QED
          BY <1>7, <3>2, <5>2
      <4> QED
        BY <1>1, <3>1, <4>1, <4>2
    <3>4. ASSUME NEW r \in Counting(c), Below(r, c)
          PROVE  Passes(r)
      <4>1. r \in Counting(i) /\ Below(r, i)
        BY <1>2, <1>7, <3>1, <3>2, <3>4
      <4> QED
        BY <1>10, <4>1 DEF FullScore
    <3>5. ASSUME NEW g \in Groups, g \in ItemsIn(c), Below(g, c), Counting(g) # {}
          PROVE  \E r \in Counting(g) : Below(r, c)
      <4>1. g \in ItemsIn(i) /\ Below(g, i)
        BY <1>2, <3>1, <3>2, <3>5
      <4>2. PICK r \in Counting(g) : Below(r, i)
        BY <1>10, <3>5, <4>1 DEF FullScore
      <4>3. ItemsIn(g) \subseteq ItemsIn(c)
        BY <1>6, <3>1, <3>5
      <4> QED
        BY <1>7, <3>2, <4>2, <4>3
    <3> QED
      BY <3>3, <3>4, <3>5 DEF FullScore
  <2> QED
    BY <2>1, <2>2
<1> QED
  BY <1>9, <1>10

LEMMA GroupScores ==
  ASSUME NEW i \in Nodes, i \notin Rules, \A c \in Kids(i) : ScoreOf(DefaultScore[c], c)
  PROVE  ScoreOf(DefaultScore[i], i)
<1>1. PICK content, scores : content = Content[i] /\ scores = [c \in ToSet(content) |-> DefaultScore[c]]
  OBVIOUS
<1>2. content \in Seq(Items)
  BY <1>1, TreeAssumption DEF Nodes, Items
<1>3. PICK N \in Nat : N = Len(content) /\ DOMAIN content = 1 .. N
  BY <1>2
<1>4. Kids(i) = {content[m] : m \in 1 .. N}
  BY <1>1, <1>3 DEF Kids, ToSet
<1>5. \A m \in 1 .. N : content[m] \in Kids(i) /\ scores[content[m]] = DefaultScore[content[m]]
  BY <1>1, <1>4 DEF Kids
<1>6. \A m \in 1 .. N : ScoreOf(scores[content[m]], content[m])
  BY <1>5
<1>7. PICK sum : sum = WeightedSum(scores, content)
  OBVIOUS
<1>8. sum \in Sums /\ Extremes(sum, scores, content, N)
  <2>1. \A m \in 1 .. Len(content) : IsScore(scores[content[m]])
    BY <1>3, <1>6 DEF ScoreOf
  <2> QED
    BY <1>2, <1>3, <1>7, <2>1, WeightedSumExtremes
<1>9. PICK s : s = DefaultScore[i]
  OBVIOUS
<1>10. s = [count |-> sum.count,
            score |-> IF sum.weight = 0 THEN sum.score ELSE <<sum.score[1], sum.score[2] * sum.weight>>]
  BY <1>1, <1>7, <1>9, DefaultScoreDef DEF ScoredBy, GroupScore
<1>11. PICK p \in Nat, q \in Nat, W \in Nat : sum.score = <<p, q>> /\ sum.weight = W /\ sum.count \in Nat
  BY <1>8 DEF Sums
<1>12. PICK in, hv : /\ in = {m \in 1 .. N : scores[content[m]].count # 0}
                     /\ hv = {m \in in : Weight[content[m]] > 0}
  OBVIOUS
<1>13. /\ q > 0 /\ (sum.count = 0 <=> in = {}) /\ (W = 0 <=> hv = {})
       /\ p <= 100 * (q * W)
       /\ p = 0 <=> \A m \in hv : scores[content[m]].score[1] = 0
       /\ p = 100 * (q * W) <=>
             \A m \in hv : scores[content[m]].score[1] = 100 * scores[content[m]].score[2]
  BY <1>8, <1>11, <1>12 DEF Extremes
<1>14. PICK Q \in Nat \ {0} : Q = IF W = 0 THEN q ELSE q * W
  BY <1>13, ProductPositive
<1>15. s.count = sum.count /\ s.score = <<p, Q>>
  BY <1>10, <1>11, <1>14
<1>16. p <= 100 * Q /\ (p = 100 * Q <=> hv # {} /\ p = 100 * (q * W))
  <2>1. CASE W = 0
    <3>1. q * W = 0 /\ Q = q /\ hv = {}
      BY <1>13, <1>14, <2>1
    <3>2. p = 0
      BY <1>13, <3>1
    <3> QED
      BY ONLY <3>1, <3>2, Q \in Nat \ {0}
  <2>2. CASE W # 0
    BY <1>13, <1>14, <2>2
  <2> QED
    BY <2>1, <2>2
<1>17. \A r \in Rules : r \in ItemsIn(i) <=> \E c \in Kids(i) : r \in ItemsIn(c)
  BY ItemsInKids
<1>18. \A m \in 1 .. N : m \in in <=> Counting(content[m]) # {}
  BY <1>6, <1>12 DEF ScoreOf
<1>19. in = {} <=> Counting(i) = {}
  <2>1. in \subseteq 1 .. N
    BY <1>12
  <2>2. Counting(i) = {} <=> \A c \in Kids(i) : Counting(c) = {}
    BY <1>17 DEF Counting
  <2> QED
    BY ONLY <1>4, <1>18, <2>1, <2>2
<1>20. PICK heavy : heavy = {c \in Kids(i) : Counting(c) # {} /\ Weight[c] > 0}
  OBVIOUS
<1>21. heavy = {content[m] : m \in hv} /\ hv \subseteq 1 .. N
  BY <1>4, <1>12, <1>18, <1>20
<1>22. (\A m \in hv : scores[content[m]].score[1] = 0)
          <=> \A r \in Counting(i) : Below(r, i) => ~Passes(r)
  <2>1. (\A m \in hv : scores[content[m]].score[1] = 0)
           <=> \A c \in heavy : \A r \in Counting(c) : Below(r, c) => ~Passes(r)
    BY <1>6, <1>21 DEF ScoreOf
  <2>2. \A c \in Kids(i) : \A r \in Counting(c) : Below(r, i) <=> Weight[c] > 0 /\ Below(r, c)
    BY BelowKid DEF Counting
  <2>3. \A r : r \in Counting(i) <=> \E c \in Kids(i) : r \in Counting(c)
    BY <1>17 DEF Counting
  <2> QED
    BY ONLY <1>20, <2>1, <2>2, <2>3
<1>23. (\A m \in hv : scores[content[m]].score[1] = 100 * scores[content[m]].score[2])
          <=> \A c \in heavy : FullScore(c)
  BY <1>6, <1>21 DEF ScoreOf
<1>24. p = 100 * Q <=> FullScore(i)
  <2>1. FullScore(i) <=> heavy # {} /\ \A c \in heavy : FullScore(c)
    BY <1>20, FullGroup
  <2>2. heavy # {} <=> hv # {}
    BY <1>21
  <2> QED
    BY ONLY <1>13, <1>16, <1>23, <2>1, <2>2
<1>25. s.score[1] = p /\ s.score[2] = Q
  BY <1>15
<1>26. IsScore(s)
  BY <1>11, <1>15, <1>16, <1>25 DEF IsScore
<1> QED
  BY <1>9, <1>13, <1>15, <1>19, <1>22, <1>24, <1>25, <1>26 DEF ScoreOf

LEMMA ItemScores == \A i \in Nodes : ScoreOf(DefaultScore[i], i)
<1>1. PICK T : T = {i \in Nodes : ScoreOf(DefaultScore[i], i)}
  OBVIOUS
<1>2. \A i \in Nodes : Kids(i) \subseteq T => i \in T
  BY <1>1, RuleScore, GroupScores
<1>3. T \in SUBSET Nodes
  BY <1>1
<1>4. T = Nodes
  BY <1>2, <1>3, ItemInduction
<1> QED
  BY <1>1, <1>4


-----------------------------------------------------------------------------
\* The absolute score, which is summed up over the rules in document order.
Flats == [weight : Nat, score : Nat]
NoFlat == [weight |-> 0, score |-> 0]
AddRule(acc, r) ==
    IF ~Counts(r) THEN acc
    ELSE [weight |-> acc.weight + Weight[r], score |-> acc.score + IF Passes(r) THEN Weight[r] ELSE 0]

LEMMA FlatScoreDef ==
         \E f \in [0 .. Len(Order) -> Flats] :
            /\ f[0] = NoFlat /\ FlatScore = f[Len(Order)]
            /\ \A n \in 1 .. Len(Order) : f[n] = AddRule(f[n - 1], Order[n])
<1>1. PICK N \in Nat : N = Len(Order)
  BY OrderAssumption
<1>2. \A n \in 1 .. N : Order[n] \in Rules /\ Weight[Order[n]] \in Nat
  BY <1>1, OrderAssumption, WeightAssumption DEF Items
<1>3. \A n \in 1 .. N : \A A \in Flats : AddRule(A, Order[n]) \in Flats
  BY <1>2 DEF AddRule, Flats
<1>4. NoFlat \in Flats
  BY DEF NoFlat, Flats
<1>5. \E f : f = [n \in 0 .. N |-> IF n = 0 THEN NoFlat ELSE AddRule(f[n - 1], Order[n])]
  <2>1. PICK G : G = [n \in 1 .. N |-> [A \in Flats |-> AddRule(A, Order[n])]]
    OBVIOUS
  <2>2. G \in [1 .. N -> [Flats -> Flats]]
    BY <1>3, <2>1
  <2>3. PICK f \in [0 .. N -> Flats] : f[0] = NoFlat /\ \A n \in 1 .. N : f[n] = G[n][f[n - 1]]
    <3>1. PICK S, z : S = Flats /\ z = NoFlat
      OBVIOUS
    <3>2. z \in S /\ G \in [1 .. N -> [S -> S]]
      BY <1>4, <2>2, <3>1
    <3>3. \E f \in [0 .. N -> S] : Recurs(f, z, N, G)
      BY <3>2, NatRecursion
    <3> QED
      BY <3>1, <3>3 DEF Recurs
  <2>4. ASSUME NEW n \in 0 .. N
        PROVE  f[n] = IF n = 0 THEN NoFlat ELSE AddRule(f[n - 1], Order[n])
    <3>1. CASE n = 0
      BY <2>3, <3>1
    <3>2. CASE n # 0
      <4>1. n \in 1 .. N /\ n - 1 \in 0 .. N
        BY <3>2
      <4>2. f[n - 1] \in Flats
        BY <2>3, <4>1
      <4> QED
        BY <2>1, <2>3, <3>2, <4>1, <4>2
    <3> QED
      BY <3>1, <3>2
  <2>5. f = [n \in 0 .. N |-> IF n = 0 THEN NoFlat ELSE AddRule(f[n - 1], Order[n])]
    BY <2>3, <2>4
  <2> QED
    BY <2>5
<1>6. PICK d : d = CHOOSE f : f = [n \in 0 .. N |-> IF n = 0 THEN NoFlat ELSE AddRule(f[n - 1], Order[n])]
  OBVIOUS
<1>7. FlatScore = d[N]
  BY <1>1, <1>6 DEF FlatScore, AddRule, NoFlat
<1>8. d = [n \in 0 .. N |-> IF n = 0 THEN NoFlat ELSE AddRule(d[n - 1], Order[n])]
  BY <1>5, <1>6
<1>9. d[0] = NoFlat /\ \A n \in 1 .. N : d[n] = AddRule(d[n - 1], Order[n])
  BY <1>8
<1>10. \A n \in 0 .. N : d[n] \in Flats
  <2>1. SUFFICES ASSUME NEW m \in 0 .. N, d[m] \notin Flats
                 PROVE  FALSE
    OBVIOUS
  <2>2. PICK T : T = {k \in 0 .. N : d[k] \notin Flats}
    OBVIOUS
  <2>3. PICK k \in T : \A j \in T : k <= j
    <3>1. m \in T /\ T \in SUBSET Nat
      BY <2>1, <2>2
    <3> QED
      BY <3>1, LeastNatural
  <2>4. k \in 1 .. N /\ k - 1 \in 0 .. N /\ k - 1 \notin T
    BY <1>4, <1>9, <2>2, <2>3
  <2> QED
    BY <1>3, <1>9, <2>2, <2>3, <2>4
<1>11. d \in [0 .. N -> Flats]
  BY <1>8, <1>10
<1> QED
  BY <1>1, <1>7, <1>9, <1>11

FlatGood(r) == Counts(r) /\ Weight[r] > 0 => Passes(r)

LEMMA FlatScoreFull ==
         FlatScore.score = FlatScore.weight <=> \A r \in Rules : FlatGood(r)
<1>1. PICK N \in Nat : N = Len(Order)
  BY OrderAssumption
<1>2. PICK f \in [0 .. N -> Flats] :
         /\ f[0] = NoFlat /\ FlatScore = f[N]
         /\ \A n \in 1 .. N : f[n] = AddRule(f[n - 1], Order[n])
  BY <1>1, FlatScoreDef
<1> DEFINE Right(n) == /\ f[n].score <= f[n].weight
                       /\ f[n].score = f[n].weight <=> \A m \in 1 .. n : FlatGood(Order[m])
<1>3. Right(0)
  BY <1>2 DEF NoFlat
<1>4. ASSUME NEW n \in 1 .. N, Right(n - 1)
      PROVE  Right(n)
  <2>1. PICK r, acc : r = Order[n] /\ acc = f[n - 1]
    OBVIOUS
  <2>2. r \in Rules /\ Weight[r] \in Nat
    BY <1>1, <2>1, OrderAssumption, WeightAssumption DEF Items
  <2>3. acc \in Flats /\ f[n] = AddRule(acc, r)
    <3>1. n - 1 \in 0 .. N
      OBVIOUS
    <3> QED
      BY <1>2, <2>1, <3>1
  <2>4. acc.weight \in Nat /\ acc.score \in Nat
    BY <2>3 DEF Flats
  <2>5. \A m : m \in 1 .. n <=> m \in 1 .. n - 1 \/ m = n
    OBVIOUS
  <2>6. (\A m \in 1 .. n : FlatGood(Order[m]))
           <=> (\A m \in 1 .. n - 1 : FlatGood(Order[m])) /\ FlatGood(r)
    BY ONLY <2>1, <2>5
  <2>7. /\ acc.score <= acc.weight
        /\ acc.score = acc.weight <=> \A m \in 1 .. n - 1 : FlatGood(Order[m])
    BY <1>4, <2>1
  <2>8. f[n].score <= f[n].weight /\ (f[n].score = f[n].weight <=> acc.score = acc.weight /\ FlatGood(r))
    <3>1. CASE ~Counts(r)
      BY <2>3, <2>7, <3>1 DEF AddRule, FlatGood
    <3>2. CASE Counts(r)
      <4>1. f[n].weight = acc.weight + Weight[r] /\ f[n].score = acc.score + IF Passes(r) THEN Weight[r] ELSE 0
        BY <2>3, <3>2 DEF AddRule
      <4>2. acc.score <= acc.weight
        BY <2>7
      <4> QED
        BY <2>2, <2>4, <3>2, <4>1, <4>2 DEF FlatGood
    <3> QED
      BY <3>1, <3>2
  <2> QED
    BY <2>6, <2>7, <2>8
<1>5. Right(N)
  <2> HIDE DEF Right
  <2>1. SUFFICES ASSUME ~Right(N)
                 PROVE  FALSE
    OBVIOUS
  <2>2. PICK T : T = {k \in 0 .. N : ~Right(k)}
    OBVIOUS
  <2>3. PICK k \in T : \A m \in T : k <= m
    <3>1. N \in T /\ T \in SUBSET Nat
      BY <2>1, <2>2
    <3> QED
      BY <3>1, LeastNatural
  <2>4. k \in 1 .. N /\ k - 1 \in 0 .. N /\ k - 1 \notin T
    BY <1>3, <2>2, <2>3
  <2> QED
    BY <1>4, <2>2, <2>3, <2>4
<1>6. (\A m \in 1 .. N : FlatGood(Order[m])) <=> \A r \in Rules : FlatGood(r)
  <2>1. DOMAIN Order = 1 .. N /\ \A m \in 1 .. N : Order[m] \in Rules
    BY <1>1, OrderAssumption
  <2>2. \A r \in Rules : \E m \in 1 .. N : Order[m] = r
    BY <2>1, OrderAssumption
  <2> QED
    BY ONLY <2>1, <2>2
<1> QED
  BY <1>2, <1>5, <1>6

-----------------------------------------------------------------------------
\* Where the results of a rule agree, the first one says whether the rule counts and
\* whether it passed.
LEMMA CountedRules ==
  ASSUME PolicyInv, ResultTypeInv, Unanimous, NEW r \in Rules
  PROVE  /\ Counts(r) <=> \E k \in ResultsFor(results, r) : Scored(k)
         /\ Counts(r) => (Passes(r) <=> \A k \in ResultsFor(results, r) : Scored(k) => ScoredPass(k))
<1>1. PICK S : S = {k \in DOMAIN results : results[k].rule = r}
  OBVIOUS
<1>2. S = ResultsFor(results, r) /\ (HasResult(r) <=> S # {})
  BY <1>1 DEF ResultsFor, HasResult
<1>3. CASE S = {}
  BY <1>2, <1>3 DEF Counts
<1>4. CASE S # {}
  <2>1. S \in SUBSET Nat
    <3>1. DOMAIN results \in SUBSET Nat
      BY DEF PolicyInv, ResultsInv
    <3> QED
      BY <1>1, <3>1
  <2>2. PICK k \in S : k = Min(S)
    BY <1>4, <2>1, LeastNatural DEF Min
  <2>3. ResultOf(r) = results[k] /\ results[k].result \in 1 .. 8
    BY <1>1, <2>2 DEF ResultOf, ResultTypeInv
  <2>4. Counts(r) <=> Scored(k)
    BY <1>2, <1>4, <2>3 DEF Counts, Scored, Ignored, PASS, FAIL, ERROR, UNKNOWN, NOT_APPLICABLE,
                            NOT_CHECKED, NOT_SELECTED, INFORMATIONAL
  <2>5. Scored(k) => (Passes(r) <=> ScoredPass(k))
    BY <2>3 DEF Passes, ScoredPass
  <2>6. \A j \in S : Scored(j) = Scored(k) /\ ScoredPass(j) = ScoredPass(k)
    BY <1>2, <2>2 DEF Unanimous
  <2> QED
    BY <1>2, <2>2, <2>4, <2>5, <2>6
<1> QED
  BY <1>3, <1>4

LEMMA ScoreState ==
  ASSUME PolicyInv, ResultTypeInv
  PROVE  ScoreSound
<1>1. PICK counted, passed, bearing, s :
         /\ counted = {r \in Rules : \E k \in ResultsFor(results, r) : Scored(k)}
         /\ passed = {r \in counted : \A k \in ResultsFor(results, r) : Scored(k) => ScoredPass(k)}
         /\ bearing = {r \in counted : Bears(r)}
         /\ s = DefaultScore["benchmark"].score
  OBVIOUS
<1>2. ScoreOf(DefaultScore["benchmark"], "benchmark")
  BY ItemScores DEF Nodes
<1>3. /\ s \in Nat \X (Nat \ {0}) /\ s[1] <= 100 * s[2]
      /\ s[1] = 0 <=> \A r \in Counting("benchmark") : Below(r, "benchmark") => ~Passes(r)
      /\ s[1] = 100 * s[2] <=> FullScore("benchmark")
  BY <1>1, <1>2 DEF ScoreOf, IsScore
<1>4. s[2] > 0 /\ 0 <= s[1]
  BY <1>3
<1>5. ASSUME Unanimous
      PROVE  /\ (s[1] = 0) <=> bearing \cap passed = {}
             /\ (s[1] = 100 * s[2]) <=>
                   /\ bearing # {} /\ bearing \subseteq passed
                   /\ \A g \in Groups : Bears(g) /\ (\E r \in counted : g \in Path[r])
                                        => \E r \in bearing : g \in Path[r]
             /\ (FlatScore.score = FlatScore.weight) <=>
                   \A r \in counted : Weight[r] > 0 => r \in passed
  <2>1. counted = {r \in Rules : Counts(r)}
    BY <1>1, <1>5, CountedRules
  <2>2. passed = {r \in counted : Passes(r)}
    BY <1>1, <1>5, <2>1, CountedRules
  <2>3. Rules \subseteq Items /\ Groups \subseteq Items /\ ItemsIn("benchmark") = Items
    BY DEF Items, ItemsIn
  <2>4. Counting("benchmark") = counted
    BY <2>1, <2>3 DEF Counting
  <2>5. \A x : Below(x, "benchmark") <=> Bears(x)
    BY DEF Below, Bears
  <2>6. \A g \in Groups : Counting(g) = {r \in counted : g \in Path[r]}
    <3>1. \A g \in Groups : ItemsIn(g) = {x \in Items : g \in Path[x]}
      BY <2>3, TreeAssumption DEF ItemsIn
    <3> QED
      BY <2>1, <2>3, <3>1 DEF Counting
  <2>7. (s[1] = 0) <=> bearing \cap passed = {}
    BY <1>1, <1>3, <2>2, <2>4, <2>5
  <2>8. /\ (\E r \in Counting("benchmark") : Below(r, "benchmark")) <=> bearing # {}
        /\ (\A r \in Counting("benchmark") : Below(r, "benchmark") => Passes(r))
              <=> bearing \subseteq passed
    BY <1>1, <2>2, <2>4, <2>5
  <2>9. \A g \in Groups : /\ Counting(g) # {} <=> \E r \in counted : g \in Path[r]
                          /\ (\E r \in Counting(g) : Below(r, "benchmark"))
                                <=> \E r \in bearing : g \in Path[r]
    BY <1>1, <2>5, <2>6
  <2>10. FullScore("benchmark") <=>
            /\ bearing # {} /\ bearing \subseteq passed
            /\ \A g \in Groups : Bears(g) /\ (\E r \in counted : g \in Path[r])
                                 => \E r \in bearing : g \in Path[r]
    BY <2>3, <2>5, <2>8, <2>9 DEF FullScore
  <2>11. (FlatScore.score = FlatScore.weight) <=>
            \A r \in counted : Weight[r] > 0 => r \in passed
    BY <2>1, <2>2, FlatScoreFull DEF FlatGood
  <2> QED
    BY <1>3, <2>7, <2>10, <2>11
<1> QED
  BY <1>1, <1>3, <1>4, <1>5 DEF ScoreSound

\* Whatever the tree of groups and its weights, 0 included: the default score of a
\* finished or stopped evaluation is a number between 0 and 100; unless the results of
\* a multi-check rule disagree, it is 0 exactly when no rule whose weight reaches the
\* benchmark passed, 100 exactly when all of those that count did and no group that
\* bears weight is scored by rules without, and the absolute score is full exactly when
\* every rule that counts and has a weight passed (xccdf_item_get_default_score,
\* xccdf_item_get_flat_score).
THEOREM ScoresAreSound == Spec => []ScoreSound
<1>1. PolicyInv /\ ResultTypeInv => ScoreSound
  BY ScoreState
<1> QED
  BY <1>1, PolicyInvariance, ResultTypes, PTL
=============================================================================
