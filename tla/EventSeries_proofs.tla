-------------------------- MODULE EventSeries_proofs --------------------------
(***************************************************************************)
(* What holds of a series for every rule, horizon and number of calls: its *)
(* types, that history is kept, and that the calendar stays in step with   *)
(* the rule. The second rests on ClockInv: a call acts on a clock it read  *)
(* at most a tick ago; the third on CalendarInv: how far a call has got.   *)
(***************************************************************************)
EXTENDS EventSeries, TLAPS

LEMMA RuleTypes ==
    ASSUME NEW r \in Rules
    PROVE  r.starts \in Nat /\ r # NoRule
BY RulesAssumption DEF Rule

\* A row of event_series that is there is not the absent one.
LEMMA SeriesIsThere ==
    ASSUME NEW s \in [rule : Rules, version : 1..MaxVersions, through : Nat]
    PROVE  s # NoSeries
BY RulesAssumption DEF NoSeries

LEMMA HorizonTypes ==
    ASSUME NEW n \in 0..MaxClock
    PROVE  n + Horizon \in Times /\ n..n + MaxHorizon \subseteq Times
BY HorizonAssumption DEF Times

LEMMA ReturnTypes ==
    ASSUME TypeOK, NEW c \in Calls, Return(c)
    PROVE  /\ pc' \in [Calls -> {"idle", "stored", "dropped", "ending", "loaded", "filled"}]
           /\ at' \in [Calls -> 0..MaxClock]
           /\ read' \in [Calls -> SeriesRow]
           /\ goal' \in [Calls -> Times]
           /\ \A d \in Calls : pc'[d] \in {"loaded", "filled"} => read'[d] # NoSeries
BY HorizonAssumption DEF TypeOK, Return, SeriesRow, Times

LEMMA SeriesInit == Init => TypeOK
<1> SUFFICES ASSUME Init PROVE TypeOK OBVIOUS
<1>1. now \in 0..MaxClock /\ edits \in 0..MaxEdits /\ faults \in 0..MaxFaults
  BY HorizonAssumption, BoundsAssumption DEF Init
<1>2. status = "none" /\ series = NoSeries /\ series \in SeriesRow
  BY DEF Init, SeriesRow
<1>3. occ \in [Times -> [version : 1..MaxVersions, edited : BOOLEAN] \cup {NoRow}]
  BY DEF Init
<1>4. /\ pc \in [Calls -> {"idle", "stored", "dropped", "ending", "loaded", "filled"}]
      /\ \A c \in Calls : pc[c] = "idle"
  BY DEF Init
<1>5. at \in [Calls -> 0..MaxClock] /\ goal \in [Calls -> Times]
  BY HorizonAssumption DEF Init, Times
<1>6. read \in [Calls -> SeriesRow] /\ away \subseteq Times /\ tangled \in BOOLEAN
  BY DEF Init, SeriesRow
<1> QED BY <1>1, <1>2, <1>3, <1>4, <1>5, <1>6 DEF TypeOK

LEMMA SeriesTypeStep == TypeOK /\ [Next]_vars => TypeOK'
<1> SUFFICES ASSUME TypeOK, [Next]_vars PROVE TypeOK' OBVIOUS
<1> USE DEF TypeOK
<1>0. CASE UNCHANGED vars BY <1>0 DEF vars, locals
<1>1. ASSUME NEW c \in Calls, ReadSeries(c) PROVE TypeOK'
  <2>1. series # NoSeries /\ goal' \in [Calls -> Times] /\ at' \in [Calls -> 0..MaxClock]
    BY <1>1, HorizonTypes DEF ReadSeries, Load
  <2> QED BY <1>1, <2>1 DEF ReadSeries, Load
<1>2. ASSUME NEW c \in Calls, Materialize(c) PROVE TypeOK'
  <2>1. read[c] \in [rule : Rules, version : 1..MaxVersions, through : Nat]
    BY <1>2 DEF Materialize, SeriesRow
  <2>2. occ' \in [Times -> [version : 1..MaxVersions, edited : BOOLEAN] \cup {NoRow}]
    BY <1>2, <2>1 DEF Materialize
  <2> QED BY <1>2, <2>2 DEF Materialize
<1>3. ASSUME NEW c \in Calls, RecordHorizon(c) PROVE TypeOK'
  <2>1. series' \in SeriesRow /\ (status = "live" <=> series' # NoSeries)
    <3>1. CASE status = "live"
      <4>1. series \in [rule : Rules, version : 1..MaxVersions, through : Nat] /\ goal[c] \in Nat
        BY <3>1, HorizonAssumption DEF SeriesRow, Times
      <4>2. series' \in [rule : Rules, version : 1..MaxVersions, through : Nat]
        BY <1>3, <3>1, <4>1 DEF RecordHorizon
      <4> QED BY <3>1, <4>2, SeriesIsThere DEF SeriesRow
    <3> QED BY <1>3, <3>1 DEF RecordHorizon
  <2> QED BY <1>3, <2>1, ReturnTypes DEF RecordHorizon
<1>4. ASSUME NEW c \in Calls, NEW r \in Rules, CreateEventSeries(c, r) PROVE TypeOK'
  <2>1. series' \in [rule : Rules, version : 1..MaxVersions, through : Nat]
    BY <1>4, RuleTypes, BoundsAssumption DEF CreateEventSeries
  <2>2. series' # NoSeries /\ series' \in SeriesRow
    BY <2>1, SeriesIsThere DEF SeriesRow
  <2>3. CASE now + Horizon > r.starts
    BY <1>4, <2>2, <2>3, HorizonTypes DEF CreateEventSeries
  <2>4. CASE ~(now + Horizon > r.starts)
    BY <1>4, <2>2, <2>4 DEF CreateEventSeries, locals
  <2> QED BY <2>3, <2>4
<1>5. ASSUME NEW c \in Calls, NEW r \in Rules, StoreRule(c, r) PROVE TypeOK'
  <2>1. series \in [rule : Rules, version : 1..MaxVersions, through : Nat]
    BY <1>5 DEF StoreRule, SeriesRow
  <2>2. Latest(r.starts, now) \in Nat
    BY RuleTypes, HorizonAssumption DEF Latest
  <2>3. series' \in [rule : Rules, version : 1..MaxVersions, through : Nat]
    BY <1>5, <2>1, <2>2, BoundsAssumption DEF StoreRule
  <2>4. series' # NoSeries /\ series' \in SeriesRow
    BY <2>3, SeriesIsThere DEF SeriesRow
  <2> QED BY <1>5, <2>4 DEF StoreRule, AloneIn, Active
<1>6. ASSUME NEW c \in Calls, DropFuture(c) PROVE TypeOK'
  BY <1>6 DEF DropFuture, RowsFrom
<1>7. ASSUME NEW c \in Calls, Reload(c) PROVE TypeOK'
  <2>1. CASE at[c] + Horizon > series.through
    <3>1. goal' \in [Calls -> Times]
      BY <1>7, <2>1, HorizonTypes DEF Reload, Load
    <3> QED BY <1>7, <2>1, <3>1 DEF Reload, Load
  <2>2. CASE ~(at[c] + Horizon > series.through)
    BY <1>7, <2>2, ReturnTypes DEF Reload
  <2> QED BY <2>1, <2>2
<1>8. ASSUME NEW c \in Calls, DropForGood(c) PROVE TypeOK'
  BY <1>8 DEF DropForGood, RowsFrom, AloneIn, Active
<1>9. ASSUME NEW c \in Calls, RemoveSeries(c) PROVE TypeOK'
  BY <1>9, ReturnTypes DEF RemoveSeries, SeriesRow
<1>10. ASSUME NEW c \in Calls, Break(c) PROVE TypeOK'
  <2>1. faults' \in 0..MaxFaults BY <1>10, BoundsAssumption DEF Break
  <2> QED BY <1>10, <2>1, ReturnTypes DEF Break
<1>11. ASSUME NEW t \in Times, NEW u \in Times, UpdateEvent(t, u) PROVE TypeOK'
  <2>1. occ[t] \in [version : 1..MaxVersions, edited : BOOLEAN]
    BY <1>11 DEF UpdateEvent
  <2>2. [occ[t] EXCEPT !.edited = TRUE] \in [version : 1..MaxVersions, edited : BOOLEAN]
    BY <2>1
  <2>3. occ' \in [Times -> [version : 1..MaxVersions, edited : BOOLEAN] \cup {NoRow}]
    BY <1>11, <2>2 DEF UpdateEvent
  <2>4. edits' \in 0..MaxEdits BY <1>11, BoundsAssumption DEF UpdateEvent
  <2> QED BY <1>11, <2>3, <2>4 DEF UpdateEvent, locals
<1>12. ASSUME NEW t \in Times, RemoveRow(t) PROVE TypeOK'
  <2>1. edits' \in 0..MaxEdits BY <1>12, BoundsAssumption DEF RemoveRow
  <2> QED BY <1>12, <2>1 DEF RemoveRow, locals
<1>13. ASSUME Tick PROVE TypeOK'
  <2>1. now' \in 0..MaxClock BY <1>13, HorizonAssumption DEF Tick
  <2> QED BY <1>13, <2>1 DEF Tick, locals
<1> QED
  BY <1>0, <1>1, <1>2, <1>3, <1>4, <1>5, <1>6, <1>7, <1>8, <1>9, <1>10, <1>11, <1>12, <1>13
     DEF Next, SeriesCall, DeleteEvent, DeleteHistory

\* Every variable of a series holds what its column or its local can hold.
THEOREM SeriesTypeOK == Spec => []TypeOK
<1> QED BY SeriesInit, SeriesTypeStep, PTL DEF Spec

----------------------------------------------------------------------------
(* History *)

\* A call acts on a clock it read at most a tick ago.
ClockInv == \A c \in Calls : Active(c) => at[c] <= now /\ now <= at[c] + 1

LEMMA ClockStep == TypeOK /\ ClockInv /\ [Next]_vars => ClockInv'
<1> SUFFICES ASSUME TypeOK, ClockInv, [Next]_vars PROVE ClockInv' OBVIOUS
<1> USE DEF TypeOK, ClockInv, Active
<1>0. CASE UNCHANGED vars BY <1>0 DEF vars, locals
<1>1. ASSUME NEW c \in Calls, ReadSeries(c) PROVE ClockInv'
  BY <1>1, HorizonAssumption DEF ReadSeries, Load
<1>2. ASSUME NEW c \in Calls, Materialize(c) \/ DropFuture(c) PROVE ClockInv'
  BY <1>2 DEF Materialize, DropFuture
<1>3. ASSUME NEW c \in Calls, RecordHorizon(c) \/ RemoveSeries(c) \/ Break(c) PROVE ClockInv'
  BY <1>3 DEF RecordHorizon, RemoveSeries, Break, Return
<1>4. ASSUME NEW c \in Calls, NEW r \in Rules, CreateEventSeries(c, r) PROVE ClockInv'
  BY <1>4, HorizonAssumption DEF CreateEventSeries, locals
<1>5. ASSUME NEW c \in Calls, NEW r \in Rules, StoreRule(c, r) PROVE ClockInv'
  BY <1>5, HorizonAssumption DEF StoreRule
<1>6. ASSUME NEW c \in Calls, Reload(c) PROVE ClockInv'
  BY <1>6 DEF Reload, Load, Return
<1>7. ASSUME NEW c \in Calls, DropForGood(c) PROVE ClockInv'
  BY <1>7, HorizonAssumption DEF DropForGood
<1>8. ASSUME NEW t \in Times, NEW u \in Times, UpdateEvent(t, u) \/ RemoveRow(t) PROVE ClockInv'
  BY <1>8 DEF UpdateEvent, RemoveRow, locals
<1>9. ASSUME Tick PROVE ClockInv'
  BY <1>9, HorizonAssumption DEF Tick, locals
<1> QED
  BY <1>0, <1>1, <1>2, <1>3, <1>4, <1>5, <1>6, <1>7, <1>8, <1>9
     DEF Next, SeriesCall, DeleteEvent, DeleteHistory

\* What may happen to a row that is history.
Kept(t) == t + 1 < now /\ occ[t] # NoRow => occ'[t] = occ[t] \/ DeleteHistory(t)

LEMMA HistoryStep ==
    ASSUME TypeOK, ClockInv, [Next]_vars, NEW t \in Times
    PROVE  Kept(t)
<1> SUFFICES ASSUME t + 1 < now, occ[t] # NoRow
             PROVE  occ'[t] = occ[t] \/ DeleteHistory(t)
  BY DEF Kept
<1>0. t \in Nat /\ now \in Nat /\ \A c \in Calls : at[c] \in Nat
  BY HorizonAssumption DEF TypeOK, Times
<1>1. CASE UNCHANGED vars BY <1>1 DEF vars
<1>2. ASSUME NEW c \in Calls, Materialize(c) PROVE occ'[t] = occ[t]
  BY <1>2 DEF Materialize
<1>3. ASSUME NEW c \in Calls, DropFuture(c) \/ DropForGood(c) PROVE occ'[t] = occ[t]
  <2>1. CASE DropFuture(c)
    <3>1. ~(t >= at[c]) BY <2>1, <1>0 DEF DropFuture, ClockInv, Active
    <3> QED BY <2>1, <3>1 DEF DropFuture, RowsFrom
  <2>2. CASE DropForGood(c)
    <3>1. ~(t >= now) BY <1>0
    <3> QED BY <2>2, <3>1 DEF DropForGood, RowsFrom
  <2> QED BY <1>3, <2>1, <2>2
<1>4. ASSUME NEW c \in Calls, NEW r \in Rules, CreateEventSeries(c, r) \/ StoreRule(c, r)
      PROVE occ'[t] = occ[t]
  BY <1>4 DEF CreateEventSeries, StoreRule
<1>5. ASSUME NEW c \in Calls,
             ReadSeries(c) \/ RecordHorizon(c) \/ Reload(c) \/ RemoveSeries(c) \/ Break(c)
      PROVE occ'[t] = occ[t]
  BY <1>5 DEF ReadSeries, RecordHorizon, Reload, RemoveSeries, Break
\* A call on one occurrence checked that it had not started, a tick ago at most.
<1>6. ASSUME NEW s \in Times, NEW clock \in Checked, ~lockedAt(s, clock) PROVE s # t
  BY <1>6, <1>0 DEF Checked, lockedAt, Times
<1>7. ASSUME NEW s \in Times, NEW u \in Times, UpdateEvent(s, u) PROVE occ'[t] = occ[t]
  <2>1. s # t /\ u # t BY <1>7, <1>6 DEF UpdateEvent
  <2> QED BY <1>7, <2>1 DEF UpdateEvent, TypeOK
<1>8. ASSUME NEW s \in Times, DeleteEvent(s) PROVE occ'[t] = occ[t]
  <2>1. s # t BY <1>8, <1>6 DEF DeleteEvent
  <2> QED BY <1>8, <2>1 DEF DeleteEvent, RemoveRow, TypeOK
<1>9. ASSUME NEW s \in Times, DeleteHistory(s) PROVE occ'[t] = occ[t] \/ DeleteHistory(t)
  <2>1. CASE s = t BY <1>9, <2>1
  <2>2. CASE s # t BY <1>9, <2>2 DEF DeleteHistory, RemoveRow, TypeOK
  <2> QED BY <2>1, <2>2
<1>10. CASE Tick BY <1>10 DEF Tick
<1> QED
  BY <1>1, <1>2, <1>3, <1>4, <1>5, <1>7, <1>8, <1>9, <1>10 DEF Next, SeriesCall

\* An occurrence that has happened is history: whatever calls interleave or
\* break off, only an administrator's deletion touches it.
THEOREM SeriesKeepsHistory == Spec => HistoryIsKept
<1>1. Init => ClockInv BY DEF Init, ClockInv, Active
<1>2. TypeOK /\ ClockInv /\ [Next]_vars =>
        [\A t \in Times : t + 1 < now /\ occ[t] # NoRow =>
           occ'[t] = occ[t] \/ DeleteHistory(t)]_vars
  BY HistoryStep DEF Kept
<1> QED BY <1>1, <1>2, ClockStep, SeriesTypeOK, PTL DEF Spec, HistoryIsKept

----------------------------------------------------------------------------
(* The calendar *)

\* The two halves of InStep, and a calendar with nothing left in it.
Matches == \A t \in Times : t > now /\ occ[t] # NoRow =>
    occ[t].edited \/ (occ[t].version = series.version /\ t \in series.rule.times)
CoveredTo(through) == \A t \in Times : t > now /\ t \in series.rule.times /\ t < through =>
    occ[t] # NoRow \/ t \in away
EmptyFrom(instant) == \A t \in Times : t >= instant => occ[t] = NoRow

\* The inductive strengthening of InStepUnlessTangled: how far the work of a
\* call has brought the calendar. A rewrite is alone; once it has dropped the
\* future it made stale, the calendar is in step and stays so, while any number
\* of extensions add to it.
NothingDue(c) == \A t \in series.rule.times : t < series.through => t < at[c]
CallInStep(c) ==
    /\ pc[c] \in {"dropped", "ending"} => EmptyFrom(at[c])
    /\ pc[c] \in {"stored", "dropped"} => NothingDue(c)
    /\ pc[c] \in {"loaded", "filled"} => read[c].rule = series.rule /\ read[c].version = series.version
    /\ pc[c] = "loaded" => CoveredTo(read[c].through)
    /\ pc[c] = "filled" => CoveredTo(goal[c])
Stale == \E c \in Calls : pc[c] \in {"stored", "ending"}
LiveInv ==
    /\ \A c \in Calls : Rewriting(c) => AloneIn(c)
    /\ \A c \in Calls : CallInStep(c)
    /\ ~Stale => Matches /\ CoveredTo(series.through)
CalendarInv == ~tangled =>
    /\ status = "none" => EmptyFrom(0) /\ Quiet
    /\ status = "deleted" => EmptyFrom(now) /\ Quiet
    /\ status = "live" => LiveInv

LEMMA InStepIsBoth == InStep <=> Matches /\ CoveredTo(series.through)
BY DEF InStep, Matches, CoveredTo

\* While a call extends the series, nobody rewrites it.
LEMMA ExtendingIsApart ==
    ASSUME CalendarInv, ~tangled, TypeOK, NEW c \in Calls, pc[c] \in {"loaded", "filled"}
    PROVE  /\ status = "live" /\ LiveInv
           /\ \A d \in Calls : ~Rewriting(d)
           /\ ~Stale /\ Matches /\ CoveredTo(series.through)
<1>1. status = "live" /\ LiveInv
  BY DEF CalendarInv, Quiet, Active, TypeOK
<1>2. ASSUME NEW d \in Calls PROVE ~Rewriting(d)
  BY <1>1 DEF LiveInv, AloneIn, Active, Rewriting
<1> QED BY <1>1, <1>2 DEF LiveInv, Stale, Rewriting

\* And a rewrite is all there is.
LEMMA RewritingIsAlone ==
    ASSUME CalendarInv, ~tangled, TypeOK, NEW c \in Calls, Rewriting(c)
    PROVE  status = "live" /\ LiveInv /\ \A d \in Calls \ {c} : pc[d] = "idle"
<1>1. status = "live" /\ LiveInv
  BY DEF CalendarInv, Quiet, Active, Rewriting, TypeOK
<1> QED BY <1>1 DEF LiveInv, AloneIn, Active

LEMMA CalendarRead ==
    ASSUME TypeOK, CalendarInv, NEW c \in Calls, ReadSeries(c)
    PROVE  CalendarInv'
<1> SUFFICES ASSUME ~tangled' PROVE CalendarInv' BY DEF CalendarInv
<1>1. ~tangled /\ status = "live" /\ LiveInv /\ \A d \in Calls : ~Rewriting(d)
  BY DEF ReadSeries, CalendarInv
<1>2. /\ UNCHANGED <<now, status, series, occ, away>> /\ pc' = [pc EXCEPT ![c] = "loaded"]
      /\ read' = [read EXCEPT ![c] = series]
      /\ \A d \in Calls \ {c} : pc'[d] = pc[d] /\ at'[d] = at[d] /\ read'[d] = read[d] /\ goal'[d] = goal[d]
  BY DEF ReadSeries, Load, TypeOK
<1>3. Matches /\ CoveredTo(series.through)
  BY <1>1 DEF LiveInv, Stale, Rewriting
<1>4. pc'[c] = "loaded" /\ read'[c] = series
  BY <1>2 DEF TypeOK
<1>5. \A d \in Calls : CallInStep(d)'
  BY <1>1, <1>2, <1>3, <1>4 DEF LiveInv, CallInStep, CoveredTo, EmptyFrom, NothingDue
<1>6. \A d \in Calls : ~Rewriting(d)'
  BY <1>1, <1>2, <1>4 DEF Rewriting
<1>7. Matches' /\ CoveredTo(series.through)'
  BY <1>2, <1>3 DEF Matches, CoveredTo
<1> QED BY <1>1, <1>2, <1>5, <1>6, <1>7 DEF CalendarInv, LiveInv

LEMMA CalendarMaterialize ==
    ASSUME TypeOK, CalendarInv, NEW c \in Calls, Materialize(c)
    PROVE  CalendarInv'
<1> SUFFICES ASSUME ~tangled' PROVE CalendarInv' BY DEF CalendarInv
<1>1. ~tangled /\ Wanted(c) = Window(c) /\ pc[c] = "loaded"
  BY DEF Materialize
<1>2. /\ status = "live" /\ LiveInv /\ \A d \in Calls : ~Rewriting(d)
      /\ Matches /\ CoveredTo(series.through)
  BY <1>1, ExtendingIsApart
<1>3. /\ UNCHANGED <<now, status, series, away, at, read, goal>> /\ pc' = [pc EXCEPT ![c] = "filled"]
      /\ \A t \in Times : occ'[t] = IF t \in Window(c) /\ occ[t] = NoRow
                                    THEN [version |-> read[c].version, edited |-> FALSE] ELSE occ[t]
  BY <1>1 DEF Materialize
<1>4. read[c].rule = series.rule /\ read[c].version = series.version /\ CoveredTo(read[c].through)
  BY <1>1, <1>2 DEF LiveInv, CallInStep
<1>5. read[c] \in [rule : Rules, version : 1..MaxVersions, through : Nat]
  BY <1>1 DEF TypeOK, SeriesRow
<1>6. [version |-> read[c].version, edited |-> FALSE] # NoRow
  BY <1>5 DEF NoRow
<1>7. \A t \in Times : (occ[t] # NoRow => occ'[t] = occ[t]) /\ (t \in Window(c) => occ'[t] # NoRow)
  BY <1>3, <1>6
<1>8. Matches'
  BY <1>2, <1>3, <1>4 DEF Matches, Window
<1>9. \A h : CoveredTo(h) => CoveredTo(h)'
  BY <1>3, <1>7 DEF CoveredTo
<1>10. CoveredTo(goal[c])'
  <2> SUFFICES ASSUME NEW t \in Times, t > now, t \in series.rule.times, t < goal[c]
               PROVE  occ'[t] # NoRow \/ t \in away
    BY <1>3 DEF CoveredTo
  <2>1. t \in Nat /\ goal[c] \in Nat /\ read[c].through \in Nat
    BY <1>5, HorizonAssumption DEF Times, TypeOK
  <2>2. CASE t < read[c].through
    BY <1>4, <1>7, <2>2 DEF CoveredTo
  <2>3. CASE ~(t < read[c].through)
    BY <1>4, <1>7, <2>1, <2>3 DEF Window
  <2> QED BY <2>2, <2>3
<1>11. ASSUME NEW d \in Calls PROVE CallInStep(d)' /\ ~Rewriting(d)'
  <2>1. CASE d = c
    BY <1>3, <1>4, <1>10, <2>1 DEF CallInStep, Rewriting, TypeOK
  <2>2. CASE d # c
    <3>1. pc'[d] = pc[d] /\ pc[d] \notin {"stored", "dropped", "ending"}
      BY <1>2, <1>3, <2>2 DEF Rewriting, TypeOK
    <3>2. CallInStep(d)
      BY <1>2 DEF LiveInv
    <3> QED BY <1>3, <1>9, <3>1, <3>2 DEF CallInStep, Rewriting
  <2> QED BY <2>1, <2>2
<1>12. CoveredTo(series.through)'
  BY <1>2, <1>3, <1>9
<1> QED BY <1>2, <1>3, <1>8, <1>11, <1>12 DEF CalendarInv, LiveInv

LEMMA CalendarRecord ==
    ASSUME TypeOK, CalendarInv, NEW c \in Calls, RecordHorizon(c)
    PROVE  CalendarInv'
<1> SUFFICES ASSUME ~tangled' PROVE CalendarInv' BY DEF CalendarInv
<1>1. ~tangled /\ pc[c] = "filled"
  BY DEF RecordHorizon
<1>2. /\ status = "live" /\ LiveInv /\ \A d \in Calls : ~Rewriting(d)
      /\ Matches /\ CoveredTo(series.through)
  BY <1>1, ExtendingIsApart
<1>3. /\ UNCHANGED <<now, status, occ, away>> /\ series' = [series EXCEPT !.through = goal[c]]
      /\ pc'[c] = "idle"
      /\ \A d \in Calls \ {c} : pc'[d] = pc[d] /\ at'[d] = at[d] /\ read'[d] = read[d] /\ goal'[d] = goal[d]
  BY <1>2 DEF RecordHorizon, Return, TypeOK
<1>4. series \in [rule : Rules, version : 1..MaxVersions, through : Nat]
  BY <1>2 DEF TypeOK, SeriesRow
<1>5. series'.rule = series.rule /\ series'.version = series.version /\ series'.through = goal[c]
  BY <1>3, <1>4
<1>6. CoveredTo(goal[c])
  BY <1>1, <1>2 DEF LiveInv, CallInStep
<1>7. Matches' /\ CoveredTo(series.through)'
  BY <1>2, <1>3, <1>5, <1>6 DEF Matches, CoveredTo
<1>8. ASSUME NEW d \in Calls PROVE CallInStep(d)' /\ ~Rewriting(d)'
  <2>1. CASE d = c
    BY <1>3, <2>1 DEF CallInStep, Rewriting
  <2>2. CASE d # c
    <3>1. pc[d] \notin {"stored", "dropped", "ending"} /\ CallInStep(d)
      BY <1>2 DEF Rewriting, LiveInv
    <3> QED BY <1>3, <1>5, <2>2, <3>1 DEF CallInStep, CoveredTo, Rewriting
  <2> QED BY <2>1, <2>2
<1> QED BY <1>2, <1>3, <1>7, <1>8 DEF CalendarInv, LiveInv

LEMMA CalendarCreate ==
    ASSUME TypeOK, CalendarInv, NEW c \in Calls, NEW r \in Rules, CreateEventSeries(c, r)
    PROVE  CalendarInv'
<1> SUFFICES ASSUME ~tangled' PROVE CalendarInv' BY DEF CalendarInv
<1>1. ~tangled /\ status = "none" /\ status' = "live" /\ EmptyFrom(0) /\ \A d \in Calls : pc[d] = "idle"
  BY DEF CreateEventSeries, CalendarInv, Quiet, Active
<1>2. UNCHANGED <<now, occ, away>> /\ series' = [rule |-> r, version |-> 1, through |-> r.starts]
  BY DEF CreateEventSeries
<1>3. \A t \in Times : occ[t] = NoRow
  BY <1>1, HorizonAssumption DEF EmptyFrom, Times
<1>4. \A t \in r.times : ~(t < r.starts)
  BY RulesAssumption DEF Rule
<1>5. Matches' /\ CoveredTo(series.through)' /\ CoveredTo(r.starts)'
  BY <1>2, <1>3, <1>4 DEF Matches, CoveredTo
<1>6. /\ pc'[c] = "idle" \/ (pc'[c] = "loaded" /\ read'[c] = series')
      /\ \A d \in Calls \ {c} : pc'[d] = "idle"
  <2>1. CASE now + Horizon > r.starts
    BY <1>1, <2>1 DEF CreateEventSeries, TypeOK
  <2>2. CASE ~(now + Horizon > r.starts)
    BY <1>1, <2>2 DEF CreateEventSeries, locals
  <2> QED BY <2>1, <2>2
<1>7. ASSUME NEW d \in Calls PROVE CallInStep(d)' /\ ~Rewriting(d)'
  BY <1>2, <1>5, <1>6 DEF CallInStep, Rewriting
<1> QED BY <1>1, <1>5, <1>7 DEF CalendarInv, LiveInv

\* A rewrite that begins alone makes up for whatever had gone wrong before.
LEMMA CalendarStore ==
    ASSUME TypeOK, CalendarInv, NEW c \in Calls, NEW r \in Rules, StoreRule(c, r)
    PROVE  CalendarInv'
<1> SUFFICES ASSUME ~tangled' PROVE CalendarInv' BY DEF CalendarInv
<1>1. /\ status' = "live" /\ AloneIn(c)
      /\ series' = [rule |-> r, version |-> series.version + 1, through |-> Latest(r.starts, now)]
      /\ pc' = [pc EXCEPT ![c] = "stored"] /\ at' = [at EXCEPT ![c] = now]
  BY DEF StoreRule
<1>2. pc'[c] = "stored" /\ at'[c] = now /\ \A d \in Calls \ {c} : pc'[d] = "idle"
  BY <1>1 DEF AloneIn, Active, TypeOK
<1>3. NothingDue(c)'
  <2>1. \A t \in r.times : t \in Nat /\ r.starts <= t /\ r.starts \in Nat
    BY RulesAssumption DEF Rule
  <2>2. now \in Nat
    BY HorizonAssumption DEF TypeOK
  <2> QED BY <1>1, <1>2, <2>1, <2>2 DEF NothingDue, Latest
<1>4. \A d \in Calls : CallInStep(d)'
  BY <1>2, <1>3 DEF CallInStep
<1>5. Stale' /\ \A d \in Calls : Rewriting(d)' => AloneIn(d)'
  BY <1>2 DEF Stale, Rewriting, AloneIn, Active
<1> QED BY <1>1, <1>4, <1>5 DEF CalendarInv, LiveInv

LEMMA CalendarDropFuture ==
    ASSUME TypeOK, ClockInv, CalendarInv, NEW c \in Calls, DropFuture(c)
    PROVE  CalendarInv'
<1> SUFFICES ASSUME ~tangled' PROVE CalendarInv' BY DEF CalendarInv
<1>1. ~tangled /\ Rewriting(c) /\ pc[c] = "stored"
  BY DEF DropFuture, Rewriting
<1>2. status = "live" /\ LiveInv /\ \A d \in Calls \ {c} : pc[d] = "idle"
  BY <1>1, RewritingIsAlone
<1>3. /\ UNCHANGED <<now, status, series, at, away>> /\ pc' = [pc EXCEPT ![c] = "dropped"]
      /\ \A t \in Times : occ'[t] = IF t >= at[c] THEN NoRow ELSE occ[t]
  BY <1>2 DEF DropFuture, RowsFrom
<1>4. pc'[c] = "dropped" /\ \A d \in Calls \ {c} : pc'[d] = "idle"
  BY <1>2, <1>3 DEF TypeOK
<1>5. EmptyFrom(at[c])' /\ NothingDue(c) /\ NothingDue(c)'
  BY <1>1, <1>2, <1>3 DEF EmptyFrom, LiveInv, CallInStep, NothingDue
<1>6. at[c] <= now /\ at[c] \in Nat /\ now \in Nat /\ \A t \in Times : t \in Nat
  BY <1>1, HorizonAssumption DEF ClockInv, Active, TypeOK, Times
<1>7. Matches' /\ CoveredTo(series.through)'
  BY <1>3, <1>5, <1>6 DEF Matches, CoveredTo, EmptyFrom, NothingDue
<1>8. \A d \in Calls : CallInStep(d)' /\ (Rewriting(d)' => AloneIn(d)')
  BY <1>3, <1>4, <1>5 DEF CallInStep, Rewriting, AloneIn, Active, EmptyFrom
<1> QED BY <1>2, <1>3, <1>7, <1>8 DEF CalendarInv, LiveInv

LEMMA CalendarReload ==
    ASSUME TypeOK, CalendarInv, NEW c \in Calls, Reload(c)
    PROVE  CalendarInv'
<1> SUFFICES ASSUME ~tangled' PROVE CalendarInv' BY DEF CalendarInv
<1>1. ~tangled /\ Rewriting(c) /\ pc[c] = "dropped"
  BY DEF Reload, Rewriting
<1>2. status = "live" /\ LiveInv /\ \A d \in Calls \ {c} : pc[d] = "idle"
  BY <1>1, RewritingIsAlone
<1>3. Matches /\ CoveredTo(series.through)
  BY <1>1, <1>2 DEF LiveInv, Stale
<1>4. /\ UNCHANGED <<now, status, series, occ, away>>
      /\ pc'[c] = "idle" \/ (pc'[c] = "loaded" /\ read'[c] = series)
      /\ \A d \in Calls \ {c} : pc'[d] = "idle"
  <2>1. CASE at[c] + Horizon > series.through
    BY <1>2, <2>1 DEF Reload, Load, TypeOK
  <2>2. CASE ~(at[c] + Horizon > series.through)
    BY <1>2, <2>2 DEF Reload, Return, TypeOK
  <2> QED BY <2>1, <2>2
<1>5. Matches' /\ CoveredTo(series.through)'
  BY <1>3, <1>4 DEF Matches, CoveredTo
<1>6. \A d \in Calls : CallInStep(d)' /\ ~Rewriting(d)'
  BY <1>4, <1>5 DEF CallInStep, Rewriting
<1> QED BY <1>2, <1>4, <1>5, <1>6 DEF CalendarInv, LiveInv

LEMMA CalendarDropForGood ==
    ASSUME TypeOK, CalendarInv, NEW c \in Calls, DropForGood(c)
    PROVE  CalendarInv'
<1> SUFFICES ASSUME ~tangled' PROVE CalendarInv' BY DEF CalendarInv
<1>1. /\ status' = "live" /\ AloneIn(c) /\ occ' = RowsFrom(now)
      /\ pc' = [pc EXCEPT ![c] = "ending"] /\ at' = [at EXCEPT ![c] = now]
  BY DEF DropForGood
<1>2. pc'[c] = "ending" /\ at'[c] = now /\ \A d \in Calls \ {c} : pc'[d] = "idle"
  BY <1>1 DEF AloneIn, Active, TypeOK
<1>3. EmptyFrom(at[c])'
  BY <1>1, <1>2 DEF EmptyFrom, RowsFrom
<1>4. \A d \in Calls : CallInStep(d)'
  BY <1>2, <1>3 DEF CallInStep
<1>5. Stale' /\ \A d \in Calls : Rewriting(d)' => AloneIn(d)'
  BY <1>2 DEF Stale, Rewriting, AloneIn, Active
<1> QED BY <1>1, <1>4, <1>5 DEF CalendarInv, LiveInv

LEMMA CalendarRemove ==
    ASSUME TypeOK, ClockInv, CalendarInv, NEW c \in Calls, RemoveSeries(c)
    PROVE  CalendarInv'
<1> SUFFICES ASSUME ~tangled' PROVE CalendarInv' BY DEF CalendarInv
<1>1. ~tangled /\ Rewriting(c) /\ pc[c] = "ending"
  BY DEF RemoveSeries, Rewriting
<1>2. status = "live" /\ LiveInv /\ \A d \in Calls \ {c} : pc[d] = "idle"
  BY <1>1, RewritingIsAlone
<1>3. status' = "deleted" /\ UNCHANGED <<now, occ>> /\ \A d \in Calls : pc'[d] = "idle"
  BY <1>2 DEF RemoveSeries, Return, TypeOK
<1>4. EmptyFrom(at[c])
  BY <1>1, <1>2 DEF LiveInv, CallInStep
<1>5. at[c] <= now /\ at[c] \in Nat /\ now \in Nat /\ \A t \in Times : t \in Nat
  BY <1>1, HorizonAssumption DEF ClockInv, Active, TypeOK, Times
<1>6. EmptyFrom(now)'
  BY <1>3, <1>4, <1>5 DEF EmptyFrom
<1> QED BY <1>3, <1>6 DEF CalendarInv, Quiet, Active

LEMMA CalendarBreak ==
    ASSUME TypeOK, CalendarInv, NEW c \in Calls, Break(c)
    PROVE  CalendarInv'
<1> SUFFICES ASSUME ~tangled' PROVE CalendarInv' BY DEF CalendarInv
<1>1. ~tangled /\ pc[c] \notin {"stored", "ending"} /\ Active(c)
  BY DEF Break
<1>2. status = "live" /\ LiveInv
  BY <1>1 DEF CalendarInv, Quiet, TypeOK
<1>3. /\ UNCHANGED <<now, status, series, occ, away>> /\ pc'[c] = "idle"
      /\ \A d \in Calls \ {c} : pc'[d] = pc[d] /\ at'[d] = at[d] /\ read'[d] = read[d] /\ goal'[d] = goal[d]
  BY DEF Break, Return, TypeOK
<1>4. \A d \in Calls : CallInStep(d)'
  BY <1>2, <1>3 DEF LiveInv, CallInStep, EmptyFrom, NothingDue, CoveredTo
<1>5. \A d \in Calls : Rewriting(d)' => AloneIn(d)'
  BY <1>2, <1>3 DEF LiveInv, Rewriting, AloneIn, Active
<1>6. ~Stale' => Matches' /\ CoveredTo(series.through)'
  BY <1>1, <1>2, <1>3 DEF LiveInv, Stale, Matches, CoveredTo
<1> QED BY <1>2, <1>3, <1>4, <1>5, <1>6 DEF CalendarInv, LiveInv

\* An occurrence moved or deleted by hand is one of an instant still to come.
LEMMA CalendarUpdate ==
    ASSUME TypeOK, ClockInv, CalendarInv, NEW t \in Times, NEW u \in Times, UpdateEvent(t, u)
    PROVE  CalendarInv'
<1> SUFFICES ASSUME ~tangled' PROVE CalendarInv' BY DEF CalendarInv
<1>1. /\ ~tangled /\ occ[t] # NoRow
      /\ UNCHANGED <<now, status, series, pc, at, read, goal>>
      /\ away' = IF u = t THEN away ELSE away \cup {t}
  BY DEF UpdateEvent, locals
<1>2. now \in Nat /\ (\A s \in Times : s \in Nat) /\ \A c \in Calls : at[c] \in Nat
  BY HorizonAssumption DEF TypeOK, Times
<1>3. now <= t
  BY <1>2 DEF UpdateEvent, Checked, lockedAt
<1>4. occ[t] \in [version : 1..MaxVersions, edited : BOOLEAN]
  BY <1>1 DEF TypeOK
<1>5. /\ occ'[u] # NoRow /\ occ'[u].edited /\ (u # t => occ'[t] = NoRow)
      /\ \A s \in Times : s # t /\ s # u => occ'[s] = occ[s]
  <2>1. [occ[t] EXCEPT !.edited = TRUE] # NoRow /\ [occ[t] EXCEPT !.edited = TRUE].edited
    BY <1>4 DEF NoRow
  <2>2. occ' = [occ EXCEPT ![t] = NoRow, ![u] = [occ[t] EXCEPT !.edited = TRUE]]
    BY DEF UpdateEvent
  <2> QED BY <2>1, <2>2 DEF TypeOK
<1>6. ~EmptyFrom(now) /\ ~EmptyFrom(0) /\ \A c \in Calls : Active(c) => ~EmptyFrom(at[c])
  BY <1>1, <1>2, <1>3 DEF EmptyFrom, ClockInv
<1>7. status = "live" /\ LiveInv
  BY <1>1, <1>6 DEF CalendarInv, TypeOK
<1>8. \A h : CoveredTo(h) => CoveredTo(h)'
  BY <1>1, <1>5 DEF CoveredTo
<1>9. Matches => Matches'
  BY <1>1, <1>5 DEF Matches
<1>10. \A c \in Calls : CallInStep(c)'
  BY <1>1, <1>6, <1>7, <1>8 DEF LiveInv, CallInStep, Active, NothingDue
<1>11. \A c \in Calls : Rewriting(c)' => AloneIn(c)'
  BY <1>1, <1>7 DEF LiveInv, Rewriting, AloneIn, Active
<1>12. ~Stale' => Matches' /\ CoveredTo(series.through)'
  BY <1>1, <1>7, <1>8, <1>9 DEF LiveInv, Stale
<1> QED BY <1>1, <1>7, <1>10, <1>11, <1>12 DEF CalendarInv, LiveInv

LEMMA CalendarRemoveRow ==
    ASSUME TypeOK, CalendarInv, NEW t \in Times, RemoveRow(t)
    PROVE  CalendarInv'
<1> SUFFICES ASSUME ~tangled' PROVE CalendarInv' BY DEF CalendarInv
<1>1. /\ ~tangled /\ UNCHANGED <<now, status, series, pc, at, read, goal>> /\ away' = away \cup {t}
      /\ \A s \in Times : occ'[s] = IF s = t THEN NoRow ELSE occ[s]
  BY DEF RemoveRow, locals, TypeOK
<1>2. \A h : (CoveredTo(h) => CoveredTo(h)') /\ (EmptyFrom(h) => EmptyFrom(h)')
  BY <1>1 DEF CoveredTo, EmptyFrom
<1>3. Matches => Matches'
  BY <1>1 DEF Matches
<1>4. LiveInv => LiveInv'
  BY <1>1, <1>2, <1>3 DEF LiveInv, CallInStep, NothingDue, Stale, Rewriting, AloneIn, Active
<1> QED BY <1>1, <1>2, <1>4 DEF CalendarInv, Quiet, Active

LEMMA CalendarTick ==
    ASSUME TypeOK, CalendarInv, Tick
    PROVE  CalendarInv'
<1>1. now' = now + 1 /\ UNCHANGED <<status, series, occ, pc, at, read, goal, away, tangled>>
  BY DEF Tick, locals
<1>2. now \in Nat /\ \A s \in Times : s \in Nat
  BY HorizonAssumption DEF TypeOK, Times
<1>3. \A h : (CoveredTo(h) => CoveredTo(h)') /\ (EmptyFrom(h) => EmptyFrom(h)')
  BY <1>1, <1>2 DEF CoveredTo, EmptyFrom
<1>4. (Matches => Matches') /\ (EmptyFrom(now) => EmptyFrom(now)')
  BY <1>1, <1>2 DEF Matches, EmptyFrom
<1>5. LiveInv => LiveInv'
  BY <1>1, <1>3, <1>4 DEF LiveInv, CallInStep, NothingDue, Stale, Rewriting, AloneIn, Active
<1> QED BY <1>1, <1>3, <1>4, <1>5 DEF CalendarInv, Quiet, Active

LEMMA CalendarStep == TypeOK /\ ClockInv /\ CalendarInv /\ [Next]_vars => CalendarInv'
<1> SUFFICES ASSUME TypeOK, ClockInv, CalendarInv, [Next]_vars PROVE CalendarInv' OBVIOUS
<1>1. CASE UNCHANGED vars
  BY <1>1 DEF vars, locals, CalendarInv, Quiet, Active, LiveInv, CallInStep, NothingDue, Stale, Rewriting, AloneIn,
              Matches, CoveredTo, EmptyFrom
<1>2. ASSUME NEW c \in Calls, SeriesCall(c) PROVE CalendarInv'
  BY <1>2, CalendarRead, CalendarMaterialize, CalendarRecord, CalendarCreate, CalendarStore, CalendarDropFuture,
     CalendarReload, CalendarDropForGood, CalendarRemove, CalendarBreak DEF SeriesCall
<1> QED
  BY <1>1, <1>2, CalendarUpdate, CalendarRemoveRow, CalendarTick DEF Next, DeleteEvent, DeleteHistory

\* Whatever the rules, the horizon and the number of calls: a series whose calls
\* do not meet shows exactly what its rule makes, up to its horizon, but for
\* what was moved or deleted by hand.
THEOREM SeriesStaysInStep == Spec => []InStepUnlessTangled
<1>1. Init => ClockInv /\ CalendarInv
  BY DEF Init, ClockInv, CalendarInv, EmptyFrom, Quiet, Active
<1>2. TypeOK /\ CalendarInv => InStepUnlessTangled
  <2> SUFFICES ASSUME TypeOK, CalendarInv, Quiet, ~tangled
               PROVE  /\ status = "live" => InStep
                      /\ status = "deleted" => \A t \in Times : t > now => occ[t] = NoRow
    BY DEF InStepUnlessTangled
  <2>1. ~Stale
    BY DEF Stale, Quiet, Active
  <2>2. now \in Nat /\ \A t \in Times : t \in Nat
    BY HorizonAssumption DEF TypeOK, Times
  <2> QED BY <2>1, <2>2, InStepIsBoth DEF CalendarInv, LiveInv, EmptyFrom
<1> QED BY <1>1, <1>2, CalendarStep, ClockStep, SeriesTypeOK, PTL DEF Spec
=============================================================================
