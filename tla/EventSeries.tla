----------------------------- MODULE EventSeries -----------------------------
(***************************************************************************)
(* A recurring event: its rule, the horizon up to which the rule has been  *)
(* made into rows of events, and those rows (api/internal/csilservices/    *)
(* series.go, recurrence.go, events.go, store/sqlite/series.go). Any read  *)
(* of a series may extend it, on any replica, while its owners rewrite the *)
(* rule, delete the series, or edit and delete single occurrences. Nothing *)
(* is locked: a call is a sequence of statements.                          *)
(*                                                                         *)
(* An instant has at most one row of the series (a unique index), so rows  *)
(* are known by their instant. What a rule makes of weekdays, months and   *)
(* clocks is the set of its instants.                                      *)
(***************************************************************************)
EXTENDS Integers, FiniteSets

CONSTANTS
    Calls,          \* series calls that may be at work at once
    Rules,          \* starts_on, and every instant the rule produces
    NoRule,
    Horizon,        \* defaultHorizon, in ticks
    MaxHorizon,
    MaxOccurrences, \* maxOccurrencesPerExpansion
    \* Bounds of the model, none of them the code's
    MaxClock,
    MaxVersions,    \* times the rule is stored
    MaxEdits,       \* occurrences edited or deleted one at a time
    MaxFaults       \* calls that break off while the series lives

Times == 0..MaxClock + MaxHorizon
Rule == [starts : Nat, times : SUBSET Nat]

ASSUME RulesAssumption ==
    /\ Rules \subseteq Rule /\ NoRule \notin Rules
    /\ \A r \in Rules : \A t \in r.times : r.starts <= t
ASSUME HorizonAssumption ==
    Horizon \in Nat /\ MaxHorizon \in Nat /\ Horizon <= MaxHorizon /\ MaxClock \in Nat
    /\ MaxOccurrences \in Nat \ {0}
ASSUME BoundsAssumption ==
    MaxVersions \in Nat \ {0} /\ MaxEdits \in Nat /\ MaxFaults \in Nat

VARIABLES
    now,
    status,         \* "none", "live" or "deleted"
    series,         \* the row of event_series: rule, version, through
    occ,            \* by instant, the row of events
    edits, faults,
    \* The locals of a call
    pc,             \* "idle", "stored", "dropped", "ending", "loaded" or "filled"
    at,             \* the clock it read
    read,           \* the series as it read it
    goal,           \* how far it extends it
    \* History, read by properties only
    away,           \* occurrences taken off their instant by hand
    tangled         \* a rewrite met another call, it or a deletion broke off, or an
                    \* extension was cut at MaxOccurrences

locals == <<pc, at, read, goal>>
vars == <<now, status, series, occ, edits, faults, locals, away, tangled>>

\* The version numbers the stores of the rule; a row carries the one it was
\* made from, and whether it was edited by hand since.
NoSeries == [rule |-> NoRule, version |-> 0, through |-> 0]
NoRow == [version |-> 0, edited |-> FALSE]

Latest(a, b) == IF a > b THEN a ELSE b
Earliest(a, b) == IF a < b THEN a ELSE b

Active(c) == pc[c] # "idle"
AloneIn(c) == \A d \in Calls \ {c} : ~Active(d)
\* A call that has begun to rewrite the rows and has yet to read what it extends.
Rewriting(c) == pc[c] \in {"stored", "dropped", "ending"}

Init ==
    /\ now = 0
    /\ status = "none" /\ series = NoSeries
    /\ occ = [t \in Times |-> NoRow]
    /\ edits = 0 /\ faults = 0
    /\ pc = [c \in Calls |-> "idle"]
    /\ at = [c \in Calls |-> 0]
    /\ read = [c \in Calls |-> NoSeries]
    /\ goal = [c \in Calls |-> 0]
    /\ away = {} /\ tangled = FALSE

----------------------------------------------------------------------------
(* Extending: ensureHorizon *)

\* The call goes on with the series as read at this instant.
Load(c, through) ==
    /\ pc' = [pc EXCEPT ![c] = "loaded"]
    /\ read' = [read EXCEPT ![c] = series]
    /\ goal' = [goal EXCEPT ![c] = through]

\* GetEventSeries asks for the default horizon, ExpandEventSeries for any up to
\* the most. A series that already goes that far is left alone.
ReadSeries(c) ==
    /\ pc[c] = "idle" /\ status = "live"
    /\ \E through \in now..now + MaxHorizon : through > series.through /\ Load(c, through)
    /\ at' = [at EXCEPT ![c] = now]
    /\ tangled' = (tangled \/ \E d \in Calls : Rewriting(d))
    /\ UNCHANGED <<now, status, series, occ, edits, faults, away>>

\* occurrenceTimes: from where the series had got to, both ends included, and
\* the earliest of these if they are too many.
Window(c) == {t \in read[c].rule.times : read[c].through <= t /\ t <= goal[c]}
Wanted(c) == {t \in Window(c) : Cardinality({s \in Window(c) : s < t}) < MaxOccurrences}

\* UpsertOccurrences, in one transaction: an instant that has a row keeps it.
Materialize(c) ==
    /\ pc[c] = "loaded" /\ status = "live"
    /\ occ' = [t \in Times |-> IF t \in Wanted(c) /\ occ[t] = NoRow
                               THEN [version |-> read[c].version, edited |-> FALSE] ELSE occ[t]]
    /\ pc' = [pc EXCEPT ![c] = "filled"]
    /\ tangled' = (tangled \/ Wanted(c) # Window(c))
    /\ UNCHANGED <<now, status, series, edits, faults, at, read, goal, away>>

\* The call ends, and its locals with it.
Return(c) ==
    /\ pc' = [pc EXCEPT ![c] = "idle"]
    /\ at' = [at EXCEPT ![c] = 0]
    /\ read' = [read EXCEPT ![c] = NoSeries]
    /\ goal' = [goal EXCEPT ![c] = 0]

\* SetMaterializedThrough, whatever the row says by now.
RecordHorizon(c) ==
    /\ pc[c] = "filled"
    /\ series' = IF status = "live" THEN [series EXCEPT !.through = goal[c]] ELSE series
    /\ Return(c)
    /\ UNCHANGED <<now, status, occ, edits, faults, away, tangled>>

----------------------------------------------------------------------------
(* Rewriting *)

\* Nothing is materialized yet, and the row just inserted is extended.
CreateEventSeries(c, r) ==
    /\ pc[c] = "idle" /\ status = "none"
    /\ status' = "live"
    /\ series' = [rule |-> r, version |-> 1, through |-> r.starts]
    /\ IF now + Horizon > r.starts
       THEN /\ pc' = [pc EXCEPT ![c] = "loaded"]
            /\ read' = [read EXCEPT ![c] = series']
            /\ goal' = [goal EXCEPT ![c] = now + Horizon]
            /\ at' = [at EXCEPT ![c] = now]
       ELSE UNCHANGED locals
    /\ UNCHANGED <<now, occ, edits, faults, away, tangled>>

\* Mutant of StoreRule: the horizon stays where the old rule had got to.
StoreRule_KeepHorizon(c, r) ==
    /\ pc[c] = "idle" /\ status = "live"
    /\ series.version < MaxVersions
    /\ series' = [rule |-> r, version |-> series.version + 1, through |-> series.through]
    /\ pc' = [pc EXCEPT ![c] = "stored"]
    /\ at' = [at EXCEPT ![c] = now]
    /\ tangled' = ~AloneIn(c)
    /\ away' = {}
    /\ UNCHANGED <<now, status, occ, edits, faults, read, goal>>

\* UpdateEventSeries, the first of its statements: the rule, and a horizon put
\* back to now (or to the rule's own start), so that only the future is rebuilt.
StoreRule(c, r) ==
    /\ pc[c] = "idle" /\ status = "live"
    /\ series.version < MaxVersions
    /\ series' = [rule |-> r, version |-> series.version + 1, through |-> Latest(r.starts, now)]
    /\ pc' = [pc EXCEPT ![c] = "stored"]
    /\ at' = [at EXCEPT ![c] = now]
    /\ tangled' = ~AloneIn(c)
    /\ away' = {}
    /\ UNCHANGED <<now, status, occ, edits, faults, read, goal>>

\* DeleteOccurrencesFrom.
RowsFrom(instant) == [t \in Times |-> IF t >= instant THEN NoRow ELSE occ[t]]

\* Mutant of DropFuture: the rows are dropped from the start of the rule on.
DropFuture_FromStart(c) ==
    /\ pc[c] = "stored"
    /\ occ' = IF status = "live" THEN RowsFrom(series.rule.starts) ELSE occ
    /\ pc' = [pc EXCEPT ![c] = "dropped"]
    /\ UNCHANGED <<now, status, series, edits, faults, at, read, goal, away, tangled>>

DropFuture(c) ==
    /\ pc[c] = "stored"
    /\ occ' = IF status = "live" THEN RowsFrom(at[c]) ELSE occ
    /\ pc' = [pc EXCEPT ![c] = "dropped"]
    /\ UNCHANGED <<now, status, series, edits, faults, at, read, goal, away, tangled>>

\* The series is read again, and extended unless it already goes that far.
Reload(c) ==
    /\ pc[c] = "dropped" /\ status = "live"
    /\ IF at[c] + Horizon > series.through
       THEN Load(c, at[c] + Horizon) /\ UNCHANGED at
       ELSE Return(c)
    /\ UNCHANGED <<now, status, series, occ, edits, faults, away, tangled>>

\* DeleteEventSeries: the occurrences that have not started, then the rule.
\* What is left of its rows no longer belongs to a series.
DropForGood(c) ==
    /\ pc[c] = "idle" /\ status = "live"
    /\ occ' = RowsFrom(now)
    /\ pc' = [pc EXCEPT ![c] = "ending"]
    /\ at' = [at EXCEPT ![c] = now]
    /\ tangled' = ~AloneIn(c)
    /\ UNCHANGED <<now, status, series, edits, faults, read, goal, away>>

\* Mutant of RemoveSeries: the row of the rule stays.
RemoveSeries_KeepRow(c) ==
    /\ pc[c] = "ending"
    /\ status' = "deleted"
    /\ Return(c)
    /\ UNCHANGED <<now, series, occ, edits, faults, away, tangled>>

RemoveSeries(c) ==
    /\ pc[c] = "ending"
    /\ status' = "deleted"
    /\ series' = NoSeries
    /\ Return(c)
    /\ UNCHANGED <<now, occ, edits, faults, away, tangled>>

\* A statement returns an error (as every insert does once the series is gone),
\* the series is not found, the request is cancelled or the process stops.
Break(c) ==
    /\ Active(c)
    /\ IF status = "deleted" THEN UNCHANGED faults ELSE faults < MaxFaults /\ faults' = faults + 1
    /\ Return(c)
    /\ tangled' = (tangled \/ pc[c] \in {"stored", "ending"})
    /\ UNCHANGED <<now, status, series, occ, edits, away>>

----------------------------------------------------------------------------
(* One occurrence, and the clock *)

\* The instant at which a call read the clock, its write now being done.
Checked == {now - 1, now} \cap Times
lockedAt(t, clock) == t <= clock

\* UpdateEvent, of an occurrence at t that may move to u, unless the series has
\* a row there.
UpdateEvent(t, u) ==
    /\ edits < MaxEdits /\ edits' = edits + 1
    /\ occ[t] # NoRow /\ (u = t \/ occ[u] = NoRow)
    /\ \E clock \in Checked : ~lockedAt(t, clock) /\ ~lockedAt(u, clock)
    /\ occ' = [occ EXCEPT ![t] = NoRow, ![u] = [occ[t] EXCEPT !.edited = TRUE]]
    /\ away' = IF u = t THEN away ELSE away \cup {t}
    /\ UNCHANGED <<now, status, series, faults, locals, tangled>>

RemoveRow(t) ==
    /\ edits < MaxEdits /\ edits' = edits + 1
    /\ occ[t] # NoRow
    /\ occ' = [occ EXCEPT ![t] = NoRow]
    /\ away' = away \cup {t}
    /\ UNCHANGED <<now, status, series, faults, locals, tangled>>

\* DeleteEvent by somebody who runs the event, and by an administrator.
DeleteEvent(t) == (\E clock \in Checked : ~lockedAt(t, clock)) /\ RemoveRow(t)
DeleteHistory(t) == lockedAt(t, now) /\ RemoveRow(t)

\* A call takes less than a tick, which may end in the middle of it.
Tick ==
    /\ now < MaxClock
    /\ \A c \in Calls : Active(c) => at[c] = now
    /\ now' = now + 1
    /\ UNCHANGED <<status, series, occ, edits, faults, locals, away, tangled>>

----------------------------------------------------------------------------

SeriesCall(c) ==
    \/ ReadSeries(c) \/ Materialize(c) \/ RecordHorizon(c)
    \/ \E r \in Rules : CreateEventSeries(c, r) \/ StoreRule(c, r)
    \/ DropFuture(c) \/ Reload(c)
    \/ DropForGood(c) \/ RemoveSeries(c)
    \/ Break(c)

Next ==
    \/ \E c \in Calls : SeriesCall(c)
    \/ \E t, u \in Times : UpdateEvent(t, u)
    \/ \E t \in Times : DeleteEvent(t) \/ DeleteHistory(t)
    \/ Tick

Spec == Init /\ [][Next]_vars

----------------------------------------------------------------------------
(* Properties *)

\* Every variable holds what its column or its local can hold.
SeriesRow == [rule : Rules, version : 1..MaxVersions, through : Nat] \cup {NoSeries}
TypeOK ==
    /\ now \in 0..MaxClock
    /\ status \in {"none", "live", "deleted"}
    /\ series \in SeriesRow /\ (status = "live" <=> series # NoSeries)
    /\ occ \in [Times -> [version : 1..MaxVersions, edited : BOOLEAN] \cup {NoRow}]
    /\ edits \in 0..MaxEdits /\ faults \in 0..MaxFaults
    /\ pc \in [Calls -> {"idle", "stored", "dropped", "ending", "loaded", "filled"}]
    /\ at \in [Calls -> 0..MaxClock]
    /\ read \in [Calls -> SeriesRow]
    /\ \A c \in Calls : pc[c] \in {"loaded", "filled"} => read[c] # NoSeries
    /\ goal \in [Calls -> Times]
    /\ away \subseteq Times
    /\ tangled \in BOOLEAN

\* An occurrence that has happened is history: no rewrite of its rule, no
\* deletion of its series and no edit changes its row or takes it away. Only an
\* administrator's deletion does, and a call that looked at the clock before it
\* started, which is over within a tick.
HistoryIsKept ==
    [][\A t \in Times : t + 1 < now /\ occ[t] # NoRow =>
          occ'[t] = occ[t] \/ DeleteHistory(t)]_vars

Quiet == \A c \in Calls : ~Active(c)

\* What the calendar of a series shows of the future: the rows its rule makes,
\* up to the horizon (which the next extension starts from, so that a row at
\* that very instant may be yet to come), without those that were moved or
\* deleted by hand, and those that were put elsewhere.
InStep ==
    \A t \in Times : t > now =>
        /\ occ[t] # NoRow => occ[t].edited \/ (occ[t].version = series.version /\ t \in series.rule.times)
        /\ t \in series.rule.times /\ t < series.through => occ[t] # NoRow \/ t \in away

\* A series that is read, rewritten and deleted by calls that do not meet is in
\* step with its rule whenever no call is at work, wherever each of them stops
\* (but between the store of a rule and the rows it makes stale, or between the two
\* statements of a deletion), as long as no extension had more to make than one
\* call makes, and a series that was deleted has no future.
InStepUnlessTangled ==
    Quiet /\ ~tangled =>
        /\ status = "live" => InStep
        /\ status = "deleted" => \A t \in Times : t > now => occ[t] = NoRow
=============================================================================
