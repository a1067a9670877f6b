---------------------------- MODULE SKCActivity ----------------------------
(***************************************************************************)
(* internal/marketing/activity_state.go: which of the activities an SKC is *)
(* enrolled in is the one its sales are charged to.                        *)
(*                                                                         *)
(* ResolveSKCActivityState is a pure function of the capture time, of the  *)
(* stock points the current snapshot has for the SKC and of the state the  *)
(* previous capture left for it.  A stock point is a record                *)
(*    [enroll, cumulative, interval]                                       *)
(* (ActivityStockPoint): the enrollment, the stock it has used since it    *)
(* began and the stock it has used since the previous capture.  The code   *)
(* reads the points of an SKC as a collection without order or duplicates  *)
(* (uniqueSorted), so here they are a set, and so are the sorted           *)
(* identifier slices of the state.                                         *)
(***************************************************************************)
EXTENDS Integers, FiniteSets

CONSTANTS
  NoEnroll,  \* ActiveEnrollID = 0: no activity is named
  Never,     \* LastEvidenceAt = nil
  NoState    \* previous = nil: the SKC had no state

Confirmed == "confirmed"
Warning   == "warning"

----------------------------------------------------------------------------

EnrollsOf(points) == {p.enroll : p \in points}

Consuming(points) == EnrollsOf({p \in points : p.interval > 0})

Positive(points) == EnrollsOf({p \in points : p.cumulative > 0})

TheOnly(S) == CHOOSE x \in S : TRUE

PreviousActive(prev) == IF prev = NoState THEN NoEnroll ELSE prev.active

\* A state that starts at this capture and that nothing has been said about.
Undecided(now, points, prev) ==
  [ status         |-> Warning,
    active         |-> NoEnroll,
    previousActive |-> PreviousActive(prev),
    candidates     |-> EnrollsOf(points),
    evidence       |-> {},
    startedAt      |-> now,
    lastEvidenceAt |-> Never,
    carried        |-> FALSE,
    reason         |-> "initial_no_consumption" ]

\* The SKC is in no current enrollment.
NoCurrentActivity(now, prev) ==
  LET again == /\ prev # NoState
               /\ prev.status = Warning
               /\ prev.reason = "no_current_activity"
  IN  [ Undecided(now, {}, NoState) EXCEPT
          !.startedAt = IF again THEN prev.startedAt ELSE now,
          !.carried   = again,
          !.reason    = "no_current_activity" ]

\* One enrollment alone lost stock since the previous capture.
UniqueConsumption(now, points, prev) ==
  LET enroll == TheOnly(Consuming(points))
      same   == /\ prev # NoState
                /\ prev.status = Confirmed
                /\ prev.active = enroll
  IN  [ Undecided(now, points, prev) EXCEPT
          !.status         = Confirmed,
          !.active         = enroll,
          !.evidence       = {enroll},
          !.startedAt      = IF same THEN prev.startedAt ELSE now,
          !.lastEvidenceAt = now,
          !.reason         = "interval_unique_consumption" ]

\* Several lost stock in the same interval.  LastEvidenceAt stays nil.
MultipleConsumption(now, points, prev) ==
  [ Undecided(now, points, prev) EXCEPT
      !.evidence = Consuming(points),
      !.reason   = "interval_multiple_consumption" ]

\* Seeded bug: the time of the evidence is not carried over.
CarriedUndated(now, points, prev, reason) ==
  [ Undecided(now, points, prev) EXCEPT
      !.status         = prev.status,
      !.evidence       = prev.evidence,
      !.startedAt      = prev.startedAt,
      !.carried        = TRUE,
      !.reason         = reason ]

\* The part the three carry-forward branches share.
Carried(now, points, prev, reason) ==
  [ Undecided(now, points, prev) EXCEPT
      !.status         = prev.status,
      !.evidence       = prev.evidence,
      !.startedAt      = prev.startedAt,
      !.lastEvidenceAt = prev.lastEvidenceAt,
      !.carried        = TRUE,
      !.reason         = reason ]

\* resolveInitialState: no earlier state is usable, so judge by what each
\* enrollment has used since it began.
ResolveInitialState(now, points, prev) ==
  LET positive == Positive(points)
      fresh    == [Undecided(now, points, prev) EXCEPT !.evidence = positive]
  IN  CASE Cardinality(positive) = 1 ->
             [ fresh EXCEPT
                 !.status         = Confirmed,
                 !.active         = TheOnly(positive),
                 !.lastEvidenceAt = now,
                 !.reason         = "initial_unique_cumulative_consumption" ]
        [] Cardinality(positive) > 1 ->
             [ fresh EXCEPT
                 !.lastEvidenceAt = now,
                 !.reason         = "initial_multiple_cumulative_consumption" ]
        [] positive = {} -> fresh

\* Seeded bug: the activity may have ended.
CarriesConfirmedBlindly(points, prev) ==
  /\ prev # NoState
  /\ prev.status = Confirmed

CarriesConfirmed(points, prev) ==
  /\ prev # NoState
  /\ prev.status = Confirmed
  /\ prev.active \in EnrollsOf(points)

\* Seeded bug: a conflict is carried only while the candidates stay the same.
CarriesSameConflict(points, prev) ==
  /\ prev # NoState
  /\ prev.status = Warning
  /\ Cardinality(prev.evidence) > 1
  /\ prev.candidates = EnrollsOf(points)

CarriesConflict(points, prev) ==
  /\ prev # NoState
  /\ prev.status = Warning
  /\ Cardinality(prev.evidence) > 1
  /\ Cardinality(prev.evidence \cap EnrollsOf(points)) > 1

CarriesWarning(points, prev) ==
  /\ prev # NoState
  /\ prev.status = Warning
  /\ prev.candidates = EnrollsOf(points)

\* Seeded bug: without consumption the state is judged afresh.
ResolveWithoutMemory(now, points, prev) ==
  IF points = {} THEN NoCurrentActivity(now, prev)
  ELSE IF Cardinality(Consuming(points)) = 1
    THEN UniqueConsumption(now, points, prev)
  ELSE IF Cardinality(Consuming(points)) > 1
    THEN MultipleConsumption(now, points, prev)
  ELSE ResolveInitialState(now, points, prev)

ResolveSKCActivityState(now, points, prev) ==
  IF points = {} THEN NoCurrentActivity(now, prev)
  ELSE IF Cardinality(Consuming(points)) = 1
    THEN UniqueConsumption(now, points, prev)
  ELSE IF Cardinality(Consuming(points)) > 1
    THEN MultipleConsumption(now, points, prev)
  ELSE IF CarriesConfirmed(points, prev)
    THEN [ Carried(now, points, prev, "carry_forward_no_consumption")
             EXCEPT !.active = prev.active ]
  ELSE IF CarriesConflict(points, prev)
    THEN [ Carried(now, points, prev, "carry_forward_conflict")
             EXCEPT !.evidence = prev.evidence \cap EnrollsOf(points) ]
  ELSE IF CarriesWarning(points, prev)
    THEN Carried(now, points, prev, "carry_forward_warning")
  ELSE ResolveInitialState(now, points, prev)

=============================================================================
