-------------------------------- MODULE Report --------------------------------
(***************************************************************************)
(* 08-analytics, report.service.ts and report/validation.ts: the query     *)
(* behind GET /report/:page, a function of page_view_hourly and the        *)
(* request.  A bucket is <<page, hour>>, hours counted from the epoch.     *)
(***************************************************************************)
EXTENDS Integers, SequencesExt

CONSTANTS HoursInWindow,  \* HOURS_IN_WINDOW
          HoursPerDay,
          UnitsPerHour,   \* MS_PER_HOUR
          MaxTake         \* MAX_TAKE

ASSUME ReportAssumption ==
  {HoursInWindow, HoursPerDay, UnitsPerHour, MaxTake} \subseteq Nat \ {0}

\* All three are 24.
ASSUME WindowAssumption == HoursInWindow <= HoursPerDay /\ HoursInWindow <= MaxTake

Orders == {"asc", "desc"}

\* The hour a time lies in.
floorToHour(time) == time \div UnitsPerHour

clampTake(k) == IF k < 1 THEN 1 ELSE IF k > MaxTake THEN MaxTake ELSE k

\* generate_series: floor(now) - 23h up to floor(now).
windowOneMore(time) ==
  [i \in 1 .. HoursInWindow + 1 |-> floorToHour(time) - HoursInWindow + i - 1]

window(time) == [i \in 1 .. HoursInWindow |-> floorToHour(time) - HoursInWindow + i]

\* LEFT JOIN and COALESCE.
viewsIn(views, page, hour) == IF <<page, hour>> \in DOMAIN views THEN views[<<page, hour>>] ELSE 0

\* ORDER BY, then LIMIT; h is the UTC hour of the day.
getReport(views, page, time, order, take) ==
  LET hours  == IF order = "desc" THEN Reverse(window(time)) ELSE window(time)
      limit  == IF clampTake(take) < Len(hours) THEN clampTake(take) ELSE Len(hours)
  IN  [i \in 1 .. limit |-> [h |-> hours[i] % HoursPerDay, v |-> viewsIn(views, page, hours[i])]]
=============================================================================
