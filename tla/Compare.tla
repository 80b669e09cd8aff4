------------------------------- MODULE Compare -------------------------------
(***************************************************************************)
(* wsblast --compare (run_compare of src/app.rs): two saved reports become *)
(* maps of metrics (src/report.rs), to which the summary of their time     *)
(* series inside a window is added (src/series_compare.rs), and every      *)
(* metric whose relative change passes the threshold is a regression or an *)
(* improvement.                                                            *)
(*                                                                         *)
(* Metrics of one kind are compared alike, so a report has one of each     *)
(* kind.  Values are fractions <<n, d>> instead of f64, and percentages    *)
(* count tenths, so that Whole stands for 100%.  An Option is a set of at  *)
(* most one element.                                                       *)
(***************************************************************************)
EXTENDS Integers, Sequences, FiniteSets, FiniteSetsExt, SequencesExt

CONSTANTS
  CmpInputs,     \* bound: command lines [baseline, current, threshold, window, fail]
  SlackPart      \* EDGE_SLACK is 1/SlackPart of an interval

ASSUME CompareAssumption == SlackPart \in Nat \ {0}

VARIABLES
  cmpIn,         \* the command line; a report that cannot be parsed is {}
  cmpAt,         \* "options", "reports" or "over"
  cmpSeen,       \* BaselineComparison, at most one: [worse, better, series]
  cmpExit        \* the exit code, or -1

compareVars == <<cmpIn, cmpAt, cmpSeen, cmpExit>>

Whole == 10
Unit(option) == CHOOSE x \in option : TRUE
Below(p, q) == p[1] * q[2] < q[1] * p[2]

----------------------------------------------------------------------------
(* Time series and window (src/series_compare.rs).                         *)

\* CompareWindow::parse, of [start, end].
WindowValid(w) ==
  /\ w.start # {} \/ w.end # {}
  /\ \A e \in w.end : (IF w.start = {} THEN 0 ELSE Unit(w.start)) < e

\* CompareWindow::contains: the point's whole interval, with slack, inside.
WindowContains(w, point, slack) ==
  /\ \A s \in w.start : point.start * SlackPart >= s * SlackPart - slack
  /\ \A e \in w.end : (point.start + point.len) * SlackPart <= e * SlackPart + slack

\* window_points; slack is in units of 1/SlackPart.
WindowPoints(report, window) ==
  SelectSeq(report.points,
            LAMBDA p : \A w \in window : WindowContains(w, p, report.interval))

\* SeriesSummary::of and insert_into: the metrics that are defined for the
\* points in the window.  The coefficient of variation is kept as its square.
SeriesMetrics(report, window) ==
  LET points == WindowPoints(report, window)
      full == SelectSeq(points, LAMBDA p :
                p.len * SlackPart >= report.interval * (SlackPart - 1) /\ p.len > 0)
      sum(f(_)) == FoldSeq(LAMBDA p, acc : acc + f(p), 0, full)
      secs == sum(LAMBDA p : p.len)
      sent == sum(LAMBDA p : p.rate * p.len)
      squares == sum(LAMBDA p : p.rate * p.rate * p.len)
      sampled == SelectSeq(points, LAMBDA p : p.p99 # {})
      p99s == SortSeq([i \in DOMAIN sampled |-> Unit(sampled[i].p99)], <)
      n == Len(p99s)
      errors == {points[i].errors : i \in DOMAIN points}
  IN IF points = <<>> THEN {}
     ELSE {<<"series.error_intervals",
             <<Len(SelectSeq(points, LAMBDA p : p.errors > 0)), 1>> >>,
           <<"series.max_interval_errors", <<Max(errors), 1>> >>}
          \cup (IF full = <<>> THEN {}
                ELSE {<<"series.throughput_mean", <<sent, secs>> >>})
          \cup (IF Len(full) < 2 \/ sent = 0 THEN {}
                ELSE {<<"series.throughput_cv",
                        <<secs * squares - sent * sent, sent * sent>> >>})
          \cup (IF n = 0 THEN {}
                ELSE {<<"series.p99_median_us",
                        IF n % 2 = 1 THEN <<p99s[(n + 1) \div 2], 1>>
                        ELSE <<p99s[n \div 2] + p99s[n \div 2 + 1], 2>> >>,
                      <<"series.p99_worst_us", <<p99s[n], 1>> >>})

----------------------------------------------------------------------------
(* The comparison (src/report.rs).                                         *)

\* metrics_to_map: the categories of error_breakdown are metrics by their own
\* names, and response time is there only when it was measured.
MetricsToMap(report) ==
  {<<"total_connections_attempted", <<report.attempted, 1>> >>,
   <<"total_messages_recv", <<report.recv, 1>> >>,
   <<"message_rtt", <<report.rtt, 1>> >>}
  \cup {<<c, <<report.errors[c], 1>> >> : c \in DOMAIN report.errors}
  \cup {<<"response_time", <<us, 1>> >> : us \in report.response}

MapOf(report, window) == MetricsToMap(report) \cup SeriesMetrics(report, window)
MetricNames(map) == {m[1] : m \in map}
ValueIn(map, name) ==
  IF name \in MetricNames(map) THEN (CHOOSE m \in map : m[1] = name)[2] ELSE <<0, 1>>

SeriesNames ==
  {"series.error_intervals", "series.max_interval_errors", "series.throughput_mean",
   "series.throughput_cv", "series.p99_median_us", "series.p99_worst_us"}

\* metric_direction.
HigherIsBetter == {"total_messages_recv", "series.throughput_mean"}
Neutral == {"total_connections_attempted"}

\* The names compare_metrics_in scores: not the neutral ones, not response time
\* or series metrics one report lacks, and nothing that is zero in both.
Compared(base, cur) ==
  {n \in (MetricNames(base) \cup MetricNames(cur)) \ Neutral :
     /\ n \in SeriesNames \cup {"response_time"}
          => n \in MetricNames(base) \cap MetricNames(cur)
     /\ ValueIn(base, n)[1] # 0 \/ ValueIn(cur, n)[1] # 0}

\* The factor of a squared metric is squared.
Factor(name, k) ==
  IF name = "series.throughput_cv" THEN <<k * k, Whole * Whole>> ELSE <<k, Whole>>
Scaled(p, q) == <<p[1] * q[1], p[2] * q[2]>>

\* Mutant: a metric without a baseline has no relative change.
RisesFromSome(name, base, cur, threshold) ==
  base[1] # 0 /\ Below(Scaled(base, Factor(name, Whole + threshold)), cur)

\* pct_change > threshold and pct_change < -threshold; a zero baseline is a
\* change of 100%.
Rises(name, base, cur, threshold) ==
  IF base[1] = 0 THEN Whole > threshold
  ELSE Below(Scaled(base, Factor(name, Whole + threshold)), cur)
Falls(name, base, cur, threshold) ==
  /\ base[1] # 0 /\ threshold < Whole
  /\ Below(cur, Scaled(base, Factor(name, Whole - threshold)))

\* compare_metrics_in.
CompareMetrics(base, cur, threshold) ==
  LET rises == {n \in Compared(base, cur) :
                  Rises(n, ValueIn(base, n), ValueIn(cur, n), threshold)}
      falls == {n \in Compared(base, cur) :
                  Falls(n, ValueIn(base, n), ValueIn(cur, n), threshold)}
  IN [worse  |-> (falls \cap HigherIsBetter) \cup (rises \ HigherIsBetter),
      better |-> (rises \cap HigherIsBetter) \cup (falls \ HigherIsBetter),
      series |-> /\ MetricNames(base) \cap SeriesNames # {}
                 /\ MetricNames(cur) \cap SeriesNames # {}]

----------------------------------------------------------------------------
CompareInit ==
  /\ cmpIn \in CmpInputs
  /\ cmpAt = "options" /\ cmpSeen = {} /\ cmpExit = -1

Fails == cmpAt' = "over" /\ cmpExit' = 1 /\ UNCHANGED cmpSeen

\* The files are read, the threshold and the window checked, the reports parsed.
ReadOptions ==
  /\ cmpAt = "options"
  /\ IF /\ cmpIn.baseline # {} /\ cmpIn.current # {}
        /\ cmpIn.threshold >= 0
        /\ \A w \in cmpIn.window : WindowValid(w)
     THEN cmpAt' = "reports" /\ UNCHANGED <<cmpSeen, cmpExit>>
     ELSE Fails
  /\ UNCHANGED cmpIn

\* check_window_covers, of one report.
WindowCovers(report, window) == window # {} => WindowPoints(report, window) # <<>>

\* The comparison and its exit code.
CompareReports ==
  /\ cmpAt = "reports"
  /\ LET base == Unit(cmpIn.baseline)
         cur == Unit(cmpIn.current)
         result == CompareMetrics(MapOf(base, cmpIn.window), MapOf(cur, cmpIn.window),
                                  cmpIn.threshold)
     IN IF WindowCovers(base, cmpIn.window) /\ WindowCovers(cur, cmpIn.window)
        THEN /\ cmpAt' = "over"
             /\ cmpSeen' = {result}
             /\ cmpExit' = IF cmpIn.fail /\ result.worse # {} THEN 2 ELSE 0
        ELSE Fails
  /\ UNCHANGED cmpIn

CompareEnded == cmpAt = "over" /\ UNCHANGED compareVars

CompareNext == ReadOptions \/ CompareReports \/ CompareEnded

----------------------------------------------------------------------------
\* A boundary of an interval, sampled late by no more than the slack.
Boundary(report, time) == (time % report.interval) * SlackPart <= report.interval
IntervalOf(report, time) == time \div report.interval

\* docs/ci.md, section 7, and METHODOLOGY.md, section 6.5.  A metric that falls
\* from one report to the other rises on the way back, and nothing is worse both
\* ways.  An error category the baseline does not have is a regression below a
\* threshold of 100%.  With a window the series metrics are compared, and a
\* window of whole intervals keeps exactly those intervals, however late (within
\* the slack) the timer sampled their boundaries.
CompareSound ==
  \A seen \in cmpSeen :
    LET base == Unit(cmpIn.baseline)
        cur == Unit(cmpIn.current)
        back == CompareMetrics(MapOf(cur, cmpIn.window), MapOf(base, cmpIn.window),
                               cmpIn.threshold)
    IN /\ seen.worse \cap back.worse = {}
       /\ seen.worse \cap HigherIsBetter \subseteq back.better
       /\ seen.better \ HigherIsBetter \subseteq back.worse
       /\ cmpIn.threshold < Whole =>
            \A c \in DOMAIN cur.errors \ DOMAIN base.errors :
              cur.errors[c] > 0 => c \in seen.worse
       /\ cmpIn.window # {} => seen.series
       /\ \A w \in cmpIn.window, report \in {base, cur} :
            \A s \in w.start, e \in w.end :
              (/\ s % report.interval = 0 /\ e % report.interval = 0
               /\ \A i \in DOMAIN report.points : Boundary(report, report.points[i].start))
              => \A i \in DOMAIN report.points :
                   Boundary(report, report.points[i].start + report.points[i].len) =>
                   (report.points[i] \in ToSet(WindowPoints(report, cmpIn.window))
                      <=> /\ IntervalOf(report, s) <= IntervalOf(report, report.points[i].start)
                          /\ IntervalOf(report, report.points[i].start) < IntervalOf(report, e))
============================================================================
