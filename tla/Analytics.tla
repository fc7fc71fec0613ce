----------------------------- MODULE Analytics -----------------------------
(* Collecting YouTube statistics about durable publications.  A collector    *)
(* checks the channel, probes the reporting days and only then reads the     *)
(* aggregate, while the remote reports grow day by day and metric by metric  *)
(* and the local token may be authorized anew for another channel.           *)
(* Time is counted in Pacific reporting days; the window <<a, b>> holds the  *)
(* days a .. b-1.  The value of a metric is the number of days it sums up.   *)
EXTENDS Naturals, FiniteSets, FiniteSetsExt

CONSTANTS
  Collectors, Publications,
  Supported,    \* metrics of _METRIC_MAP ...
  Unsupported,  \* ... and metrics a query may ask for all the same
  LastDay,      \* the day the clock stops at (bound)
  MaxRecords    \* no query once there are so many records (bound)

ASSUME AnalyticsAssumption ==
  /\ Supported \cap Unsupported = {}
  /\ LastDay \in Nat \ {0} /\ MaxRecords \in Nat \ {0}

VARIABLES
  today,     \* the clock, in reporting days
  account,   \* the channel the token file authorizes
  success,   \* durable success of each publication: its channel and effective day
  reported,  \* remote: days for which a metric of a publication is reported
  collector, \* AnalyticsService.collect of each thread
  records    \* analytics_observations: each observation with its ingestion day

analyticsVars == <<today, account, success, reported, collector, records>>

Metrics == Supported \cup Unsupported
Days == 0 .. LastDay
Channels == {"own", "other"}      \* "own" is config.channel_id
Unpublished == [channel |-> "none", effective |-> 0]

Query == [publication : Publications, effective : Days, channel : Channels,
          from : Days, upto : Days, metrics : (SUBSET Metrics) \ {{}}]
Observation == [query : Query, at : Days, value : UNION {[R -> Days] : R \in SUBSET Supported},
                missing : SUBSET Metrics, account : Channels]
NotCollecting == [pc |-> "idle"]
Returned(o) == DOMAIN o.value

AnalyticsInit ==
  /\ today = 0
  /\ account \in Channels
  /\ success = [p \in Publications |-> Unpublished]
  /\ reported = [p \in Publications |-> [m \in Supported |-> 0]]
  /\ collector = [c \in Collectors |-> NotCollecting]
  /\ records = {}

----------------------------------------------------------------------------
(* Surroundings *)

NextDay ==
  /\ today < LastDay
  /\ today' = today + 1
  /\ UNCHANGED <<account, success, reported, collector, records>>

\* A publish attempt succeeds; a scheduled one takes effect on a later day.
Published(p) ==
  /\ success[p] = Unpublished
  /\ \E ch \in Channels, day \in today .. LastDay :
       success' = [success EXCEPT ![p] = [channel |-> ch, effective |-> day]]
  /\ UNCHANGED <<today, account, reported, collector, records>>

\* Reports reach a closed day later, for each metric at its own pace.
ReportDay(p, m) ==
  /\ success[p] # Unpublished /\ reported[p][m] < today
  /\ reported' = [reported EXCEPT ![p][m] = @ + 1]
  /\ UNCHANGED <<today, account, success, collector, records>>

Authorize(ch) ==
  /\ account' = ch /\ ch # account
  /\ UNCHANGED <<today, success, reported, collector, records>>

----------------------------------------------------------------------------
(* AnalyticsService.collect *)

Move(c, state) ==
  /\ collector' = [collector EXCEPT ![c] = state]
  /\ UNCHANGED <<today, account, success, reported>>

\* query: a durable success, a window not before it took effect.
Inquire(c) ==
  /\ collector[c] = NotCollecting /\ Cardinality(records) < MaxRecords
  /\ \E p \in Publications, from, upto \in Days, M \in (SUBSET Metrics) \ {{}} :
       /\ success[p] # Unpublished
       /\ from < upto /\ success[p].effective <= from
       /\ Move(c, [pc |-> "health",
                   query |-> [publication |-> p, channel |-> success[p].channel,
                              effective |-> success[p].effective,
                              from |-> from, upto |-> upto, metrics |-> M]])
  /\ UNCHANGED records

\* health: the credentials of the service are those read here.
Health(c) ==
  /\ collector[c].pc = "health"
  /\ Move(c, IF account = "own"
             THEN [pc |-> "observe", query |-> collector[c].query, service |-> account]
             ELSE NotCollecting)
  /\ UNCHANGED records

Wanted(q) == q.metrics \cap Supported

Unavailable(q, at, service) ==
  [query |-> q, at |-> at, value |-> [m \in {} |-> 0], missing |-> q.metrics,
   account |-> service]

\* The tests of observe before its first request.
Observe(c) ==
  /\ collector[c].pc = "observe"
  /\ LET q == collector[c].query
         s == collector[c].service
     IN IF q.channel # s \/ today < q.from THEN Move(c, NotCollecting)
        ELSE IF today < q.upto \/ Wanted(q) = {}
        THEN Move(c, [pc |-> "record", seen |-> Unavailable(q, today, s)])
        ELSE Move(c, [pc |-> "probe", query |-> q, service |-> s, at |-> today])
  /\ UNCHANGED records

\* A report stops at the last day for which all of its metrics are reported.
Reach(q) == Min({reported[q.publication][m] : m \in Wanted(q)})
DaysReported(q) == {d \in q.from .. q.upto - 1 : d < Reach(q)}

\* Slip: any reported day is taken for coverage of the window.
CoversSomeDay(q, rows) == rows # {}

\* daily coverage: the row of the last day must be there.
Covers(q, rows) == q.upto - 1 \in rows

ProbeDays(c) ==
  /\ collector[c].pc = "probe"
  /\ \E rows \in SUBSET DaysReported(collector[c].query) :
       LET f == collector[c] IN
       Move(c, IF Covers(f.query, rows)
               THEN [f EXCEPT !.pc = "aggregate"]
               ELSE [pc |-> "record", seen |-> Unavailable(f.query, f.at, f.service)])
  /\ UNCHANGED records

\* The aggregate row: a metric may be null, and all of them may be.
Aggregate(c) ==
  /\ collector[c].pc = "aggregate"
  /\ LET f == collector[c]
         q == f.query
     IN \E R \in SUBSET Wanted(q) :
          Move(c, [pc |-> "record",
                   seen |-> [query |-> q, at |-> f.at, account |-> f.service,
                             value |-> [m \in R |-> Cardinality(DaysReported(q))],
                             missing |-> q.metrics \ R]])
  /\ UNCHANGED records

\* validate_analytics_observation and record_observation.
Valid(o) ==
  LET q == o.query IN
  /\ q.from <= o.at
  /\ Returned(o) \cap o.missing = {} /\ Returned(o) \cup o.missing = q.metrics
  /\ success[q.publication] = [channel |-> q.channel, effective |-> q.effective]

RecordObservation(c) ==
  /\ collector[c].pc = "record"
  /\ Valid(collector[c].seen)
  /\ Move(c, NotCollecting)
  /\ records' = IF \E r \in records : r.of = collector[c].seen THEN records
                ELSE records \cup {[of |-> collector[c].seen, ingested |-> today]}

\* observations_for_publication, get_observation: success is authenticated again.
HistoryReads(p) ==
  \A r \in records : r.of.query.publication = p =>
    success[p] = [channel |-> r.of.query.channel, effective |-> r.of.query.effective]

\* A refused query, a failed request, an odd response, a dead process.
GiveUp(c) ==
  /\ collector[c] # NotCollecting
  /\ Move(c, NotCollecting)
  /\ UNCHANGED records

AnalyticsNext ==
  \/ NextDay
  \/ \E p \in Publications : Published(p) \/ \E m \in Supported : ReportDay(p, m)
  \/ \E ch \in Channels : Authorize(ch)
  \/ \E c \in Collectors : \/ Inquire(c) \/ Health(c) \/ Observe(c) \/ ProbeDays(c)
                           \/ Aggregate(c) \/ RecordObservation(c) \/ GiveUp(c)

AnalyticsSpec == AnalyticsInit /\ [][AnalyticsNext]_analyticsVars

----------------------------------------------------------------------------
(* Properties *)

AnalyticsTypeOK ==
  /\ today \in Days /\ account \in Channels
  /\ \A p \in Publications : /\ success[p] \in [channel : Channels \cup {"none"}, effective : Days]
                             /\ \A m \in Supported : reported[p][m] \in 0 .. today
  /\ \A c \in Collectors : collector[c] # NotCollecting =>
       collector[c].pc \in {"health", "observe", "probe", "aggregate", "record"}
  /\ \A r \in records : r.of \in Observation /\ r.ingested \in r.of.at .. today

\* A number on record sums up every day of a window that was over when it was
\* observed: never a report truncated at the last day all metrics had, although
\* the probe and the aggregate are two reads of growing reports.
WindowIsFullyCounted ==
  \A r \in records : \A m \in Returned(r.of) :
    /\ r.of.value[m] = r.of.query.upto - r.of.query.from
    /\ r.of.query.upto <= r.of.at

\* It was read with the credentials of the channel that holds the publication,
\* whatever the token was authorized for before and after.
ReadFromItsChannel ==
  \A r \in records :
    /\ r.of.account = success[r.of.query.publication].channel
    /\ success[r.of.query.publication].effective <= r.of.query.from

\* The history of a publication is readable: no stored observation names an
\* identity of the publication that its durable success does not have.
HistoryIsReadable == \A p \in Publications : success[p] # Unpublished => HistoryReads(p)

\* One observation has one record, whoever collected it how often.
RecordedOnce == \A r, s \in records : r.of = s.of => r = s

\* What the history of a publication can be trusted for (storage/analytics.py,
\* providers/youtube_analytics.py): all of the above.
AnalyticsInv ==
  /\ AnalyticsTypeOK /\ WindowIsFullyCounted /\ ReadFromItsChannel
  /\ HistoryIsReadable /\ RecordedOnce
=============================================================================
