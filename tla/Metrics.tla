------------------------------ MODULE Metrics -------------------------------
(***************************************************************************)
(* Analytics: versions of metric definitions (analytics/catalog.py), the   *)
(* revisions of observations made under them (observation.py), and the     *)
(* KPI and GEO quality snapshots computed from listed observations (kpi.py *)
(* and geo_quality.py).  The definition of an observation is read under    *)
(* another lock than the one it is stored under, and a snapshot is         *)
(* computed from a list the caller read before.                            *)
(*                                                                         *)
(* Left out: tenants and the global catalogue, account evidence, the keys  *)
(* of catalogue commands (a replay changes nothing), events and audit      *)
(* records, locale and region filters, and the values of metrics beyond    *)
(* whether they count for, against or not at all.                          *)
(***************************************************************************)
EXTENDS Naturals, FiniteSetsExt, Sequences, SequencesExt

CONSTANTS
    MetricNames,       \* keys of metrics
    Measures,          \* dedupe keys of observations
    NameOf,            \* measure -> its metric
    RateNames,         \* metrics a rate is computed from
    KpiNames,          \* metrics a KPI snapshot supports
    GeoNames,          \* metrics a GEO quality snapshot supports
    Bodies,            \* [day, outcome, raw] an observation says
    Recorders,         \* threads that record
    ReportKeys,        \* idempotency keys
    Windows,           \* [from, to) a snapshot covers
    MaxMetricVersions, \* bound: versions of a metric
    MaxRevisions,      \* bound: versions of an observation
    MaxReports         \* bound: snapshots

ASSUME MetricBounds ==
    /\ {MaxMetricVersions, MaxRevisions, MaxReports} \subseteq Nat \ {0}
    /\ IsFiniteSet(Measures) /\ NameOf \in [Measures -> MetricNames] /\ "-" \notin MetricNames

VARIABLES
    metrics,  \* metric -> status of each of its versions
    observations, \* measure -> its versions, [metric, version, found, body]
    reading,  \* recorder -> the definition it goes by, [name, metric, version, found]
    kept,     \* key -> the request to record it stands for
    listed,   \* observations a caller listed, <<measure, version>>
    reports,  \* snapshots, [kind, window, inputs, ...]
    reportOf, \* <<kind, key>> -> the digest it stands for
    told      \* the last answer given, [digest, from, report]

metricVars == <<metrics, observations, reading, kept, listed, reports, reportOf, told>>

NoRead == [name |-> "-", metric |-> 0, version |-> 0, found |-> FALSE]
NoRequest == [measure |-> "-"]
NoDigest == [kind |-> "-"]
NoTold == [kind |-> "-"]

MetricInit(rows) ==
    /\ metrics = [n \in MetricNames |-> IF rows = <<>> THEN <<>> ELSE <<"active">>]
    /\ observations = [m \in Measures |-> rows]
    /\ reading = [r \in Recorders |-> NoRead]
    /\ kept = [k \in ReportKeys |-> NoRequest]
    /\ listed = <<>> /\ reports = {}
    /\ reportOf = [k \in {"kpi", "geo"} \X ReportKeys |-> NoDigest]
    /\ told = NoTold

(* create_metric_definition(): the latest version is named, or none is.    *)
CreateMetric(n, expected) ==
    /\ expected = Len(metrics[n]) /\ expected < MaxMetricVersions
    /\ metrics' = [metrics EXCEPT ![n] = Append(@, "draft")]
    /\ UNCHANGED <<observations, reading, kept, listed, reports, reportOf, told>>

ActivateMetric(n, v) ==
    /\ v \in DOMAIN metrics[n] /\ metrics[n][v] = "draft"
    /\ metrics' = [metrics EXCEPT ![n][v] = "active"]
    /\ UNCHANGED <<observations, reading, kept, listed, reports, reportOf, told>>

Replaces(n, w, v) == w > v /\ metrics[n][w] = "active"

RetireMetric(n, v, w) ==
    /\ {v, w} \subseteq DOMAIN metrics[n] /\ metrics[n][v] = "active"
    /\ Replaces(n, w, v)
    /\ metrics' = [metrics EXCEPT ![n][v] = "retired"]
    /\ UNCHANGED <<observations, reading, kept, listed, reports, reportOf, told>>

(* record_observation() up to its lock: the definition is active.  It is   *)
(* found in the catalogue, where the id of each version is its own, or the *)
(* caller supplies one, whose id and version are taken at its word.        *)
ReadDefinition(r, n, v) ==
    /\ reading[r] = NoRead
    /\ v \in DOMAIN metrics[n] /\ metrics[n][v] = "active"
    /\ reading' = [reading EXCEPT ![r] = [name |-> n, metric |-> v, version |-> v, found |-> TRUE]]
    /\ UNCHANGED <<metrics, observations, kept, listed, reports, reportOf, told>>

SupplyDefinition(r, n, id, v) ==
    /\ reading[r] = NoRead
    /\ reading' = [reading EXCEPT ![r] = [name |-> n, metric |-> id, version |-> v, found |-> FALSE]]
    /\ UNCHANGED <<metrics, observations, kept, listed, reports, reportOf, told>>

RowFrom(d, body) == [metric |-> d.metric, version |-> d.version, found |-> d.found, body |-> body]

Asked(r, m, body, given, expected) ==
    [measure |-> m, metric |-> reading[r].metric, version |-> reading[r].version, body |-> body,
     given |-> given, expected |-> expected]

(* The version a request is for; without one it is that of the latest.     *)
VersionFor(m, given) ==
    IF given # 0 THEN given ELSE IF observations[m] = <<>> THEN 1 ELSE Len(observations[m])

SameRow(m, given, row) ==
    LET n == VersionFor(m, given)
        Hashed(o) == <<o.metric, o.version, o.body>>
    IN n \in DOMAIN observations[m] /\ Hashed(observations[m][n]) = Hashed(row)

(* A version after the first names the one before it, and its definition   *)
(* has the id of the first one's.                                          *)
NextRow(m, given, expected, row) ==
    /\ VersionFor(m, given) = Len(observations[m]) + 1
    /\ expected = Len(observations[m])
    /\ observations[m] # <<>> => observations[m][1].metric = row.metric

(* The store keeps what a key was used for, and the versions of a measure  *)
(* in their order: a new one comes last.                                   *)
KeepRequest(k, request) == kept' = [kept EXCEPT ![k] = request]
SaveVersion(m, row) == observations' = [observations EXCEPT ![m] = Append(@, row)]

(* The locked part: a replay and what is refused change nothing.           *)
RecordObservation(r, k, m, body, given, expected) ==
    LET row == RowFrom(reading[r], body) IN
    /\ reading[r].name = NameOf[m]
    /\ reading' = [reading EXCEPT ![r] = NoRead]
    /\ kept[k] = NoRequest /\ KeepRequest(k, Asked(r, m, body, given, expected))
    /\ \/ SameRow(m, given, row) /\ UNCHANGED observations
       \/ NextRow(m, given, expected, row) /\ Len(observations[m]) < MaxRevisions /\ SaveVersion(m, row)
    /\ UNCHANGED <<metrics, listed, reports, reportOf, told>>

RecordRefused(r) ==
    /\ reading[r] # NoRead
    /\ reading' = [reading EXCEPT ![r] = NoRead]
    /\ UNCHANGED <<metrics, observations, kept, listed, reports, reportOf, told>>

(* list_observations(), of one measure or of all.                          *)
ListObservations(measures) ==
    /\ listed' = FoldSet(LAMBDA m, rows : rows \o [v \in DOMAIN observations[m] |-> <<m, v>>], <<>>, measures)
    /\ UNCHANGED <<metrics, observations, reading, kept, reports, reportOf, told>>

\* mutant: the version that came last, whichever it is
LaterSeen(best, o) == [best EXCEPT ![o[1]] = o[2]]

(* _latest(): one version of each measure, in whatever order they come.    *)
Later(best, o) == IF o[2] > best[o[1]] THEN [best EXCEPT ![o[1]] = o[2]] ELSE best

Latest(order) ==
    LET best == FoldLeft(Later, [m \in Measures |-> 0], order)
    IN {<<m, best[m]>> : m \in {x \in Measures : best[x] # 0}}

Says(o) == observations[o[1]][o[2]].body
Inside(rows, w) == {o \in rows : w.from <= Says(o).day /\ Says(o).day < w.to}
About(rows, names) == {o \in rows : NameOf[o[1]] \in names}
Counting(rows, outcomes) == {o \in rows : Says(o).outcome \in outcomes}

(* A KPI snapshot is complete when every family has a sample; what is      *)
(* unknown is none of a rate.                                              *)
SampleOf(rows, n) == About(rows, {n}) \ (IF n \in RateNames THEN Counting(rows, {"unknown"}) ELSE {})
KpiStatus(rows) ==
    IF \A n \in KpiNames : SampleOf(rows, n) # {} THEN "complete" ELSE "insufficient_data"
KpiReport(w, rows, odd) ==
    LET rates == About(rows, RateNames) IN
    [kind |-> "kpi", window |-> w, inputs |-> rows, odd |-> odd, status |-> KpiStatus(rows),
     met |-> Cardinality(Counting(rates, {"for"})), of |-> Cardinality(Counting(rates, {"for", "against"}))]

(* A GEO quality snapshot is to be reviewed when a value is unknown or raw.*)
GeoReport(w, rows, odd) ==
    [kind |-> "geo", window |-> w, inputs |-> rows, odd |-> odd,
     status |-> IF \E o \in rows : Says(o).raw \/ Says(o).outcome = "unknown" THEN "needs_review" ELSE "complete",
     met |-> Cardinality(Counting(rows, {"for"})), of |-> Cardinality(Counting(rows, {"for", "against"}))]

(* A request is told by its window, the rows that count and the number of  *)
(* those left out; a snapshot is known by it.                              *)
DigestOf(kind, w, rows, odd) == [kind |-> kind, window |-> w, inputs |-> rows, odd |-> odd]
Known(d) == {s \in reports : DigestOf(s.kind, s.window, s.inputs, s.odd) = d}

(* calculate_snapshot(): a snapshot that exists is answered again.  The    *)
(* KPI service remembers the key then, the GEO one does not.               *)
Calculate(kind, names, order, k, w) ==
    LET within == Inside(Latest(order), w)
        rows == About(within, names)
        odd == Cardinality(within \ rows)
        d == DigestOf(kind, w, rows, odd)
        new == IF kind = "kpi" THEN KpiReport(w, rows, odd) ELSE GeoReport(w, rows, odd)
        given == IF Known(d) = {} THEN new ELSE CHOOSE s \in reports : s \in Known(d)
    IN /\ rows # {}
       /\ reportOf[<<kind, k>>] \in {NoDigest, d}
       /\ Known(d) = {} => Cardinality(reports) < MaxReports
       /\ reports' = reports \cup {given}
       /\ reportOf' = IF Known(d) = {} \/ kind = "kpi" THEN [reportOf EXCEPT ![<<kind, k>>] = d] ELSE reportOf
       /\ told' = [kind |-> kind, window |-> w, from |-> Range(order), report |-> given]
       /\ UNCHANGED <<metrics, observations, reading, kept, listed>>

CatalogNext(n) ==
    \E v, w \in 0 .. MaxMetricVersions :
        CreateMetric(n, v) \/ ActivateMetric(n, v) \/ RetireMetric(n, v, w)

RecordNext(r, m, keys) ==
    \/ \E v \in 1 .. MaxMetricVersions : ReadDefinition(r, NameOf[m], v)
    \/ \E id, v \in 1 .. MaxMetricVersions : SupplyDefinition(r, NameOf[m], id, v)
    \/ \E k \in keys, body \in Bodies, given, expected \in 0 .. MaxRevisions :
        RecordObservation(r, k, m, body, given, expected)
    \/ RecordRefused(r)

(* The list is handed on from its first row to its last or the other way.  *)
ReportNext(lists) ==
    \/ \E measures \in lists : ListObservations(measures)
    \/ \E order \in {listed, Reverse(listed)}, k \in ReportKeys, w \in Windows :
        \/ Calculate("kpi", KpiNames, order, k, w)
        \/ Calculate("geo", GeoNames, order, k, w)

-----------------------------------------------------------------------------
MetricTypeOK ==
    /\ \A n \in MetricNames : Range(metrics[n]) \subseteq {"draft", "active", "retired"}
    /\ \A m \in Measures : \A o \in Range(observations[m]) : {o.metric, o.version} \subseteq 1 .. MaxMetricVersions /\ o.body \in Bodies
    /\ \A r \in Recorders : reading[r].version \in 0 .. MaxMetricVersions
    /\ Range(listed) \subseteq Measures \X (1 .. MaxRevisions)
    /\ \A s \in reports : s.met \in 0 .. s.of /\ s.of <= Cardinality(s.inputs)

(* A metric that was ever put in force has a version in force: a version   *)
(* is retired for a later one that is active, through any sequence of      *)
(* retirements.                                                            *)
MetricServed ==
    \A n \in MetricNames :
        "retired" \in Range(metrics[n]) =>
            \E v \in DOMAIN metrics[n] : metrics[n][v] = "active" /\ \A w \in DOMAIN metrics[n] :
                metrics[n][w] = "retired" => w < v

(* The versions of an observation measure one thing: their definitions     *)
(* have one id.  If one of them was found in the catalogue, it was put in  *)
(* force, though it may have been retired before the version was stored;   *)
(* then so was what the others name, those a caller supplied included.     *)
OneMeaning ==
    \A m \in Measures : \A a, b \in DOMAIN observations[m] :
        /\ observations[m][a].metric = observations[m][b].metric
        /\ observations[m][a].found =>
              /\ observations[m][a].version = observations[m][a].metric
              /\ observations[m][b].metric \in DOMAIN metrics[NameOf[m]]
              /\ metrics[NameOf[m]][observations[m][b].metric] # "draft"

(* The answer a caller is given counts each measure it listed once, by its *)
(* latest version, and only if that one is in the window: a revision that  *)
(* left the window takes the earlier one with it.  This holds when the     *)
(* snapshot is another caller's.                                           *)
CountedOnce ==
    told # NoTold =>
        LET newest == {o \in told.from : \A p \in told.from : p[1] = o[1] => p[2] <= o[2]}
            names == IF told.kind = "kpi" THEN KpiNames ELSE GeoNames
            expected == About(Inside(newest, told.window), names)
        IN /\ told.report.inputs = expected
           /\ told.report.of = Cardinality(About(Counting(expected, {"for", "against"}),
                                                  IF told.kind = "kpi" THEN RateNames ELSE GeoNames))
=============================================================================
