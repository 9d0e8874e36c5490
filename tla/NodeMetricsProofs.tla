--------------------------- MODULE NodeMetricsProofs ---------------------------
(***************************************************************************)
(* Proofs about the metrics of nodes, for any nodes, disks, histories,     *)
(* periods and length of the grid: the grid has Parts + 1 points inside    *)
(* the period, every sample falls on its own point, a request fails for no *)
(* reason but a failed query or a disk that came up meanwhile, and the     *)
(* usage of disks is a share.                                              *)
(***************************************************************************)
EXTENDS NodeMetrics, SequenceTheorems, FiniteSetTheorems, WellFoundedInduction, TLAPS

--------------------------------------------------------------------------------
(* The inductive invariant *)

Row(cpu, mem, disc, net, cpuRatio, memRatio) ==
    [cpu |-> cpu, mem |-> mem, disc |-> disc, net |-> net,
     cpuRatio |-> cpuRatio, memRatio |-> memRatio]
IsAnswer(r) == r = Row(r.cpu, r.mem, r.disc, r.net, r.cpuRatio, r.memRatio)

\* A usage is empty or has every point of a grid.
WholeOrEmpty(usage) == Len(usage) \in {0, Parts + 1}

\* The state without the answer.
Base ==
    /\ up \in [Nodes -> SUBSET Times] /\ disk \in [Nodes \X Disks -> SUBSET Times]
    /\ pc \in {"idle", "memory", "cpu", "free", "total", "network", "answered", "failed"}
    /\ nodes \subseteq Nodes /\ (pc = "idle" => nodes = {})
    /\ \E h \in Periods : period = genTimePeriodParams(h)
    /\ DOMAIN free \subseteq Nodes \X Disks

Answers ==
    /\ answer = [n \in Nodes |-> answer[n]]
    /\ \A n \in Nodes :
        /\ IsAnswer(answer[n])
        /\ n \notin nodes => answer[n] = None
        /\ WholeOrEmpty(answer[n].cpu) /\ WholeOrEmpty(answer[n].mem)
        /\ WholeOrEmpty(answer[n].disc) /\ WholeOrEmpty(answer[n].net)

\* What a gauge may show at the points of the grid.
Shows(n, usage) ==
    usage # <<>> => \A k \in 1..Points :
        LET t == Timestamp(k) IN
        \/ t \in up[n] /\ usage[k] = Gauge[<<n, t>>]
        \/ (t \notin up[n] \/ t = Now) /\ usage[k] = 0

Gauges == \A n \in nodes : Shows(n, answer[n].cpu) /\ Shows(n, answer[n].mem)

\* As long as no disk has come up since the query of free space, it has answered with
\* the disks that have a sample now.
SameDisks ==
    pc = "total" /\ ~appeared =>
        \A n \in nodes, d \in Disks : <<n, d>> \in DOMAIN free <=> disk[<<n, d>>] \cap Grid # {}

IInv == Base /\ Answers /\ Gauges /\ SameDisks /\ FailsOnlyWhenDiskAppears

--------------------------------------------------------------------------------
(* The grid *)

LEMMA TimesQuotient ==
    ASSUME NEW x \in Nat, NEW p \in Nat \ {0}
    PROVE  (x * p) \div p = x
OBVIOUS

LEMMA TimesMonotone ==
    ASSUME NEW x \in Nat, NEW y \in Nat, NEW p \in Nat, x <= y
    PROVE  x * p <= y * p
OBVIOUS

\* A point for each part, and one more; all in the period.
LEMMA GridOfPeriod ==
    ASSUME Base
    PROVE  /\ Points = Parts + 1 /\ Grid \subseteq Times
           /\ period.Begin \in Nat /\ period.Step \in Nat \ {0}
           /\ \A k \in 1..Points : /\ Timestamp(k) \in Grid /\ Timestamp(k) \in Int
                                   /\ (Timestamp(k) - period.Begin) \div period.Step = k - 1
<1>1. PICK h \in Periods : period = genTimePeriodParams(h)
  BY DEF Base
<1>. DEFINE p == h * HourStep
<1>2. /\ h \in Nat \ {0} /\ HourStep \in Nat \ {0} /\ Parts \in Nat \ {0}
      /\ h * Parts * HourStep <= Now /\ Now \in Nat
  BY MetricsAssumption
<1>3. p \in Nat \ {0} /\ h * Parts * HourStep = Parts * p
  BY <1>2
<1>. HIDE DEF p
<1>4. /\ period.Begin = Now - Parts * p /\ period.End = Now /\ period.Step = p
      /\ Parts * p \in Nat /\ Parts * p <= Now
  BY <1>1, <1>2, <1>3 DEF genTimePeriodParams, p
<1>5. Points = Parts + 1
  <2>1. period.End - period.Begin = Parts * p
    BY <1>2, <1>4
  <2>2. (Parts * p) \div p = Parts
    BY <1>2, <1>3, TimesQuotient
  <2>. QED
    BY <1>4, <2>1, <2>2 DEF Points
<1>6. ASSUME NEW k \in 1..Points
      PROVE  /\ Timestamp(k) \in Times
             /\ (Timestamp(k) - period.Begin) \div period.Step = k - 1
  <2>1. k - 1 \in Nat /\ k - 1 <= Parts
    BY <1>2, <1>5
  <2>. DEFINE j == k - 1
  <2>2. j * p \in Nat /\ j * p <= Parts * p
    <3>1. j \in Nat /\ j <= Parts
      BY <2>1
    <3>. HIDE DEF j
    <3>. QED
      BY <1>2, <1>3, <3>1, TimesMonotone
  <2>3. (j * p) \div p = j
    <3>1. j \in Nat
      BY <2>1
    <3>. HIDE DEF j
    <3>. QED
      BY <1>3, <3>1, TimesQuotient
  <2>4. Timestamp(k) = period.Begin + j * p
    BY <1>4 DEF Timestamp
  <2>5. Timestamp(k) - period.Begin = j * p /\ Timestamp(k) \in 0..Now
    <3>. HIDE DEF j
    <3>. QED
      BY <1>2, <1>4, <2>2, <2>4
  <2>6. (Timestamp(k) - period.Begin) \div period.Step = j
    BY <1>4, <2>3, <2>5
  <2>. QED
    BY <2>5, <2>6 DEF Times
<1>7. Grid \subseteq Times
  BY <1>6 DEF Grid
<1>8. \A k \in 1..Points : Timestamp(k) \in Grid
  BY DEF Grid
<1>. QED
  BY <1>2, <1>3, <1>4, <1>5, <1>6, <1>7, <1>8 DEF Times

\* A list with a value for each point is empty only without points.
LEMMA WholeList ==
    ASSUME NEW n \in Nat, NEW f, f = [k \in 1..n |-> f[k]]
    PROVE  Len(f) = n /\ (f = <<>> <=> n = 0)
<1>. DEFINE S == {f[k] : k \in 1..n}
<1>1. f \in [1..n -> S]
  BY Zenon
<1>2. f \in Seq(S)
  BY <1>1, IsASeq
<1>3. Len(f) = n
  BY <1>1, <1>2, LenProperties
<1>. QED
  BY <1>2, <1>3, EmptySeq

\* Each point of a list has the sample of its own timestamp, or zero.
LEMMA PointsShowSamples ==
    ASSUME Base, NEW samples \in SUBSET Grid, NEW values, DOMAIN values = samples
    PROVE  \A k \in 1..Points : getRatiosWithTimestamp(values)[k] =
                                  IF Timestamp(k) \in samples THEN values[Timestamp(k)] ELSE 0
<1>. DEFINE at(k) == {t \in DOMAIN values : (t - period.Begin) \div period.Step = k - 1}
            shown == getRatiosWithTimestamp(values)
<1>1. /\ Points = Parts + 1 /\ Grid \subseteq Times /\ Parts \in Nat
      /\ \A k \in 1..Points : /\ Timestamp(k) \in Grid /\ Timestamp(k) \in Int
                              /\ (Timestamp(k) - period.Begin) \div period.Step = k - 1
  BY GridOfPeriod, MetricsAssumption
<1>2. shown = [k \in 1..Points |-> IF at(k) = {} THEN 0 ELSE values[Max(at(k))]]
  BY DEF getRatiosWithTimestamp
<1>3. ASSUME NEW k \in 1..Points
      PROVE  at(k) = IF Timestamp(k) \in samples THEN {Timestamp(k)} ELSE {}
  <2>1. ASSUME NEW t \in at(k)
        PROVE  t = Timestamp(k) /\ t \in samples
    <3>1. t \in samples /\ t \in Grid /\ (t - period.Begin) \div period.Step = k - 1
      OBVIOUS
    <3>2. PICK j \in 1..Points : t = Timestamp(j)
      BY <3>1 DEF Grid
    <3>3. j - 1 = k - 1
      BY <1>1, <3>1, <3>2
    <3>4. j = k
      BY <1>1, <3>3
    <3>. QED
      BY <3>1, <3>2, <3>4
  <2>2. Timestamp(k) \in samples => Timestamp(k) \in at(k)
    BY <1>1
  <2>. HIDE DEF at
  <2>. QED
    BY <2>1, <2>2
<1>4. ASSUME NEW k \in 1..Points
      PROVE  shown[k] = IF Timestamp(k) \in samples THEN values[Timestamp(k)] ELSE 0
  <2>. HIDE DEF at, shown
  <2>1. CASE Timestamp(k) \in samples
    <3>1. at(k) = {Timestamp(k)} /\ Timestamp(k) \in Int
      BY <1>1, <1>3, <2>1
    <3>2. Max(at(k)) = Timestamp(k)
      BY <3>1 DEF Max
    <3>. QED
      BY <1>2, <2>1, <3>1, <3>2
  <2>2. CASE Timestamp(k) \notin samples
    <3>1. at(k) = {}
      BY <1>3, <2>2
    <3>. QED
      BY <1>2, <2>2, <3>1
  <2>. QED
    BY <2>1, <2>2
<1>. QED
  BY <1>4

--------------------------------------------------------------------------------
(* Gauges *)

\* At each point a gauge has the sample of the point's own timestamp, and of no other.
LEMMA GaugeShowsSamples ==
    ASSUME Base, NEW n \in Nodes
    PROVE  LET usage == resolveGauge(getPrometheusData(up), n) IN
           WholeOrEmpty(usage) /\ Shows(n, usage)
<1>. DEFINE resp == getPrometheusData(up)
            samples == up[n] \cap Grid
            values == [t \in samples |-> Gauge[<<n, t>>]]
            shown == getRatiosWithTimestamp(values)
<1>1. Points = Parts + 1 /\ Parts \in Nat /\ \A k \in 1..Points : Timestamp(k) \in Grid
  BY GridOfPeriod, MetricsAssumption
<1>2. samples \in SUBSET Grid /\ DOMAIN values = samples
  OBVIOUS
<1>3. \A t \in samples : values[t] = Gauge[<<n, t>>]
  OBVIOUS
<1>4. shown = [k \in 1..Points |-> shown[k]]
  BY DEF getRatiosWithTimestamp
<1>5. CASE n \in DOMAIN resp
  <2>1. resp[n] = samples
    BY <1>5 DEF getPrometheusData
  <2>2. resolveGauge(resp, n) = shown
    BY <1>5, <2>1 DEF resolveGauge
  <2>. HIDE DEF values
  <2>3. \A k \in 1..Points :
          shown[k] = IF Timestamp(k) \in samples THEN values[Timestamp(k)] ELSE 0
    BY <1>2, PointsShowSamples
  <2>. HIDE DEF shown
  <2>4. WholeOrEmpty(shown)
    BY <1>1, <1>4, WholeList DEF WholeOrEmpty
  <2>5. Shows(n, shown)
    BY <1>1, <1>3, <2>3 DEF Shows
  <2>. QED
    BY <2>2, <2>4, <2>5
<1>6. CASE n \notin DOMAIN resp
  <2>1. resolveGauge(resp, n) = <<>>
    BY <1>6 DEF resolveGauge
  <2>2. WholeOrEmpty(<<>>) /\ Shows(n, <<>>)
    BY EmptySeq DEF WholeOrEmpty, Shows
  <2>. QED
    BY <2>1, <2>2
<1>. QED
  BY <1>5, <1>6

--------------------------------------------------------------------------------
(* Putting an answer into the nodes *)

LEMMA PutMem ==
    ASSUME NEW r, IsAnswer(r), NEW v
    PROVE  LET q == [r EXCEPT !["mem"] = v] IN
           /\ IsAnswer(q) /\ q.mem = v
           /\ q.cpu = r.cpu /\ q.disc = r.disc /\ q.net = r.net
<1>1. \A c, m, d, n, e, f : [Row(c, m, d, n, e, f) EXCEPT !["mem"] = v] = Row(c, v, d, n, e, f)
  BY DEF Row
<1>. DEFINE q == [r EXCEPT !["mem"] = v]
<1>2. q = Row(r.cpu, v, r.disc, r.net, r.cpuRatio, r.memRatio)
  BY <1>1 DEF IsAnswer
<1>. HIDE DEF q
<1>3. q.mem = v /\ q.cpu = r.cpu /\ q.disc = r.disc /\ q.net = r.net /\ q.cpuRatio = r.cpuRatio /\ q.memRatio = r.memRatio
  BY <1>2 DEF Row
<1>4. IsAnswer(q)
  BY <1>2, <1>3 DEF IsAnswer
<1>. QED
  BY <1>3, <1>4 DEF q

LEMMA PutCpu ==
    ASSUME NEW r, IsAnswer(r), NEW v
    PROVE  LET q == [r EXCEPT !["cpu"] = v] IN
           /\ IsAnswer(q) /\ q.cpu = v
           /\ q.mem = r.mem /\ q.disc = r.disc /\ q.net = r.net
<1>1. \A c, m, d, n, e, f : [Row(c, m, d, n, e, f) EXCEPT !["cpu"] = v] = Row(v, m, d, n, e, f)
  BY DEF Row
<1>. DEFINE q == [r EXCEPT !["cpu"] = v]
<1>2. q = Row(v, r.mem, r.disc, r.net, r.cpuRatio, r.memRatio)
  BY <1>1 DEF IsAnswer
<1>. HIDE DEF q
<1>3. q.cpu = v /\ q.mem = r.mem /\ q.disc = r.disc /\ q.net = r.net /\ q.cpuRatio = r.cpuRatio /\ q.memRatio = r.memRatio
  BY <1>2 DEF Row
<1>4. IsAnswer(q)
  BY <1>2, <1>3 DEF IsAnswer
<1>. QED
  BY <1>3, <1>4 DEF q

LEMMA PutDisc ==
    ASSUME NEW r, IsAnswer(r), NEW v
    PROVE  LET q == [r EXCEPT !["disc"] = v] IN
           /\ IsAnswer(q) /\ q.disc = v
           /\ q.cpu = r.cpu /\ q.mem = r.mem /\ q.net = r.net
<1>1. \A c, m, d, n, e, f : [Row(c, m, d, n, e, f) EXCEPT !["disc"] = v] = Row(c, m, v, n, e, f)
  BY DEF Row
<1>. DEFINE q == [r EXCEPT !["disc"] = v]
<1>2. q = Row(r.cpu, r.mem, v, r.net, r.cpuRatio, r.memRatio)
  BY <1>1 DEF IsAnswer
<1>. HIDE DEF q
<1>3. q.disc = v /\ q.cpu = r.cpu /\ q.mem = r.mem /\ q.net = r.net /\ q.cpuRatio = r.cpuRatio /\ q.memRatio = r.memRatio
  BY <1>2 DEF Row
<1>4. IsAnswer(q)
  BY <1>2, <1>3 DEF IsAnswer
<1>. QED
  BY <1>3, <1>4 DEF q

\* The usages of disks and interfaces have every point, or none.
LEMMA WholeUsages ==
    ASSUME Base, NEW n, NEW respFree, NEW respTotal
    PROVE  /\ WholeOrEmpty(resolveDiscValues(respFree, respTotal, n))
           /\ WholeOrEmpty(resolveNetworkValues(respFree, n))
<1>1. Points = Parts + 1 /\ Parts \in Nat
  BY GridOfPeriod, MetricsAssumption
<1>2. WholeOrEmpty(<<>>)
  BY EmptySeq DEF WholeOrEmpty
<1>3. \A f : f = [k \in 1..Points |-> f[k]] => WholeOrEmpty(f)
  BY <1>1, WholeList DEF WholeOrEmpty
<1>4. WholeOrEmpty(resolveDiscValues(respFree, respTotal, n))
  <2>. DEFINE u == resolveDiscValues(respFree, respTotal, n)
  <2>1. u = <<>> \/ u = [k \in 1..Points |-> u[k]]
    BY DEF resolveDiscValues
  <2>. HIDE DEF u
  <2>2. WholeOrEmpty(u)
    BY <1>2, <1>3, <2>1
  <2>. QED
    BY <2>2 DEF u
<1>5. WholeOrEmpty(resolveNetworkValues(respFree, n))
  <2>. DEFINE u == resolveNetworkValues(respFree, n)
  <2>1. u = <<>> \/ u = [k \in 1..Points |-> u[k]]
    BY DEF resolveNetworkValues
  <2>. HIDE DEF u
  <2>2. WholeOrEmpty(u)
    BY <1>2, <1>3, <2>1
  <2>. QED
    BY <2>2 DEF u
<1>. QED
  BY <1>4, <1>5

--------------------------------------------------------------------------------
(* Steps *)

\* What a step between two queries leaves alone.
Same == UNCHANGED <<up, disk, nodes, period>>

LEMMA SameGrid ==
    ASSUME Same
    PROVE  /\ Points' = Points /\ Grid' = Grid
           /\ \A k : Timestamp(k)' = Timestamp(k)
           /\ \A n, u : Shows(n, u)' <=> Shows(n, u)
BY DEF Same, Points, Grid, Timestamp, Shows

\* The rows are read: no node has an answer yet.
LEMMA RequestKeepsInv ==
    ASSUME IInv, NEW ns \in SUBSET Nodes, NEW value, Request(ns, value)
    PROVE  IInv'
<1>1. /\ pc = "idle" /\ pc' = "memory" /\ nodes = {} /\ nodes' = ns
      /\ period' = genTimePeriodParams(getPeriodFromFilters(value))
      /\ UNCHANGED <<up, disk, alive, free, answer, lost, appeared>>
  BY DEF Request, prometheus, IInv, Base
<1>2. getPeriodFromFilters(value) \in Periods
  BY MetricsAssumption DEF getPeriodFromFilters
<1>3. Base'
  BY <1>1, <1>2 DEF IInv, Base, genTimePeriodParams
<1>4. \A n \in Nodes : answer[n] = None
  BY <1>1 DEF IInv, Answers
<1>5. Answers' /\ Gauges'
  BY <1>1, <1>4 DEF IInv, Answers, Gauges, Shows, None, IsAnswer, Row, WholeOrEmpty
<1>6. SameDisks' /\ FailsOnlyWhenDiskAppears'
  BY <1>1 DEF SameDisks, FailsOnlyWhenDiskAppears
<1>. QED
  BY <1>3, <1>5, <1>6 DEF IInv

\* A query that fails.
LEMMA FailureKeepsInv ==
    ASSUME IInv, QueryFails
    PROVE  IInv'
<1>1. /\ pc' = "failed" /\ lost' = TRUE
      /\ UNCHANGED <<up, disk, alive, nodes, period, free, answer, appeared>>
  BY DEF QueryFails, prometheus
<1>2. Base'
  BY <1>1 DEF IInv, Base
<1>3. Answers'
  BY <1>1 DEF IInv, Answers
<1>4. Gauges'
  <2>1. Same
    BY <1>1 DEF Same
  <2>. QED
    BY <1>1, <2>1, SameGrid DEF IInv, Gauges
<1>5. SameDisks' /\ FailsOnlyWhenDiskAppears'
  BY <1>1 DEF SameDisks, FailsOnlyWhenDiskAppears
<1>. QED
  BY <1>2, <1>3, <1>4, <1>5 DEF IInv

\* The queries of memory and CPU: each node has its gauge.
LEMMA GaugeKeepsInv ==
    ASSUME IInv, getMemoryRatio \/ getCPURatio
    PROVE  IInv'
<1>. DEFINE usage(n) == resolveGauge(getPrometheusData(up), n)
<1>1. /\ pc' \in {"cpu", "free"}
      /\ UNCHANGED <<up, disk, alive, nodes, period, free, lost, appeared>>
  BY DEF getMemoryRatio, getCPURatio, prometheus
<1>2. Same
  BY <1>1 DEF Same
<1>3. \A n \in Nodes : WholeOrEmpty(usage(n)) /\ Shows(n, usage(n))
  BY GaugeShowsSamples DEF IInv
<1>4. ASSUME NEW n \in Nodes
      PROVE  /\ IsAnswer(answer[n]) /\ (n \notin nodes => answer[n] = None)
             /\ WholeOrEmpty(answer[n].cpu) /\ WholeOrEmpty(answer[n].mem)
             /\ WholeOrEmpty(answer[n].disc) /\ WholeOrEmpty(answer[n].net)
             /\ n \in nodes => Shows(n, answer[n].cpu) /\ Shows(n, answer[n].mem)
  BY DEF IInv, Answers, Gauges
<1>5. \/ answer' = [n \in Nodes |-> IF n \in nodes THEN [answer[n] EXCEPT !["mem"] = usage(n)]
                                                   ELSE answer[n]]
      \/ answer' = [n \in Nodes |-> IF n \in nodes THEN [answer[n] EXCEPT !["cpu"] = usage(n)]
                                                   ELSE answer[n]]
  BY DEF getMemoryRatio, getCPURatio, Put
<1>. HIDE DEF usage
<1>6. ASSUME NEW n \in Nodes
      PROVE  /\ IsAnswer(answer'[n]) /\ (n \notin nodes => answer'[n] = None)
             /\ WholeOrEmpty(answer'[n].cpu) /\ WholeOrEmpty(answer'[n].mem)
             /\ WholeOrEmpty(answer'[n].disc) /\ WholeOrEmpty(answer'[n].net)
             /\ n \in nodes => Shows(n, answer'[n].cpu) /\ Shows(n, answer'[n].mem)
  <2>1. CASE n \notin nodes
    <3>1. answer'[n] = answer[n]
      BY <1>5, <2>1
    <3>. QED
      BY <1>4, <2>1, <3>1
  <2>2. CASE n \in nodes /\ answer'[n] = [answer[n] EXCEPT !["mem"] = usage(n)]
    <3>1. /\ IsAnswer(answer'[n]) /\ answer'[n].mem = usage(n)
          /\ answer'[n].cpu = answer[n].cpu /\ answer'[n].disc = answer[n].disc
          /\ answer'[n].net = answer[n].net
      BY <1>4, <2>2, PutMem
    <3>. QED
      BY <1>3, <1>4, <2>2, <3>1
  <2>3. CASE n \in nodes /\ answer'[n] = [answer[n] EXCEPT !["cpu"] = usage(n)]
    <3>1. /\ IsAnswer(answer'[n]) /\ answer'[n].cpu = usage(n)
          /\ answer'[n].mem = answer[n].mem /\ answer'[n].disc = answer[n].disc
          /\ answer'[n].net = answer[n].net
      BY <1>4, <2>3, PutCpu
    <3>. QED
      BY <1>3, <1>4, <2>3, <3>1
  <2>. QED
    BY <1>5, <2>1, <2>2, <2>3
<1>7. answer' = [n \in Nodes |-> answer'[n]]
  BY <1>5
<1>8. Answers'
  BY <1>1, <1>6, <1>7 DEF Answers, WholeOrEmpty
<1>9. Gauges'
  <2>1. nodes \subseteq Nodes
    BY DEF IInv, Base
  <2>. QED
    BY <1>1, <1>2, <1>6, <2>1, SameGrid DEF Gauges
<1>10. Base'
  BY <1>1 DEF IInv, Base
<1>11. SameDisks' /\ FailsOnlyWhenDiskAppears'
  BY <1>1 DEF SameDisks, FailsOnlyWhenDiskAppears
<1>. QED
  BY <1>8, <1>9, <1>10, <1>11 DEF IInv

\* The query of free space answers with the disks that have a sample now.
LEMMA FreeKeepsInv ==
    ASSUME IInv, getFree
    PROVE  IInv'
<1>1. /\ pc' = "total" /\ free' = getPrometheusData(disk)
      /\ UNCHANGED <<up, disk, alive, nodes, period, answer, lost, appeared>>
  BY DEF getFree, prometheus
<1>2. Same
  BY <1>1 DEF Same
<1>3. DOMAIN free' = {s \in Nodes \X Disks : disk[s] \cap Grid # {}}
  BY <1>1 DEF getPrometheusData, IInv, Base
<1>4. Base'
  BY <1>1, <1>3 DEF IInv, Base
<1>5. Answers'
  BY <1>1 DEF IInv, Answers
<1>6. Gauges'
  BY <1>1, <1>2, SameGrid DEF IInv, Gauges
<1>7. SameDisks'
  <2>1. nodes \subseteq Nodes
    BY DEF IInv, Base
  <2>2. \A n \in nodes, d \in Disks : <<n, d>> \in DOMAIN free' <=> disk[<<n, d>>] \cap Grid # {}
    BY <1>3, <2>1
  <2>3. Grid' = Grid
    BY <1>2, SameGrid
  <2>. QED
    BY <1>1, <2>2, <2>3 DEF SameDisks
<1>8. FailsOnlyWhenDiskAppears'
  BY <1>1 DEF FailsOnlyWhenDiskAppears
<1>. QED
  BY <1>4, <1>5, <1>6, <1>7, <1>8 DEF IInv

\* The query of total space: series can only differ in number when a disk has come up.
LEMMA TotalKeepsInv ==
    ASSUME IInv, getTotal
    PROVE  IInv'
<1>. DEFINE resp == getPrometheusData(disk)
            usage(n) == resolveDiscValues(free, resp, n)
            failing == \E n \in nodes : Differ(free, resp, n)
<1>1. /\ pc = "total" /\ pc' = (IF failing THEN "failed" ELSE "network")
      /\ UNCHANGED <<up, disk, alive, nodes, period, free, lost, appeared>>
  BY DEF getTotal, prometheus
<1>2. Same /\ nodes \subseteq Nodes
  BY <1>1 DEF Same, IInv, Base
<1>3. /\ failing => answer' = answer
      /\ ~failing => answer' = [n \in Nodes |-> IF n \in nodes
                                                 THEN [answer[n] EXCEPT !["disc"] = usage(n)]
                                                 ELSE answer[n]]
  BY DEF getTotal, Put
<1>4. ASSUME ~appeared
      PROVE  ~failing
  <2>1. DOMAIN resp = {s \in Nodes \X Disks : disk[s] \cap Grid # {}} /\ DOMAIN free \subseteq Nodes \X Disks
    BY DEF getPrometheusData, IInv, Base
  <2>2. \A n \in nodes, d \in Disks : <<n, d>> \in DOMAIN free <=> disk[<<n, d>>] \cap Grid # {}
    BY <1>1, <1>4 DEF IInv, SameDisks
  <2>. HIDE DEF resp
  <2>3. ASSUME NEW n \in nodes
        PROVE  DevicesOf(free, n) = DevicesOf(resp, n)
    <3>1. \A s : s \in DOMAIN free /\ s[1] = n <=> s \in DOMAIN resp /\ s[1] = n
      <4>1. ASSUME NEW s \in Nodes \X Disks, s[1] = n
            PROVE  s \in DOMAIN free <=> s \in DOMAIN resp
        <5>1. s = <<n, s[2]>> /\ s[2] \in Disks
          BY <4>1
        <5>. QED
          BY <2>1, <2>2, <5>1
      <4>. QED
        BY <2>1, <4>1
    <3>. QED
      BY <3>1 DEF DevicesOf
  <2>. QED
    BY <2>3 DEF Differ
<1>5. \A n \in Nodes : WholeOrEmpty(usage(n))
  BY WholeUsages DEF IInv
<1>6. ASSUME NEW n \in Nodes
      PROVE  /\ IsAnswer(answer[n]) /\ (n \notin nodes => answer[n] = None)
             /\ WholeOrEmpty(answer[n].cpu) /\ WholeOrEmpty(answer[n].mem)
             /\ WholeOrEmpty(answer[n].disc) /\ WholeOrEmpty(answer[n].net)
  BY DEF IInv, Answers
<1>7. answer = [n \in Nodes |-> answer[n]]
  BY DEF IInv, Answers
<1>. HIDE DEF resp, usage, failing
<1>8. ASSUME NEW n \in Nodes
      PROVE  /\ IsAnswer(answer'[n]) /\ (n \notin nodes => answer'[n] = None)
             /\ answer'[n].cpu = answer[n].cpu /\ answer'[n].mem = answer[n].mem
             /\ WholeOrEmpty(answer'[n].disc) /\ WholeOrEmpty(answer'[n].net)
  <2>1. CASE answer'[n] = answer[n]
    BY <1>6, <2>1
  <2>2. CASE n \in nodes /\ answer'[n] = [answer[n] EXCEPT !["disc"] = usage(n)]
    <3>1. /\ IsAnswer(answer'[n]) /\ answer'[n].disc = usage(n)
          /\ answer'[n].cpu = answer[n].cpu /\ answer'[n].mem = answer[n].mem
          /\ answer'[n].net = answer[n].net
      BY <1>6, <2>2, PutDisc
    <3>. QED
      BY <1>5, <1>6, <2>2, <3>1
  <2>. QED
    BY <1>3, <2>1, <2>2
<1>9. answer' = [n \in Nodes |-> answer'[n]]
  BY <1>3, <1>7
<1>10. Answers'
  BY <1>1, <1>6, <1>8, <1>9 DEF Answers, WholeOrEmpty
<1>11. Gauges'
  BY <1>1, <1>2, <1>8, SameGrid DEF IInv, Gauges
<1>12. Base'
  BY <1>1 DEF IInv, Base
<1>13. SameDisks' /\ FailsOnlyWhenDiskAppears'
  BY <1>1, <1>4 DEF SameDisks, FailsOnlyWhenDiskAppears
<1>. QED
  BY <1>10, <1>11, <1>12, <1>13 DEF IInv

\* The last query.
LEMMA NetworkKeepsInv ==
    ASSUME IInv, getNetworkRatio
    PROVE  IInv'
<1>. DEFINE usage(n) == resolveNetworkValues(getPrometheusData(up), n)
            c(n) == LastRatio(n, answer[n].cpu, answer[n].cpuRatio)
            m(n) == LastRatio(n, answer[n].mem, answer[n].memRatio)
<1>1. /\ pc' = "answered"
      /\ UNCHANGED <<up, disk, alive, nodes, period, free, lost, appeared>>
  BY DEF getNetworkRatio, prometheus
<1>2. Same /\ nodes \subseteq Nodes
  BY <1>1 DEF Same, IInv, Base
<1>3. answer' = [n \in Nodes |-> IF n \in nodes
                                 THEN [answer[n] EXCEPT !.net = usage(n), !.cpuRatio = c(n),
                                                        !.memRatio = m(n)]
                                 ELSE answer[n]]
  BY Zenon DEF getNetworkRatio
<1>4. \A n \in Nodes : WholeOrEmpty(usage(n))
  BY WholeUsages DEF IInv
<1>5. ASSUME NEW n \in Nodes
      PROVE  /\ IsAnswer(answer[n]) /\ (n \notin nodes => answer[n] = None)
             /\ WholeOrEmpty(answer[n].cpu) /\ WholeOrEmpty(answer[n].mem)
             /\ WholeOrEmpty(answer[n].disc) /\ WholeOrEmpty(answer[n].net)
  BY DEF IInv, Answers
<1>. HIDE DEF usage, c, m
<1>6. ASSUME NEW n \in Nodes
      PROVE  /\ IsAnswer(answer'[n]) /\ (n \notin nodes => answer'[n] = None)
             /\ answer'[n].cpu = answer[n].cpu /\ answer'[n].mem = answer[n].mem
             /\ WholeOrEmpty(answer'[n].disc) /\ WholeOrEmpty(answer'[n].net)
  <2>1. CASE n \notin nodes
    <3>1. answer'[n] = answer[n]
      BY <1>3, <2>1
    <3>. QED
      BY <1>5, <2>1, <3>1
  <2>2. CASE n \in nodes
    <3>0. PICK r, un, cn, mn : r = answer[n] /\ un = usage(n) /\ cn = c(n) /\ mn = m(n)
      OBVIOUS
    <3>. DEFINE S == [cpu : {r.cpu}, mem : {r.mem}, disc : {r.disc}, net : {r.net, un},
                      cpuRatio : {r.cpuRatio, cn}, memRatio : {r.memRatio, mn}]
                q == [r EXCEPT !.net = un, !.cpuRatio = cn, !.memRatio = mn]
    <3>1. answer'[n] = q
      BY <1>3, <2>2, <3>0, Zenon
    <3>2. r \in S
      <4>1. IsAnswer(r)
        BY <1>5, <3>0
      <4>. QED
        BY <4>1 DEF IsAnswer, Row
    <3>3. q \in S /\ q.net = un /\ q.cpuRatio = cn /\ q.memRatio = mn
      BY <3>2
    <3>. HIDE DEF q
    <3>4. q.cpu = r.cpu /\ q.mem = r.mem /\ q.disc = r.disc
      BY <3>3
    <3>5. IsAnswer(q)
      BY <3>3 DEF IsAnswer, Row
    <3>. QED
      BY <1>4, <1>5, <2>2, <3>0, <3>1, <3>3, <3>4, <3>5
  <2>. QED
    BY <2>1, <2>2
<1>7. answer' = [n \in Nodes |-> answer'[n]]
  BY <1>3
<1>8. Answers'
  BY <1>1, <1>5, <1>6, <1>7 DEF Answers, WholeOrEmpty
<1>9. Gauges'
  BY <1>1, <1>2, <1>6, SameGrid DEF IInv, Gauges
<1>10. Base'
  BY <1>1 DEF IInv, Base
<1>11. SameDisks' /\ FailsOnlyWhenDiskAppears'
  BY <1>1 DEF SameDisks, FailsOnlyWhenDiskAppears
<1>. QED
  BY <1>8, <1>9, <1>10, <1>11 DEF IInv

\* A scrape adds the present and takes nothing away.
LEMMA ScrapeKeepsInv ==
    ASSUME IInv, NEW n \in Nodes, NEW M \in SUBSET Disks, Scrape(n, M)
    PROVE  IInv'
<1>1. /\ up' = [up EXCEPT ![n] = up[n] \cup {Now}]
      /\ disk' = [s \in DOMAIN disk |->
                     IF s[1] = n /\ s[2] \in M THEN disk[s] \cup {Now} ELSE disk[s]]
      /\ appeared => appeared'
      /\ pc = "total" /\ n \in nodes /\ (\E d \in M : disk[<<n, d>>] \cap Grid = {}) => appeared'
      /\ UNCHANGED <<alive, pc, nodes, period, free, answer, lost>>
  BY Zenon DEF Scrape
<1>2. /\ up \in [Nodes -> SUBSET Times] /\ disk \in [Nodes \X Disks -> SUBSET Times]
      /\ nodes \subseteq Nodes /\ Now \in Times
  BY MetricsAssumption DEF IInv, Base, Times
<1>3. /\ Points' = Points /\ Grid' = Grid /\ \A k : Timestamp(k)' = Timestamp(k)
  BY <1>1 DEF Points, Grid, Timestamp
<1>4. up' \in [Nodes -> SUBSET Times] /\ disk' \in [Nodes \X Disks -> SUBSET Times]
  BY <1>1, <1>2
<1>5. Base'
  <2>1. /\ pc \in {"idle", "memory", "cpu", "free", "total", "network", "answered", "failed"}
        /\ nodes \subseteq Nodes /\ (pc = "idle" => nodes = {})
        /\ \E h \in Periods : period = genTimePeriodParams(h)
        /\ DOMAIN free \subseteq Nodes \X Disks
    BY DEF IInv, Base
  <2>. QED
    BY <1>1, <1>4, <2>1 DEF Base
<1>6. Answers'
  BY <1>1 DEF IInv, Answers
<1>7. Gauges'
  <2>1. \A m \in Nodes : up'[m] = up[m] \/ up'[m] = up[m] \cup {Now}
    BY <1>1, <1>2
  <2>2. ASSUME NEW m \in nodes, NEW u, Shows(m, u)
        PROVE  Shows(m, u)'
    <3>1. ASSUME u # <<>>, NEW k \in 1..Points
          PROVE  LET t == Timestamp(k) IN
                 \/ t \in up'[m] /\ u[k] = Gauge[<<m, t>>]
                 \/ (t \notin up'[m] \/ t = Now) /\ u[k] = 0
      <4>. DEFINE t == Timestamp(k)
      <4>1. \/ t \in up[m] /\ u[k] = Gauge[<<m, t>>]
            \/ (t \notin up[m] \/ t = Now) /\ u[k] = 0
        BY <2>2, <3>1 DEF Shows
      <4>2. m \in Nodes
        BY <1>2
      <4>. HIDE DEF t
      <4>3. t \in up[m] => t \in up'[m]
        BY <2>1, <4>2
      <4>4. t \notin up[m] /\ t # Now => t \notin up'[m]
        BY <2>1, <4>2
      <4>. QED
        BY <4>1, <4>3, <4>4 DEF t
    <3>. QED
      BY <1>3, <3>1 DEF Shows
  <2>. QED
    BY <1>1, <2>2 DEF IInv, Gauges
<1>8. SameDisks'
  <2>1. ASSUME pc = "total", ~appeared', NEW m \in nodes, NEW d \in Disks
        PROVE  <<m, d>> \in DOMAIN free <=> disk'[<<m, d>>] \cap Grid # {}
    <3>1. ~appeared
      BY <1>1, <2>1, Zenon
    <3>2. <<m, d>> \in DOMAIN free <=> disk[<<m, d>>] \cap Grid # {}
      BY <2>1, <3>1 DEF IInv, SameDisks
    <3>3. <<m, d>> \in DOMAIN disk
      BY <1>2
    <3>4. CASE m = n /\ d \in M
      <4>1. disk[<<m, d>>] \cap Grid # {}
        BY <1>1, <2>1, <3>4, Zenon
      <4>2. disk'[<<m, d>>] = disk[<<m, d>>] \cup {Now}
        BY <1>1, <3>3, <3>4
      <4>. QED
        BY <3>2, <4>1, <4>2
    <3>5. CASE ~(m = n /\ d \in M)
      <4>1. disk'[<<m, d>>] = disk[<<m, d>>]
        BY <1>1, <3>3, <3>5
      <4>. QED
        BY <3>2, <4>1
    <3>. QED
      BY <3>4, <3>5
  <2>2. pc' = pc /\ nodes' = nodes /\ free' = free /\ Grid' = Grid
    BY <1>1, <1>3
  <2>. QED
    BY <2>1, <2>2 DEF SameDisks
<1>9. FailsOnlyWhenDiskAppears'
  BY <1>1, Zenon DEF IInv, FailsOnlyWhenDiskAppears
<1>. QED
  BY <1>5, <1>6, <1>7, <1>8, <1>9 DEF IInv

--------------------------------------------------------------------------------
(* Theorems *)

LEMMA InitInv == Init => IInv
<1>. SUFFICES ASSUME Init PROVE IInv
  OBVIOUS
<1>1. /\ pc = "idle" /\ nodes = {} /\ period = genTimePeriodParams(Default) /\ free = <<>>
      /\ answer = [n \in Nodes |-> None]
  BY DEF Init
<1>2. /\ up \in [Nodes -> SUBSET Times] /\ disk \in [Nodes \X Disks -> SUBSET Times]
  BY MetricsAssumption DEF Init
<1>3. Base
  <2>1. DOMAIN free = {}
    BY <1>1
  <2>. QED
    BY <1>1, <1>2, <2>1, MetricsAssumption DEF Base
<1>4. Answers
  <2>1. IsAnswer(None) /\ WholeOrEmpty(<<>>)
    BY EmptySeq DEF IsAnswer, Row, None, WholeOrEmpty
  <2>. QED
    BY <1>1, <2>1 DEF Answers, None
<1>5. Gauges /\ SameDisks /\ FailsOnlyWhenDiskAppears
  BY <1>1 DEF Gauges, SameDisks, FailsOnlyWhenDiskAppears
<1>. QED
  BY <1>3, <1>4, <1>5 DEF IInv

LEMMA NextInv ==
    ASSUME IInv, [Next]_vars
    PROVE  IInv'
<1>1. CASE UNCHANGED vars
  <2>1. Base' /\ Answers'
    BY <1>1 DEF vars, IInv, Base, Answers
  <2>2. Same
    BY <1>1 DEF vars, Same
  <2>3. Gauges'
    BY <1>1, <2>2, SameGrid DEF vars, IInv, Gauges
  <2>4. SameDisks' /\ FailsOnlyWhenDiskAppears'
    BY <1>1, <2>2, SameGrid DEF vars, IInv, SameDisks, FailsOnlyWhenDiskAppears
  <2>. QED
    BY <2>1, <2>3, <2>4 DEF IInv
<1>2. ASSUME NEW value \in Periods \cup Others, List(value) \/ \E n \in Nodes : Get(n, value)
      PROVE  IInv'
  <2>1. PICK ns \in SUBSET Nodes : Request(ns, value)
    BY <1>2 DEF List, Get
  <2>. QED
    BY <2>1, RequestKeepsInv
<1>3. CASE QueryFails
  BY <1>3, FailureKeepsInv
<1>4. CASE getMemoryRatio \/ getCPURatio
  BY <1>4, GaugeKeepsInv
<1>5. CASE getFree
  BY <1>5, FreeKeepsInv
<1>6. CASE getTotal
  BY <1>6, TotalKeepsInv
<1>7. CASE getNetworkRatio
  BY <1>7, NetworkKeepsInv
<1>8. ASSUME NEW n \in Nodes, NEW M \in SUBSET Disks, Scrape(n, M)
      PROVE  IInv'
  BY <1>8, ScrapeKeepsInv
<1>. QED
  BY <1>1, <1>2, <1>3, <1>4, <1>5, <1>6, <1>7, <1>8 DEF Next

THEOREM Invariant == Spec => []IInv
<1>1. Init => IInv
  BY InitInv
<1>2. IInv /\ [Next]_vars => IInv'
  BY NextInv
<1>. QED
  BY <1>1, <1>2, PTL DEF Spec

\* Types: for any period and any number of parts, the grid of genTimePeriodParams has one
\* point more than parts, all of them in the period, and every usage that is put in a
\* node has a value for each.
THEOREM TypeCorrect == Spec => []TypeOK
<1>1. IInv => TypeOK
  <2>. SUFFICES ASSUME IInv PROVE TypeOK
    OBVIOUS
  <2>1. /\ up \in [Nodes -> SUBSET Times] /\ disk \in [Nodes \X Disks -> SUBSET Times]
        /\ pc \in {"idle", "memory", "cpu", "free", "total", "network", "answered", "failed"}
        /\ DOMAIN free \subseteq DOMAIN disk
    BY DEF IInv, Base
  <2>2. Points = Parts + 1 /\ Grid \subseteq Times
    BY GridOfPeriod DEF IInv
  <2>3. ASSUME NEW n \in Nodes
        PROVE  /\ n \notin nodes => answer[n] = None
               /\ \A field \in {"cpu", "mem", "disc", "net"} : Len(answer[n][field]) \in {0, Points}
    <3>1. /\ n \notin nodes => answer[n] = None
          /\ WholeOrEmpty(answer[n].cpu) /\ WholeOrEmpty(answer[n].mem)
          /\ WholeOrEmpty(answer[n].disc) /\ WholeOrEmpty(answer[n].net)
      BY DEF IInv, Answers
    <3>. QED
      BY <2>2, <3>1 DEF WholeOrEmpty
  <2>. QED
    BY <2>1, <2>2, <2>3 DEF TypeOK
<1>. QED
  BY <1>1, Invariant, PTL

\* For any histories, and with scrapes between any two queries, the quotient that
\* getRatiosWithTimestamp computes puts every sample on the point of its own timestamp.
THEOREM SamplesOnTheirPoints == Spec => []GaugesShowTheirSamples
<1>1. IInv => GaugesShowTheirSamples
  <2>. SUFFICES ASSUME IInv, NEW n \in nodes, NEW field \in {"cpu", "mem"}
                PROVE  Shows(n, answer[n][field])
    BY DEF GaugesShowTheirSamples, Shows
  <2>. QED
    BY DEF IInv, Gauges
<1>. QED
  BY <1>1, Invariant, PTL

\* The comparison of the numbers of series in resolveDiscValues fails a request only when
\* a disk came up between its two queries.
THEOREM FailuresAreExplained == Spec => []FailsOnlyWhenDiskAppears
<1>1. IInv => FailsOnlyWhenDiskAppears
  BY DEF IInv
<1>. QED
  BY <1>1, Invariant, PTL

--------------------------------------------------------------------------------
(* Induction over finite sets, and sums *)

\* Numbers have a least one.
LEMMA NatMin ==
    ASSUME NEW T, T \subseteq Nat, T # {}
    PROVE  \E m \in T : \A k \in T : m <= k
<1>. DEFINE R == OpToRel(<, Nat)
<1>1. IsWellFoundedOn(R, Nat)
  BY NatLessThanWellFounded
<1>. HIDE DEF R
<1>2. PICK m \in T : \A k \in T : ~ (<<k, m>> \in R)
  BY <1>1, WFMin
<1>3. \A k \in T : ~ (k < m)
  BY <1>2 DEF R, OpToRel
<1>. QED
  BY <1>3

\* Induction for a set of numbers: the least one that is missing cannot be.
LEMMA EveryNumber ==
    ASSUME NEW G, 0 \in G, \A n \in Nat : n \in G => n + 1 \in G
    PROVE  Nat \subseteq G
<1>. DEFINE T == {n \in Nat : n \notin G}
<1>. SUFFICES ASSUME T # {} PROVE FALSE
  OBVIOUS
<1>1. PICK m \in T : \A k \in T : m <= k
  BY NatMin
<1>2. m - 1 \in Nat /\ m - 1 \notin T
  BY <1>1
<1>3. m - 1 \in G
  BY <1>2
<1>4. (m - 1) + 1 \in G
  BY <1>2, <1>3
<1>. QED
  BY <1>1, <1>4

\* Induction for the subsets of a finite set, one element at a time.
LEMMA EverySubset ==
    ASSUME NEW S, IsFiniteSet(S), NEW G, {} \in G,
           \A s \in SUBSET S : s # {} /\ (\A x \in s : s \ {x} \in G) => s \in G
    PROVE  SUBSET S \subseteq G
<1>. DEFINE H == {n \in Nat : \A s \in SUBSET S : Cardinality(s) = n => s \in G}
<1>1. \A s \in SUBSET S : IsFiniteSet(s) /\ Cardinality(s) \in Nat
  BY FS_Subset, FS_CardinalityType
<1>2. 0 \in H
  BY <1>1, FS_EmptySet
<1>3. ASSUME NEW n \in H
      PROVE  n + 1 \in H
  <2>1. ASSUME NEW s \in SUBSET S, Cardinality(s) = n + 1
        PROVE  s \in G
    <3>1. s # {}
      BY <2>1, FS_EmptySet
    <3>2. ASSUME NEW x \in s
          PROVE  s \ {x} \in G
      <4>1. Cardinality(s \ {x}) = n
        BY <1>1, <2>1, FS_RemoveElement
      <4>2. s \ {x} \in SUBSET S
        OBVIOUS
      <4>. QED
        BY <4>1, <4>2
    <3>. QED
      BY <3>1, <3>2
  <2>. QED
    BY <2>1
<1>. HIDE DEF H
<1>4. Nat \subseteq H
  BY <1>2, <1>3, EveryNumber
<1>. QED
  BY <1>1, <1>4 DEF H

\* The element of which MapThenSumSet takes the weight first.
Pick(s) == CHOOSE x \in s : TRUE

LEMMA PickIn == \A s : s # {} => Pick(s) \in s
BY DEF Pick

\* sum has, for each subset of S, what MapThenSumSet computes of the weights W.
IsSum(sum, W, S) ==
    sum = [s \in SUBSET S |-> IF s = {} THEN 0 ELSE W[Pick(s)] + sum[s \ {Pick(s)}]]

\* Its value of each subset.
LEMMA SumAt ==
    ASSUME NEW S, NEW W, NEW sum, IsSum(sum, W, S)
    PROVE  /\ sum[{}] = 0
           /\ \A s \in SUBSET S : s # {} => sum[s] = W[Pick(s)] + sum[s \ {Pick(s)}]
<1>1. \A s \in SUBSET S : sum[s] = IF s = {} THEN 0 ELSE W[Pick(s)] + sum[s \ {Pick(s)}]
  BY Zenon DEF IsSum
<1>. QED
  BY <1>1

\* Weights are integers, one list of them is nowhere above another, is zero, or is the
\* difference of two others.
Weights(W, S) == W \in [S -> Int]
AtMost(V, W, S) == \A x \in S : V[x] <= W[x]
Nothing(W, S) == \A x \in S : W[x] = 0
Difference(D, W, V, S) == \A x \in S : D[x] = W[x] - V[x]

\* The sum exists.
LEMMA SumExists ==
    ASSUME NEW S, IsFiniteSet(S), NEW W
    PROVE  \E sum : IsSum(sum, W, S)
<1>. DEFINE step(f) == [s \in SUBSET S |-> IF s = {} THEN 0 ELSE W[Pick(s)] + f[s \ {Pick(s)}]]
            UpTo(n) == {s \in SUBSET S : Cardinality(s) <= n}
            H == {n \in Nat : \E f : \A s \in UpTo(n) : f[s] = step(f)[s]}
<1>1. \A s \in SUBSET S : IsFiniteSet(s) /\ Cardinality(s) \in Nat
  BY FS_Subset, FS_CardinalityType
<1>2. 0 \in H
  <2>1. UpTo(0) = {{}}
    BY <1>1, FS_EmptySet
  <2>2. \A f : step(f)[{}] = 0
    OBVIOUS
  <2>. DEFINE f == [s \in {{}} |-> 0]
  <2>3. f[{}] = 0
    OBVIOUS
  <2>. HIDE DEF f, step, UpTo
  <2>. QED
    BY <2>1, <2>2, <2>3
<1>3. ASSUME NEW n \in H
      PROVE  n + 1 \in H
  <2>1. PICK f : \A s \in UpTo(n) : f[s] = step(f)[s]
    OBVIOUS
  <2>. DEFINE g == step(f)
  <2>2. ASSUME NEW s \in UpTo(n + 1)
        PROVE  g[s] = step(g)[s]
    <3>1. CASE s = {}
      BY <3>1
    <3>2. CASE s # {}
      <4>. DEFINE r == s \ {Pick(s)}
      <4>1. r \in UpTo(n)
        <5>1. Cardinality(r) = Cardinality(s) - 1
          BY <1>1, <3>2, PickIn, FS_RemoveElement
        <5>2. r \in SUBSET S /\ Cardinality(s) <= n + 1 /\ Cardinality(s) \in Nat /\ n \in Nat
          BY <1>1
        <5>. QED
          BY <5>1, <5>2
      <4>2. g[r] = f[r]
        BY <2>1, <4>1
      <4>3. g[s] = W[Pick(s)] + f[r] /\ step(g)[s] = W[Pick(s)] + g[r]
        BY <3>2
      <4>. HIDE DEF g, step, r
      <4>. QED
        BY <4>2, <4>3
    <3>. QED
      BY <3>1, <3>2
  <2>. HIDE DEF g, step, UpTo
  <2>. QED
    BY <2>2
<1>. HIDE DEF H
<1>4. Nat \subseteq H
  BY <1>2, <1>3, EveryNumber
<1>5. Cardinality(S) \in H
  BY <1>1, <1>4
<1>6. PICK f : \A s \in UpTo(Cardinality(S)) : f[s] = step(f)[s]
  BY <1>5 DEF H
<1>7. \A s \in SUBSET S : Cardinality(s) <= Cardinality(S)
  BY FS_Subset
<1>8. \A s \in SUBSET S : f[s] = step(f)[s]
  BY <1>6, <1>7
<1>. DEFINE g == step(f)
<1>9. \A s \in SUBSET S : g[s] = f[s]
  BY <1>8, Zenon
<1>10. step(g) = step(f)
  <2>1. ASSUME NEW s \in SUBSET S, s # {}
        PROVE  g[s \ {Pick(s)}] = f[s \ {Pick(s)}]
    BY <1>9
  <2>. HIDE DEF g
  <2>. QED
    BY <2>1
<1>. QED
  BY <1>10 DEF IsSum

\* It is a number.
LEMMA SumIsNumber ==
    ASSUME NEW S, IsFiniteSet(S), NEW W, Weights(W, S), NEW sum, IsSum(sum, W, S)
    PROVE  \A s \in SUBSET S : sum[s] \in Int
<1>. DEFINE G == {s \in SUBSET S : sum[s] \in Int}
<1>1. {} \in G
  BY SumAt
<1>2. ASSUME NEW s \in SUBSET S, s # {}, \A x \in s : s \ {x} \in G
      PROVE  s \in G
  <2>1. Pick(s) \in s
    BY <1>2, PickIn
  <2>2. sum[s] = W[Pick(s)] + sum[s \ {Pick(s)}]
    BY <1>2, SumAt
  <2>3. W[Pick(s)] \in Int /\ sum[s \ {Pick(s)}] \in Int
    BY <1>2, <2>1 DEF Weights
  <2>. QED
    BY <2>2, <2>3
<1>. HIDE DEF G
<1>3. SUBSET S \subseteq G
  BY <1>1, <1>2, EverySubset
<1>. QED
  BY <1>3 DEF G

\* Any element can be taken out first.
LEMMA SumWithout ==
    ASSUME NEW S, IsFiniteSet(S), NEW W, Weights(W, S), NEW sum, IsSum(sum, W, S)
    PROVE  \A s \in SUBSET S : \A x \in s : sum[s] = W[x] + sum[s \ {x}]
<1>. DEFINE G == {s \in SUBSET S : \A x \in s : sum[s] = W[x] + sum[s \ {x}]}
<1>0. /\ \A s \in SUBSET S : sum[s] \in Int
      /\ \A s \in SUBSET S : s # {} => sum[s] = W[Pick(s)] + sum[s \ {Pick(s)}]
  BY SumIsNumber, SumAt
<1>1. {} \in G
  OBVIOUS
<1>2. ASSUME NEW s \in SUBSET S, s # {}, \A x \in s : s \ {x} \in G
      PROVE  s \in G
  <2>. DEFINE c == Pick(s)
  <2>1. c \in s /\ c \in S /\ W[c] \in Int
    BY <1>2, PickIn DEF Weights
  <2>2. sum[s] = W[c] + sum[s \ {c}]
    BY <1>0, <1>2
  <2>. HIDE DEF c
  <2>3. \A y \in s : \A x \in s \ {y} : sum[s \ {y}] = W[x] + sum[(s \ {y}) \ {x}]
    BY <1>2
  <2>4. ASSUME NEW x \in s
        PROVE  sum[s] = W[x] + sum[s \ {x}]
    <3>1. CASE x = c
      BY <2>2, <3>1
    <3>2. CASE x # c
      <4>. DEFINE rest == sum[(s \ {c}) \ {x}]
      <4>1. sum[s \ {c}] = W[x] + rest
        BY <2>1, <2>3, <3>2
      <4>2. sum[s \ {x}] = W[c] + sum[(s \ {x}) \ {c}]
        BY <2>1, <2>3, <3>2
      <4>3. (s \ {x}) \ {c} = (s \ {c}) \ {x}
        OBVIOUS
      <4>4. W[x] \in Int /\ rest \in Int
        BY <1>0 DEF Weights
      <4>5. sum[s \ {x}] = W[c] + rest
        BY <4>2, <4>3
      <4>. HIDE DEF rest
      <4>6. sum[s] = W[c] + (W[x] + rest)
        BY <2>2, <4>1
      <4>7. W[c] + (W[x] + rest) = W[x] + (W[c] + rest)
        BY <2>1, <4>4
      <4>. QED
        BY <4>5, <4>6, <4>7
    <3>. QED
      BY <3>1, <3>2
  <2>. QED
    BY <2>4
<1>. HIDE DEF G
<1>3. SUBSET S \subseteq G
  BY <1>1, <1>2, EverySubset
<1>. QED
  BY <1>3 DEF G

\* Weights that are nowhere above others.
LEMMA SumOrder ==
    ASSUME NEW S, IsFiniteSet(S), NEW V, Weights(V, S), NEW W, Weights(W, S),
           NEW low, IsSum(low, V, S), NEW high, IsSum(high, W, S),
           AtMost(V, W, S)
    PROVE  \A s \in SUBSET S : low[s] <= high[s]
<1>. DEFINE G == {s \in SUBSET S : low[s] <= high[s]}
<1>0. \A s \in SUBSET S : low[s] \in Int /\ high[s] \in Int
  BY SumIsNumber
<1>1. {} \in G
  <2>1. low[{}] = 0 /\ high[{}] = 0
    BY SumAt
  <2>. QED
    BY <2>1
<1>2. ASSUME NEW s \in SUBSET S, s # {}, \A x \in s : s \ {x} \in G
      PROVE  s \in G
  <2>1. PICK x \in s : TRUE
    BY <1>2
  <2>2. low[s] = V[x] + low[s \ {x}] /\ high[s] = W[x] + high[s \ {x}]
    BY SumWithout
  <2>3. V[x] \in Int /\ W[x] \in Int /\ V[x] <= W[x]
    BY DEF Weights, AtMost
  <2>4. low[s \ {x}] <= high[s \ {x}] /\ low[s \ {x}] \in Int /\ high[s \ {x}] \in Int
    BY <1>0, <1>2
  <2>. QED
    BY <2>2, <2>3, <2>4
<1>. HIDE DEF G
<1>3. SUBSET S \subseteq G
  BY <1>1, <1>2, EverySubset
<1>. QED
  BY <1>3 DEF G

\* Weights that are zero count nothing.
LEMMA SumOfNothing ==
    ASSUME NEW S, IsFiniteSet(S), NEW W, NEW sum, IsSum(sum, W, S), Nothing(W, S)
    PROVE  \A s \in SUBSET S : sum[s] = 0
<1>. DEFINE G == {s \in SUBSET S : sum[s] = 0}
<1>1. {} \in G
  BY SumAt
<1>2. ASSUME NEW s \in SUBSET S, s # {}, \A x \in s : s \ {x} \in G
      PROVE  s \in G
  <2>1. Pick(s) \in s
    BY <1>2, PickIn
  <2>2. sum[s] = W[Pick(s)] + sum[s \ {Pick(s)}]
    BY <1>2, SumAt
  <2>3. W[Pick(s)] = 0 /\ sum[s \ {Pick(s)}] = 0
    BY <1>2, <2>1 DEF Nothing
  <2>. QED
    BY <2>2, <2>3
<1>. HIDE DEF G
<1>3. SUBSET S \subseteq G
  BY <1>1, <1>2, EverySubset
<1>. QED
  BY <1>3 DEF G

\* The sum of differences over a part of S, where the rest has no weight, is the
\* difference of the sums over S.
LEMMA SumOfDifferences ==
    ASSUME NEW S, IsFiniteSet(S), NEW V, Weights(V, S), NEW W, Weights(W, S),
           NEW v, IsSum(v, V, S), NEW w, IsSum(w, W, S),
           NEW T \in SUBSET S, NEW D, Weights(D, T), NEW d, IsSum(d, D, T),
           Difference(D, W, V, T), Nothing(W, S \ T), Nothing(V, S \ T)
    PROVE  d[T] = w[S] - v[S]
<1>. DEFINE G == {s \in SUBSET S : d[s \cap T] = w[s] - v[s]}
<1>1. /\ IsFiniteSet(T)
      /\ \A s \in SUBSET S : v[s] \in Int /\ w[s] \in Int
  BY FS_Subset, SumIsNumber
<1>2. /\ \A s \in SUBSET S : \A x \in s : v[s] = V[x] + v[s \ {x}]
      /\ \A s \in SUBSET S : \A x \in s : w[s] = W[x] + w[s \ {x}]
  <2>1. ASSUME NEW s \in SUBSET S, NEW x \in s
        PROVE  v[s] = V[x] + v[s \ {x}] /\ w[s] = W[x] + w[s \ {x}]
    BY SumWithout
  <2>. QED
    BY <2>1
<1>3. /\ \A s \in SUBSET T : \A x \in s : d[s] = D[x] + d[s \ {x}]
      /\ v[{}] = 0 /\ w[{}] = 0 /\ d[{}] = 0
  BY <1>1, SumWithout, SumAt
<1>4. {} \in G
  <2>1. {} \cap T = {}
    OBVIOUS
  <2>. QED
    BY <1>3, <2>1
<1>5. ASSUME NEW s \in SUBSET S, s # {}, \A x \in s : s \ {x} \in G
      PROVE  s \in G
  <2>1. PICK x \in s : TRUE
    BY <1>5
  <2>. DEFINE r == s \ {x}
  <2>2. /\ v[s] = V[x] + v[r] /\ w[s] = W[x] + w[r] /\ v[r] \in Int /\ w[r] \in Int
        /\ V[x] \in Int /\ W[x] \in Int
    BY <1>1, <1>2 DEF Weights
  <2>3. d[r \cap T] = w[r] - v[r]
    BY <1>5
  <2>4. CASE x \in T
    <3>1. x \in s \cap T /\ s \cap T \in SUBSET T /\ (s \cap T) \ {x} = r \cap T
      BY <2>4
    <3>2. D[x] = W[x] - V[x]
      BY <2>4 DEF Difference
    <3>. HIDE DEF r
    <3>3. d[s \cap T] = D[x] + d[r \cap T]
      BY <1>3, <3>1
    <3>4. d[s \cap T] = (W[x] - V[x]) + (w[r] - v[r])
      BY <2>3, <3>2, <3>3
    <3>5. (W[x] - V[x]) + (w[r] - v[r]) = (W[x] + w[r]) - (V[x] + v[r])
      BY <2>2
    <3>. QED
      BY <2>2, <3>4, <3>5
  <2>5. CASE x \notin T
    <3>1. r \cap T = s \cap T /\ W[x] = 0 /\ V[x] = 0
      BY <2>5 DEF Nothing
    <3>. HIDE DEF r
    <3>2. v[s] = v[r] /\ w[s] = w[r]
      BY <2>2, <3>1
    <3>. QED
      BY <2>3, <3>1, <3>2
  <2>. QED
    BY <2>4, <2>5
<1>. HIDE DEF G
<1>6. SUBSET S \subseteq G
  BY <1>4, <1>5, EverySubset
<1>7. S \cap T = T
  OBVIOUS
<1>. QED
  BY <1>6, <1>7 DEF G

\* Weights of which none is negative, and one is more.
LEMMA SumIsPositive ==
    ASSUME NEW S, IsFiniteSet(S), NEW W, Weights(W, S), NEW sum, IsSum(sum, W, S),
           \A x \in S : W[x] >= 0
    PROVE  /\ sum[S] \in Int /\ sum[S] >= 0
           /\ \A x \in S : sum[S] >= W[x]
<1>. DEFINE Z == [x \in S |-> 0]
<1>1. Weights(Z, S) /\ Nothing(Z, S) /\ AtMost(Z, W, S)
  BY DEF Weights, Nothing, AtMost
<1>. HIDE DEF Z
<1>2. PICK z : IsSum(z, Z, S)
  BY SumExists
<1>3. \A s \in SUBSET S : z[s] = 0
  BY <1>1, <1>2, SumOfNothing
<1>4. \A s \in SUBSET S : z[s] <= sum[s]
  BY <1>1, <1>2, SumOrder
<1>5. \A s \in SUBSET S : sum[s] \in Int /\ sum[s] >= 0
  BY <1>3, <1>4, SumIsNumber
<1>6. ASSUME NEW x \in S
      PROVE  sum[S] >= W[x]
  <2>1. sum[S] = W[x] + sum[S \ {x}]
    BY SumWithout
  <2>2. W[x] \in Int
    BY DEF Weights
  <2>3. sum[S \ {x}] \in Int /\ sum[S \ {x}] >= 0
    BY <1>5
  <2>. QED
    BY <2>1, <2>2, <2>3
<1>. QED
  BY <1>5, <1>6

\* What the model computes with MapThenSumSet: of the values of a function, of a point of
\* several lists, and of the space that is used at a time.
TotalOf(g, S) == Total(S, LAMBDA d : g[d])
TotalAtPoint(lists, k) == Total(DOMAIN lists, LAMBDA d : lists[d][k])
TotalUsed(S, t) == Total(S, LAMBDA d : Size[d] - Free[<<d, t>>])
UsedOf(S, t) == [d \in S |-> Size[d] - Free[<<d, t>>]]

LEMMA TotalOfIsSum ==
    ASSUME NEW S, IsFiniteSet(S), NEW g
    PROVE  \E sum : IsSum(sum, [d \in S |-> g[d]], S) /\ TotalOf(g, S) = sum[S]
<1>. DEFINE W == [d \in S |-> g[d]]
            step(f) == [s \in SUBSET S |->
                          IF s = {} THEN 0
                          ELSE LET x == CHOOSE x \in s : TRUE IN g[x] + f[s \ {x}]]
<1>1. TotalOf(g, S) = (CHOOSE f : f = step(f))[S]
  BY Zenon DEF TotalOf, Total, MapThenSumSet, MapThenFoldSet
<1>2. \A f : f = step(f) <=> IsSum(f, W, S)
  BY PickIn DEF IsSum, Pick
<1>. HIDE DEF step, W
<1>3. \E f : f = step(f)
  BY <1>2, SumExists
<1>4. \E sum : IsSum(sum, W, S) /\ TotalOf(g, S) = sum[S]
  BY <1>1, <1>2, <1>3, Zenon
<1>. QED
  BY <1>4 DEF W

LEMMA TotalAtPointIsSum ==
    ASSUME NEW lists, IsFiniteSet(DOMAIN lists), NEW k
    PROVE  \E sum : /\ IsSum(sum, [d \in DOMAIN lists |-> lists[d][k]], DOMAIN lists)
                    /\ TotalAtPoint(lists, k) = sum[DOMAIN lists]
<1>. DEFINE S == DOMAIN lists
            W == [d \in S |-> lists[d][k]]
            step(f) == [s \in SUBSET S |->
                          IF s = {} THEN 0
                          ELSE LET x == CHOOSE x \in s : TRUE IN lists[x][k] + f[s \ {x}]]
<1>1. TotalAtPoint(lists, k) = (CHOOSE f : f = step(f))[S]
  BY Zenon DEF TotalAtPoint, Total, MapThenSumSet, MapThenFoldSet
<1>. HIDE DEF S
<1>2. \A f : f = step(f) <=> IsSum(f, W, S)
  BY PickIn DEF IsSum, Pick
<1>. HIDE DEF step, W
<1>3. \E f : f = step(f)
  BY <1>2, SumExists DEF S
<1>4. \E sum : IsSum(sum, W, S) /\ TotalAtPoint(lists, k) = sum[S]
  BY <1>1, <1>2, <1>3, Zenon
<1>. QED
  BY <1>4 DEF W, S

LEMMA TotalUsedIsSum ==
    ASSUME NEW S, IsFiniteSet(S), NEW t
    PROVE  \E sum : IsSum(sum, UsedOf(S, t), S) /\ TotalUsed(S, t) = sum[S]
<1>. DEFINE step(f) == [s \in SUBSET S |->
                          IF s = {} THEN 0
                          ELSE LET x == CHOOSE x \in s : TRUE
                               IN  (Size[x] - Free[<<x, t>>]) + f[s \ {x}]]
<1>1. TotalUsed(S, t) = (CHOOSE f : f = step(f))[S]
  BY Zenon DEF TotalUsed, Total, MapThenSumSet, MapThenFoldSet
<1>2. \A f : f = step(f) <=> IsSum(f, UsedOf(S, t), S)
  BY PickIn DEF IsSum, Pick, UsedOf
<1>. HIDE DEF step
<1>3. \E f : f = step(f)
  BY <1>2, SumExists
<1>. QED
  BY <1>1, <1>2, <1>3, Zenon

--------------------------------------------------------------------------------
(* Disks *)

\* The devices of a node in an answer.
LEMMA DevicesAre ==
    ASSUME NEW resp, DOMAIN resp \subseteq Nodes \X Disks, NEW n \in Nodes
    PROVE  DevicesOf(resp, n) = {d \in Disks : <<n, d>> \in DOMAIN resp}
<1>1. ASSUME NEW s \in DOMAIN resp, s[1] = n
      PROVE  s[2] \in Disks /\ <<n, s[2]>> \in DOMAIN resp
  <2>1. s = <<n, s[2]>> /\ s[2] \in Disks
    BY <1>1
  <2>. QED
    BY <2>1
<1>2. ASSUME NEW d \in Disks, <<n, d>> \in DOMAIN resp
      PROVE  d \in DevicesOf(resp, n)
  <2>1. <<n, d>>[1] = n /\ <<n, d>>[2] = d
    OBVIOUS
  <2>. QED
    BY <1>2, <2>1 DEF DevicesOf
<1>. QED
  BY <1>1, <1>2 DEF DevicesOf

\* What the usage of the disks of a node may show.
Shares(n, usage) ==
    usage # <<>> => \A k \in 1..Points :
        LET point == usage[k]
            t == Timestamp(k)
            sampled == {d \in Disks : t \in disk[<<n, d>>]}
        IN  /\ 0 <= point[1] /\ point[1] <= point[2]
            /\ t # Now /\ sampled # {} =>
                   point = <<TotalUsed(sampled, t), TotalOf(Size, sampled)>>

\* The weights of disks at a time: those of F show their free space, those of R their
\* size, and the others zero.
FreeOf(D, F, t) == [d \in D |-> IF d \in F THEN Free[<<d, t>>] ELSE 0]
SizeOf(D, R) == [d \in D |-> IF d \in R THEN Size[d] ELSE 0]

\* A disk has a size, and at most as much free space.
LEMMA Space ==
    ASSUME NEW d \in Disks, NEW t \in Times
    PROVE  /\ Size[d] \in Int /\ Size[d] > 0
           /\ Free[<<d, t>>] \in Int /\ Free[<<d, t>>] > 0 /\ Free[<<d, t>>] <= Size[d]
  BY MetricsAssumption

LEMMA Sizes == \A d \in Disks : Size[d] \in Int /\ Size[d] > 0
<1>1. 0 \in Times
  BY MetricsAssumption DEF Times
<1>. QED
  BY <1>1, Space

\* These are weights, and none is negative.
LEMMA FreeWeights ==
    ASSUME NEW D \in SUBSET Disks, NEW t \in Times, NEW F
    PROVE  Weights(FreeOf(D, F, t), D) /\ \A d \in D : FreeOf(D, F, t)[d] >= 0
  BY Space DEF Weights, FreeOf

LEMMA SizeWeights ==
    ASSUME NEW D \in SUBSET Disks, NEW R
    PROVE  Weights(SizeOf(D, R), D) /\ \A d \in D : SizeOf(D, R)[d] >= 0
  BY Sizes DEF Weights, SizeOf

LEMMA UsedWeights ==
    ASSUME NEW D \in SUBSET Disks, NEW t \in Times
    PROVE  Weights(UsedOf(D, t), D)
  BY Space DEF Weights, UsedOf

\* The sums of free and of total space at a point, where every disk with a sample of
\* free space has one of the total.
LEMMA SumsAtPoint ==
    ASSUME NEW D \in SUBSET Disks, IsFiniteSet(D), NEW t \in Times,
           NEW F \in SUBSET D, NEW R \in SUBSET D, F \subseteq R,
           NEW v, IsSum(v, FreeOf(D, F, t), D), NEW w, IsSum(w, SizeOf(D, R), D)
    PROVE  /\ v[D] \in Int /\ w[D] \in Int /\ 0 <= v[D] /\ v[D] <= w[D]
           /\ F = R /\ R # {} =>
                w[D] # 0 /\ TotalUsed(R, t) = w[D] - v[D] /\ TotalOf(Size, R) = w[D]
<1>0. /\ Weights(FreeOf(D, F, t), D) /\ \A d \in D : FreeOf(D, F, t)[d] >= 0
      /\ Weights(SizeOf(D, R), D) /\ \A d \in D : SizeOf(D, R)[d] >= 0
      /\ Weights(SizeOf(D, {}), D) /\ Weights(SizeOf(R, R), R)
      /\ Weights(UsedOf(R, t), R)
  BY FreeWeights, SizeWeights, UsedWeights
<1>1. v[D] \in Int /\ v[D] >= 0
  BY <1>0, SumIsPositive
<1>2. w[D] \in Int
  BY <1>0, SumIsPositive
<1>3. v[D] <= w[D]
  <2>1. AtMost(FreeOf(D, F, t), SizeOf(D, R), D)
    BY Space DEF AtMost, FreeOf, SizeOf
  <2>2. \A s \in SUBSET D : v[s] <= w[s]
    BY <1>0, <2>1, SumOrder
  <2>. QED
    BY <2>2
<1>4. ASSUME F = R, R # {}
      PROVE  w[D] # 0 /\ TotalUsed(R, t) = w[D] - v[D] /\ TotalOf(Size, R) = w[D]
  <2>1. IsFiniteSet(R)
    BY FS_Subset
  <2>2. PICK u : IsSum(u, UsedOf(R, t), R) /\ TotalUsed(R, t) = u[R]
    BY <2>1, TotalUsedIsSum
  <2>3. PICK s : IsSum(s, SizeOf(R, R), R) /\ TotalOf(Size, R) = s[R]
    <3>1. SizeOf(R, R) = [d \in R |-> Size[d]]
      BY DEF SizeOf
    <3>. QED
      BY <2>1, <3>1, TotalOfIsSum
  <2>4. PICK z : IsSum(z, SizeOf(D, {}), D)
    BY SumExists
  <2>5. z[D] = 0
    <3>1. Nothing(SizeOf(D, {}), D)
      BY DEF Nothing, SizeOf
    <3>2. \A q \in SUBSET D : z[q] = 0
      BY <2>4, <3>1, SumOfNothing
    <3>. QED
      BY <3>2
  <2>6. /\ Nothing(SizeOf(D, R), D \ R) /\ Nothing(SizeOf(D, {}), D \ R)
        /\ Nothing(FreeOf(D, F, t), D \ R)
    BY <1>4 DEF Nothing, SizeOf, FreeOf
  <2>7. u[R] = w[D] - v[D]
    <3>1. Difference(UsedOf(R, t), SizeOf(D, R), FreeOf(D, F, t), R)
      BY <1>4 DEF Difference, UsedOf, SizeOf, FreeOf
    <3>. QED
      BY <1>0, <2>2, <2>6, <3>1, SumOfDifferences
  <2>8. s[R] = w[D] - z[D]
    <3>1. \A d \in R : SizeOf(R, R)[d] = Size[d] /\ SizeOf(D, R)[d] = Size[d] /\ SizeOf(D, {})[d] = 0
      BY DEF SizeOf
    <3>2. \A d \in R : Size[d] - 0 = Size[d]
      BY Sizes
    <3>3. Difference(SizeOf(R, R), SizeOf(D, R), SizeOf(D, {}), R)
      BY <3>1, <3>2 DEF Difference
    <3>. QED
      BY <1>0, <2>3, <2>4, <2>6, <3>3, SumOfDifferences
  <2>9. s[R] = w[D]
    BY <1>2, <2>5, <2>8
  <2>10. w[D] # 0
    <3>1. PICK x \in R : TRUE
      BY <1>4
    <3>2. s[R] >= SizeOf(R, R)[x]
      BY <1>0, <2>1, <2>3, SizeWeights, SumIsPositive
    <3>3. SizeOf(R, R)[x] = Size[x] /\ Size[x] > 0 /\ Size[x] \in Int
      BY Space DEF SizeOf
    <3>. QED
      BY <1>2, <2>9, <3>2, <3>3
  <2>. QED
    BY <2>2, <2>3, <2>7, <2>9, <2>10
<1>. QED
  BY <1>1, <1>2, <1>3, <1>4

\* A disk that has a free space in the answer still has the samples of it, and has got no
\* other since but the present one.
FreeAnswered ==
    pc = "total" => \A s \in Nodes \X Disks :
        /\ s \in DOMAIN free => free[s] # {} /\ free[s] \subseteq disk[s] \cap Grid
        /\ \A t \in disk[s] \cap Grid : t # Now => s \in DOMAIN free /\ t \in free[s]

\* Free space that was asked for before the total is never more than it, and before the
\* end of the period the two are of the same disks.
LEMMA UsageShares ==
    ASSUME Base, FreeAnswered, pc = "total", NEW n \in Nodes,
           ~Differ(free, getPrometheusData(disk), n)
    PROVE  Shares(n, resolveDiscValues(free, getPrometheusData(disk), n))
<1>. DEFINE resp == getPrometheusData(disk)
            D == DevicesOf(free, n)
            freeOf == [d \in D |->
                          getRatiosWithTimestamp([t \in free[<<n, d>>] |-> Free[<<d, t>>]])]
            totalOf == [d \in DevicesOf(resp, n) |->
                          getRatiosWithTimestamp([t \in resp[<<n, d>>] |-> Size[d]])]
            used(k) == TotalAtPoint(totalOf, k)
            left(k) == TotalAtPoint(freeOf, k)
            usage == resolveDiscValues(free, resp, n)
<1>1. /\ disk \in [Nodes \X Disks -> SUBSET Times] /\ DOMAIN free \subseteq Nodes \X Disks
      /\ IsFiniteSet(Disks)
  BY MetricsAssumption DEF Base
<1>2. /\ DOMAIN resp = {s \in Nodes \X Disks : disk[s] \cap Grid # {}}
      /\ \A s \in DOMAIN resp : resp[s] = disk[s] \cap Grid
  BY <1>1 DEF getPrometheusData
<1>3. /\ D = {d \in Disks : <<n, d>> \in DOMAIN free}
      /\ DevicesOf(resp, n) = {d \in Disks : <<n, d>> \in DOMAIN resp}
  <2>. HIDE DEF resp
  <2>. QED
    BY <1>1, <1>2, DevicesAre
<1>4. \A d \in D : free[<<n, d>>] # {} /\ free[<<n, d>>] \subseteq disk[<<n, d>>] \cap Grid
  BY <1>3 DEF FreeAnswered
<1>5. D = DevicesOf(resp, n)
  <2>1. D \subseteq DevicesOf(resp, n)
    <3>. HIDE DEF D, resp
    <3>1. \A d \in D : <<n, d>> \in DOMAIN resp /\ d \in Disks
      BY <1>2, <1>3, <1>4
    <3>. QED
      BY <1>3, <3>1
  <2>2. IsFiniteSet(DevicesOf(resp, n))
    <3>. HIDE DEF resp
    <3>. QED
      BY <1>1, <1>3, FS_Subset
  <2>3. Cardinality(D) = Cardinality(DevicesOf(resp, n))
    BY DEF Differ
  <2>. HIDE DEF D, resp
  <2>. QED
    BY <2>1, <2>2, <2>3, FS_Subset
<1>6. D \in SUBSET Disks /\ IsFiniteSet(D)
  <2>1. D \in SUBSET Disks
    BY <1>3
  <2>. HIDE DEF D
  <2>. QED
    BY <1>1, <2>1, FS_Subset
<1>7. \A d \in D : resp[<<n, d>>] = disk[<<n, d>>] \cap Grid
  <2>. HIDE DEF D, resp
  <2>. QED
    BY <1>2, <1>3, <1>5
<1>8. usage = IF D = {} THEN <<>>
              ELSE [k \in 1..Points |-> IF used(k) = 0 THEN <<0, 1>>
                                        ELSE <<used(k) - left(k), used(k)>>]
  <2>1. usage = IF DOMAIN totalOf = {} THEN <<>>
                ELSE [k \in 1..Points |->
                        IF Total(DOMAIN totalOf, LAMBDA d : totalOf[d][k]) = 0 THEN <<0, 1>>
                        ELSE <<Total(DOMAIN totalOf, LAMBDA d : totalOf[d][k])
                                 - Total(DOMAIN freeOf, LAMBDA d : freeOf[d][k]),
                               Total(DOMAIN totalOf, LAMBDA d : totalOf[d][k])>>]
    BY Zenon DEF resolveDiscValues
  <2>2. usage = IF DOMAIN totalOf = {} THEN <<>>
                ELSE [k \in 1..Points |-> IF used(k) = 0 THEN <<0, 1>>
                                          ELSE <<used(k) - left(k), used(k)>>]
    BY <2>1, Zenon DEF TotalAtPoint
  <2>3. DOMAIN totalOf = D
    BY <1>5
  <2>. HIDE DEF usage, used, left, totalOf, D
  <2>. QED
    BY <2>2, <2>3
<1>9. ASSUME NEW k \in 1..Points
      PROVE  LET t == Timestamp(k)
                 F == {d \in D : t \in free[<<n, d>>]}
                 R == {d \in D : t \in disk[<<n, d>>]}
             IN  /\ t \in Times /\ t \in Grid
                 /\ [d \in D |-> freeOf[d][k]] = FreeOf(D, F, t)
                 /\ [d \in D |-> totalOf[d][k]] = SizeOf(D, R)
  <2>. DEFINE t == Timestamp(k)
              F == {d \in D : t \in free[<<n, d>>]}
              R == {d \in D : t \in disk[<<n, d>>]}
  <2>1. t \in Grid /\ t \in Times
    BY GridOfPeriod
  <2>2. ASSUME NEW d \in D
        PROVE  freeOf[d][k] = IF d \in F THEN Free[<<d, t>>] ELSE 0
    <3>. DEFINE values == [x \in free[<<n, d>>] |-> Free[<<d, x>>]]
    <3>1. free[<<n, d>>] \in SUBSET Grid /\ DOMAIN values = free[<<n, d>>]
      BY <1>4
    <3>2. freeOf[d] = getRatiosWithTimestamp(values)
      OBVIOUS
    <3>3. t \in free[<<n, d>>] => values[t] = Free[<<d, t>>]
      OBVIOUS
    <3>. HIDE DEF values, freeOf, t, D
    <3>4. getRatiosWithTimestamp(values)[k] = IF t \in free[<<n, d>>] THEN values[t] ELSE 0
      BY <3>1, PointsShowSamples DEF t
    <3>. QED
      BY <3>2, <3>3, <3>4
  <2>3. ASSUME NEW d \in DevicesOf(resp, n)
        PROVE  totalOf[d][k] = IF d \in R THEN Size[d] ELSE 0
    <3>. DEFINE values == [x \in resp[<<n, d>>] |-> Size[d]]
    <3>1. /\ resp[<<n, d>>] \in SUBSET Grid /\ DOMAIN values = resp[<<n, d>>]
          /\ t \in resp[<<n, d>>] <=> t \in disk[<<n, d>>]
      BY <1>5, <1>7, <2>1
    <3>2. totalOf[d] = getRatiosWithTimestamp(values)
      OBVIOUS
    <3>3. t \in resp[<<n, d>>] => values[t] = Size[d]
      OBVIOUS
    <3>. HIDE DEF values, totalOf, t, D, resp
    <3>4. getRatiosWithTimestamp(values)[k] = IF t \in resp[<<n, d>>] THEN values[t] ELSE 0
      BY <3>1, PointsShowSamples DEF t
    <3>5. d \in D
      BY <1>5
    <3>. QED
      BY <3>1, <3>2, <3>3, <3>4, <3>5
  <2>. HIDE DEF t, D, freeOf, totalOf
  <2>4. [d \in D |-> freeOf[d][k]] = FreeOf(D, F, t) /\ [d \in D |-> totalOf[d][k]] = SizeOf(D, R)
    BY <1>5, <2>2, <2>3 DEF FreeOf, SizeOf
  <2>. QED
    BY <2>1, <2>4 DEF t
<1>10. DOMAIN freeOf = D /\ DOMAIN totalOf = D
  BY <1>5
<1>11. ASSUME NEW k \in 1..Points
       PROVE  LET t == Timestamp(k)
                  R == {d \in D : t \in disk[<<n, d>>]}
              IN  /\ left(k) \in Int /\ used(k) \in Int /\ 0 <= left(k) /\ left(k) <= used(k)
                  /\ t # Now /\ R # {} =>
                       used(k) # 0 /\ TotalUsed(R, t) = used(k) - left(k) /\ TotalOf(Size, R) = used(k)
  <2>. DEFINE t == Timestamp(k)
              F == {d \in D : t \in free[<<n, d>>]}
              R == {d \in D : t \in disk[<<n, d>>]}
  <2>1. /\ t \in Times /\ t \in Grid
        /\ [d \in D |-> freeOf[d][k]] = FreeOf(D, F, t)
        /\ [d \in D |-> totalOf[d][k]] = SizeOf(D, R)
    BY <1>9
  <2>. HIDE DEF D, freeOf, totalOf, t
  <2>2. PICK v : IsSum(v, FreeOf(D, F, t), D) /\ left(k) = v[D]
    <3>1. [d \in DOMAIN freeOf |-> freeOf[d][k]] = FreeOf(D, F, t) /\ IsFiniteSet(DOMAIN freeOf)
      BY <1>6, <1>10, <2>1
    <3>2. \E v : IsSum(v, [d \in DOMAIN freeOf |-> freeOf[d][k]], DOMAIN freeOf)
                 /\ left(k) = v[DOMAIN freeOf]
      BY <3>1, TotalAtPointIsSum
    <3>. QED
      BY <1>10, <3>1, <3>2
  <2>3. PICK w : IsSum(w, SizeOf(D, R), D) /\ used(k) = w[D]
    <3>1. [d \in DOMAIN totalOf |-> totalOf[d][k]] = SizeOf(D, R) /\ IsFiniteSet(DOMAIN totalOf)
      BY <1>6, <1>10, <2>1
    <3>2. \E w : IsSum(w, [d \in DOMAIN totalOf |-> totalOf[d][k]], DOMAIN totalOf)
                 /\ used(k) = w[DOMAIN totalOf]
      BY <3>1, TotalAtPointIsSum
    <3>. QED
      BY <1>10, <3>1, <3>2
  <2>4. F \in SUBSET D /\ R \in SUBSET D /\ F \subseteq R
    BY <1>4
  <2>5. t # Now => F = R
    <3>1. ASSUME t # Now, NEW d \in R
          PROVE  t \in free[<<n, d>>]
      <4>1. <<n, d>> \in Nodes \X Disks /\ t \in disk[<<n, d>>] \cap Grid
        BY <1>6, <2>1
      <4>. QED
        BY <3>1, <4>1 DEF FreeAnswered
    <3>. QED
      BY <2>4, <3>1
  <2>. HIDE DEF F, R
  <2>6. /\ v[D] \in Int /\ w[D] \in Int /\ 0 <= v[D] /\ v[D] <= w[D]
        /\ F = R /\ R # {} =>
             w[D] # 0 /\ TotalUsed(R, t) = w[D] - v[D] /\ TotalOf(Size, R) = w[D]
    BY <1>6, <2>1, <2>2, <2>3, <2>4, SumsAtPoint
  <2>7. /\ left(k) \in Int /\ used(k) \in Int /\ 0 <= left(k) /\ left(k) <= used(k)
        /\ t # Now /\ R # {} =>
             used(k) # 0 /\ TotalUsed(R, t) = used(k) - left(k) /\ TotalOf(Size, R) = used(k)
    BY <2>2, <2>3, <2>5, <2>6
  <2>. QED
    BY <2>7 DEF t, R
<1>12. ASSUME usage # <<>>, NEW k \in 1..Points
       PROVE  LET point == usage[k]
                  t == Timestamp(k)
                  sampled == {d \in Disks : t \in disk[<<n, d>>]}
              IN  /\ 0 <= point[1] /\ point[1] <= point[2]
                  /\ t # Now /\ sampled # {} => point = <<TotalUsed(sampled, t), TotalOf(Size, sampled)>>
  <2>. DEFINE t == Timestamp(k)
              R == {d \in D : t \in disk[<<n, d>>]}
              sampled == {d \in Disks : t \in disk[<<n, d>>]}
  <2>1. usage[k] = IF used(k) = 0 THEN <<0, 1>> ELSE <<used(k) - left(k), used(k)>>
    <3>. HIDE DEF usage, used, left, D
    <3>. QED
      BY <1>8, <1>12
  <2>2. /\ left(k) \in Int /\ used(k) \in Int /\ 0 <= left(k) /\ left(k) <= used(k)
        /\ t # Now /\ R # {} =>
             used(k) # 0 /\ TotalUsed(R, t) = used(k) - left(k) /\ TotalOf(Size, R) = used(k)
    BY <1>11
  <2>3. t # Now => sampled = R
    <3>1. ASSUME t # Now, NEW d \in sampled
          PROVE  d \in D
      <4>1. t \in disk[<<n, d>>] \cap Grid /\ <<n, d>> \in Nodes \X Disks
        BY <1>9
      <4>2. <<n, d>> \in DOMAIN free
        BY <3>1, <4>1 DEF FreeAnswered
      <4>. QED
        BY <1>3, <4>2
    <3>2. D \subseteq Disks
      BY <1>6
    <3>. HIDE DEF D, t
    <3>. QED
      BY <3>1, <3>2
  <2>. HIDE DEF usage, used, left, D, t, R, sampled
  <2>4. 0 <= usage[k][1] /\ usage[k][1] <= usage[k][2]
    BY <2>1, <2>2
  <2>5. t # Now /\ sampled # {} => usage[k] = <<TotalUsed(sampled, t), TotalOf(Size, sampled)>>
    BY <2>1, <2>2, <2>3
  <2>. QED
    BY <2>4, <2>5 DEF t, sampled
<1>. HIDE DEF usage
<1>13. Shares(n, usage)
  BY <1>12 DEF Shares
<1>. QED
  BY <1>13 DEF usage

--------------------------------------------------------------------------------
(* Steps and the usage of disks *)

DiscUsages == \A n \in nodes : Shares(n, answer[n].disc)

DiskInv == FreeAnswered /\ DiscUsages

LEMMA SameShares ==
    ASSUME Same
    PROVE  \A n, u : Shares(n, u)' <=> Shares(n, u)
  BY DEF Same, Points, Timestamp, Shares

\* A step that leaves the samples, the nodes and their usages alone.
LEMMA UsagesStay ==
    ASSUME DiscUsages, Same, \A n \in nodes : answer'[n].disc = answer[n].disc
    PROVE  DiscUsages'
<1>1. nodes' = nodes
  BY DEF Same
<1>. QED
  BY <1>1, SameShares DEF DiscUsages

LEMMA RequestKeepsDisks ==
    ASSUME IInv, DiskInv, NEW ns \in SUBSET Nodes, NEW value, Request(ns, value)
    PROVE  DiskInv'
<1>1. /\ pc = "idle" /\ pc' = "memory" /\ nodes = {} /\ nodes' = ns /\ answer' = answer
  BY DEF Request, IInv, Base
<1>2. \A n \in Nodes : answer[n].disc = <<>>
  BY <1>1 DEF IInv, Answers, None
<1>3. DiscUsages'
  BY <1>1, <1>2 DEF DiscUsages, Shares
<1>. QED
  BY <1>1, <1>3 DEF DiskInv, FreeAnswered

\* The gauges and the traffic leave the usage of disks alone.
LEMMA GaugeKeepsDisks ==
    ASSUME IInv, DiskInv, getMemoryRatio \/ getCPURatio
    PROVE  DiskInv'
<1>. DEFINE usage(n) == resolveGauge(getPrometheusData(up), n)
<1>1. pc' # "total" /\ Same
  BY DEF getMemoryRatio, getCPURatio, prometheus, Same
<1>2. \A n \in Nodes : IsAnswer(answer[n])
  BY DEF IInv, Answers
<1>3. \/ answer' = [n \in Nodes |-> IF n \in nodes THEN [answer[n] EXCEPT !["mem"] = usage(n)]
                                                   ELSE answer[n]]
      \/ answer' = [n \in Nodes |-> IF n \in nodes THEN [answer[n] EXCEPT !["cpu"] = usage(n)]
                                                   ELSE answer[n]]
  BY DEF getMemoryRatio, getCPURatio, Put
<1>. HIDE DEF usage
<1>4. ASSUME NEW n \in nodes
      PROVE  answer'[n].disc = answer[n].disc
  <2>1. n \in Nodes
    BY DEF IInv, Base
  <2>2. CASE answer'[n] = [answer[n] EXCEPT !["mem"] = usage(n)]
    BY <1>2, <2>1, <2>2, PutMem
  <2>3. CASE answer'[n] = [answer[n] EXCEPT !["cpu"] = usage(n)]
    BY <1>2, <2>1, <2>3, PutCpu
  <2>. QED
    BY <1>3, <2>1, <2>2, <2>3
<1>5. DiscUsages'
  BY <1>1, <1>4, UsagesStay DEF DiskInv
<1>. QED
  BY <1>1, <1>5 DEF DiskInv, FreeAnswered

LEMMA NetworkKeepsDisks ==
    ASSUME IInv, DiskInv, getNetworkRatio
    PROVE  DiskInv'
<1>. DEFINE usage(n) == resolveNetworkValues(getPrometheusData(up), n)
            c(n) == LastRatio(n, answer[n].cpu, answer[n].cpuRatio)
            m(n) == LastRatio(n, answer[n].mem, answer[n].memRatio)
<1>1. pc' # "total" /\ Same
  BY DEF getNetworkRatio, prometheus, Same
<1>2. answer' = [n \in Nodes |-> IF n \in nodes
                                 THEN [answer[n] EXCEPT !.net = usage(n), !.cpuRatio = c(n),
                                                        !.memRatio = m(n)]
                                 ELSE answer[n]]
  BY Zenon DEF getNetworkRatio
<1>. HIDE DEF usage, c, m
<1>3. ASSUME NEW n \in nodes
      PROVE  answer'[n].disc = answer[n].disc
  <2>1. n \in Nodes
    BY DEF IInv, Base
  <2>2. answer'[n] = [answer[n] EXCEPT !.net = usage(n), !.cpuRatio = c(n), !.memRatio = m(n)]
    BY <1>2, <2>1
  <2>. QED
    BY <2>2
<1>4. DiscUsages'
  BY <1>1, <1>3, UsagesStay DEF DiskInv
<1>. QED
  BY <1>1, <1>4 DEF DiskInv, FreeAnswered

\* The answer about free space has every sample there is now.
LEMMA FreeKeepsDisks ==
    ASSUME IInv, DiskInv, getFree
    PROVE  DiskInv'
<1>1. pc' = "total" /\ free' = getPrometheusData(disk) /\ answer' = answer /\ disk' = disk
  BY DEF getFree, prometheus
<1>2. Same
  BY DEF getFree, prometheus, Same
<1>3. DiscUsages'
  BY <1>1, <1>2, UsagesStay DEF DiskInv
<1>4. FreeAnswered'
  <2>1. Grid' = Grid
    BY <1>2, SameGrid
  <2>2. disk \in [Nodes \X Disks -> SUBSET Times]
    BY DEF IInv, Base
  <2>3. /\ DOMAIN free' = {s \in Nodes \X Disks : disk[s] \cap Grid # {}}
        /\ \A s \in DOMAIN free' : free'[s] = disk[s] \cap Grid
    BY <1>1, <2>2 DEF getPrometheusData
  <2>4. ASSUME NEW s \in Nodes \X Disks
        PROVE  /\ s \in DOMAIN free' => free'[s] # {} /\ free'[s] \subseteq disk[s] \cap Grid
               /\ \A t \in disk[s] \cap Grid : t # Now => s \in DOMAIN free' /\ t \in free'[s]
    BY <2>3
  <2>. QED
    BY <1>1, <2>1, <2>4 DEF FreeAnswered
<1>. QED
  BY <1>3, <1>4 DEF DiskInv

LEMMA TotalKeepsDisks ==
    ASSUME IInv, DiskInv, getTotal
    PROVE  DiskInv'
<1>. DEFINE resp == getPrometheusData(disk)
            usage(n) == resolveDiscValues(free, resp, n)
            failing == \E n \in nodes : Differ(free, resp, n)
<1>1. pc = "total" /\ pc' # "total" /\ Same
  BY DEF getTotal, prometheus, Same
<1>2. /\ failing => answer' = answer
      /\ ~failing => answer' = [n \in Nodes |-> IF n \in nodes
                                                 THEN [answer[n] EXCEPT !["disc"] = usage(n)]
                                                 ELSE answer[n]]
  BY DEF getTotal, Put
<1>3. \A n \in Nodes : IsAnswer(answer[n])
  BY DEF IInv, Answers
<1>4. CASE failing
  <2>1. DiscUsages'
    BY <1>1, <1>2, <1>4, UsagesStay DEF DiskInv
  <2>. QED
    BY <1>1, <2>1 DEF DiskInv, FreeAnswered
<1>5. CASE ~failing
  <2>1. ASSUME NEW n \in nodes
        PROVE  Shares(n, answer'[n].disc)
    <3>1. n \in Nodes /\ ~Differ(free, resp, n)
      BY <1>5 DEF IInv, Base
    <3>2. Shares(n, usage(n))
      BY <1>1, <3>1, UsageShares DEF IInv, DiskInv
    <3>. HIDE DEF usage, failing, resp
    <3>3. answer'[n] = [answer[n] EXCEPT !["disc"] = usage(n)]
      BY <1>2, <1>5, <3>1
    <3>4. answer'[n].disc = usage(n)
      BY <1>3, <3>1, <3>3, PutDisc
    <3>. QED
      BY <3>2, <3>4
  <2>2. nodes' = nodes
    BY <1>1 DEF Same
  <2>3. DiscUsages'
    BY <1>1, <2>1, <2>2, SameShares DEF DiscUsages
  <2>. QED
    BY <1>1, <2>3 DEF DiskInv, FreeAnswered
<1>. QED
  BY <1>4, <1>5

\* A scrape brings samples of the present only.
LEMMA ScrapeKeepsDisks ==
    ASSUME IInv, DiskInv, NEW m \in Nodes, NEW M \in SUBSET Disks, Scrape(m, M)
    PROVE  DiskInv'
<1>1. /\ disk' = [s \in DOMAIN disk |->
                     IF s[1] = m /\ s[2] \in M THEN disk[s] \cup {Now} ELSE disk[s]]
      /\ UNCHANGED <<pc, nodes, period, free, answer>>
  BY Zenon DEF Scrape
<1>2. disk \in [Nodes \X Disks -> SUBSET Times] /\ nodes \subseteq Nodes
  BY DEF IInv, Base
<1>3. /\ Points' = Points /\ Grid' = Grid /\ \A k : Timestamp(k)' = Timestamp(k)
  BY <1>1 DEF Points, Grid, Timestamp
<1>4. \A s \in Nodes \X Disks : disk'[s] = disk[s] \/ disk'[s] = disk[s] \cup {Now}
  BY <1>1, <1>2
<1>5. FreeAnswered'
  <2>1. ASSUME pc = "total", NEW s \in Nodes \X Disks
        PROVE  /\ s \in DOMAIN free => free[s] # {} /\ free[s] \subseteq disk'[s] \cap Grid
               /\ \A t \in disk'[s] \cap Grid : t # Now => s \in DOMAIN free /\ t \in free[s]
    <3>1. /\ s \in DOMAIN free => free[s] # {} /\ free[s] \subseteq disk[s] \cap Grid
          /\ \A t \in disk[s] \cap Grid : t # Now => s \in DOMAIN free /\ t \in free[s]
      BY <2>1 DEF DiskInv, FreeAnswered
    <3>. QED
      BY <1>4, <3>1
  <2>. QED
    BY <1>1, <1>3, <2>1 DEF FreeAnswered
<1>6. ASSUME NEW n \in nodes, NEW usage, Shares(n, usage)
      PROVE  Shares(n, usage)'
  <2>1. ASSUME NEW t, t # Now
        PROVE  {d \in Disks : t \in disk'[<<n, d>>]} = {d \in Disks : t \in disk[<<n, d>>]}
    <3>1. \A d \in Disks : <<n, d>> \in Nodes \X Disks
      BY <1>2
    <3>. QED
      BY <1>4, <2>1, <3>1
  <2>2. ASSUME usage # <<>>, NEW k \in 1..Points
        PROVE  LET point == usage[k]
                   t == Timestamp(k)
                   sampled == {d \in Disks : t \in disk'[<<n, d>>]}
               IN  /\ 0 <= point[1] /\ point[1] <= point[2]
                   /\ t # Now /\ sampled # {} =>
                          point = <<TotalUsed(sampled, t), TotalOf(Size, sampled)>>
    <3>. DEFINE t == Timestamp(k)
                now == {d \in Disks : t \in disk'[<<n, d>>]}
                before == {d \in Disks : t \in disk[<<n, d>>]}
    <3>1. /\ 0 <= usage[k][1] /\ usage[k][1] <= usage[k][2]
          /\ t # Now /\ before # {} => usage[k] = <<TotalUsed(before, t), TotalOf(Size, before)>>
      BY <1>6, <2>2 DEF Shares
    <3>2. t # Now => now = before
      BY <2>1
    <3>. HIDE DEF t, now, before
    <3>3. t # Now /\ now # {} => usage[k] = <<TotalUsed(now, t), TotalOf(Size, now)>>
      BY <3>1, <3>2
    <3>. QED
      BY <3>1, <3>3 DEF t, now
  <2>. QED
    BY <1>3, <2>2 DEF Shares
<1>7. DiscUsages'
  BY <1>1, <1>6 DEF DiskInv, DiscUsages
<1>. QED
  BY <1>5, <1>7 DEF DiskInv

LEMMA DiskNext == IInv /\ DiskInv /\ [Next]_vars => DiskInv'
<1>. SUFFICES ASSUME IInv, DiskInv, [Next]_vars PROVE DiskInv'
  OBVIOUS
<1>1. CASE UNCHANGED vars
  <2>1. Same /\ answer' = answer /\ free' = free /\ pc' = pc /\ disk' = disk
    BY <1>1 DEF vars, Same
  <2>2. DiscUsages'
    BY <2>1, UsagesStay DEF DiskInv
  <2>3. FreeAnswered'
    BY <2>1, SameGrid DEF DiskInv, FreeAnswered
  <2>. QED
    BY <2>2, <2>3 DEF DiskInv
<1>2. ASSUME NEW value \in Periods \cup Others, List(value) \/ \E n \in Nodes : Get(n, value)
      PROVE  DiskInv'
  <2>1. PICK ns \in SUBSET Nodes : Request(ns, value)
    BY <1>2 DEF List, Get
  <2>. QED
    BY <2>1, RequestKeepsDisks
<1>3. CASE QueryFails
  <2>1. Same /\ answer' = answer /\ pc' = "failed"
    BY <1>3 DEF QueryFails, prometheus, Same
  <2>2. DiscUsages'
    BY <2>1, UsagesStay DEF DiskInv
  <2>. QED
    BY <2>1, <2>2 DEF DiskInv, FreeAnswered
<1>4. CASE getMemoryRatio \/ getCPURatio
  BY <1>4, GaugeKeepsDisks
<1>5. CASE getFree
  BY <1>5, FreeKeepsDisks
<1>6. CASE getTotal
  BY <1>6, TotalKeepsDisks
<1>7. CASE getNetworkRatio
  BY <1>7, NetworkKeepsDisks
<1>8. ASSUME NEW n \in Nodes, NEW M \in SUBSET Disks, Scrape(n, M)
      PROVE  DiskInv'
  BY <1>8, ScrapeKeepsDisks
<1>. QED
  BY <1>1, <1>2, <1>3, <1>4, <1>5, <1>6, <1>7, <1>8 DEF Next

\* For any disks, histories and periods, and with scrapes between the two disk queries:
\* resolveDiscValues gives a share at each point, and at one before the end of the period
\* the used and the total space of exactly the disks that were sampled then.
THEOREM DiscUsagesAreShares == Spec => []DiscUsageIsAShare
<1>1. Init => DiskInv
  BY DEF Init, DiskInv, DiscUsages, FreeAnswered
<1>2. IInv /\ DiskInv /\ [Next]_vars => DiskInv'
  BY DiskNext
<1>3. IInv /\ DiskInv => DiscUsageIsAShare
  <2>. SUFFICES ASSUME DiscUsages PROVE DiscUsageIsAShare
    BY DEF DiskInv
  <2>. QED
    BY Zenon DEF DiscUsages, DiscUsageIsAShare, Shares, TotalUsed, TotalOf
<1>. QED
  BY <1>1, <1>2, <1>3, Invariant, PTL DEF Spec

================================================================================
