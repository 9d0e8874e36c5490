------------------------------ MODULE NodeMetrics ------------------------------
(***************************************************************************)
(* The metrics of nodes (pkg/metric/handler/node_handler.go).  A list of   *)
(* the nodes, or the read of one, asks Prometheus for memory, CPU, free    *)
(* and total disk space and network traffic, one query after the other,    *)
(* and lays the samples on a grid of timestamps; Prometheus goes on        *)
(* scraping the nodes between the queries.                                 *)
(*                                                                         *)
(* A series is the set of times it has a sample at, and the values are     *)
(* constants.  A sample of time t is what Prometheus evaluates the metric  *)
(* to at t, so one of the last five minutes counts at Now.  Samples do not *)
(* leave the period while a request runs (the retention of Prometheus).    *)
(* Ratios are pairs, without the rounding of their formatting.  The id of  *)
(* a node is its address, which is also the label of its series.           *)
(***************************************************************************)
EXTENDS Integers, Sequences, FiniteSetsExt

CONSTANTS Nodes, Disks, Interfaces,
          Inner,     \* interfaces with docker or veth in their name, but not in front
          Now,       \* the time of the request
          Parts,     \* steps of the grid (300)
          HourStep,  \* length of a step for each hour of the period (12 s)
          Periods,   \* hours a client can ask for (6, 12, 24, 168, 720, 2160)
          Default,   \* DefaultPeriodValue
          Others,    \* other values of the filter
          Histories, \* sets of times a series may have samples at when a request begins
          Gauge,     \* the CPU and memory ratio of a node at a time
          Size,      \* the size of a disk
          Free,      \* its free space at a time
          Traffic    \* the traffic of an interface at a time

Times == 0..Now

ASSUME MetricsAssumption ==
    /\ Inner \subseteq Interfaces /\ Now \in Nat /\ IsFiniteSet(Disks)
    /\ Parts \in Nat \ {0} /\ HourStep \in Nat \ {0} /\ Default \in Periods
    /\ \A p \in Periods : p \in Nat \ {0} /\ p * Parts * HourStep <= Now
    /\ Others \cap Periods = {}
    /\ Histories \subseteq SUBSET Times
    /\ \A n \in Nodes, t \in Times : Gauge[<<n, t>>] \in Nat \ {0}
    /\ \A d \in Disks, t \in Times : Size[d] \in Nat \ {0} /\ Free[<<d, t>>] \in 1..Size[d]
    /\ \A i \in Interfaces, t \in Times : Traffic[<<i, t>>] \in Nat

VARIABLES up,        \* samples of the gauges and interfaces of each node
          disk,      \* samples of each disk of each node
          alive,     \* node_is_alive of the rows
          pc,        \* the next query of the request
          nodes,     \* the nodes it is about
          period,    \* its period
          free,      \* the answer to the query of free space
          answer,    \* what it has put in each node
          lost,      \* history: a query failed
          appeared   \* history: a disk of these nodes came up between the disk queries

prometheus == <<up, disk>>
vars == <<up, disk, alive, pc, nodes, period, free, answer, lost, appeared>>

None == [cpu |-> <<>>, mem |-> <<>>, disc |-> <<>>, net |-> <<>>, cpuRatio |-> 0, memRatio |-> 0]

--------------------------------------------------------------------------------
(* The grid *)

getPeriodFromFilters(value) == IF value \in Periods THEN value ELSE Default

\* Mutant: a step for each hour of the default period.
genTimePeriodParamsFixedStep(hours) ==
    [Begin |-> Now - hours * Parts * HourStep, End |-> Now, Step |-> Default * HourStep]

genTimePeriodParams(hours) ==
    [Begin |-> Now - hours * Parts * HourStep, End |-> Now, Step |-> hours * HourStep]

Points == (period.End - period.Begin) \div period.Step + 1
Timestamp(k) == period.Begin + (k - 1) * period.Step
Grid == {Timestamp(k) : k \in 1..Points}

\* Mutant: samples are put one point late.
getRatiosShifted(values) ==
    [k \in 1..Points |->
        LET at == {t \in DOMAIN values : (t - period.Begin) \div period.Step = k - 2}
        IN  IF at = {} THEN 0 ELSE values[Max(at)]]

\* values maps times to values; a point without a sample shows zero.
getRatiosWithTimestamp(values) ==
    [k \in 1..Points |->
        LET at == {t \in DOMAIN values : (t - period.Begin) \div period.Step = k - 1}
        IN  IF at = {} THEN 0 ELSE values[Max(at)]]

\* What a query answers: the series with samples on the grid, and the times of these.
getPrometheusData(series) ==
    [s \in {r \in DOMAIN series : series[r] \cap Grid # {}} |-> series[s] \cap Grid]

\* The devices of a node that have a series in an answer.
DevicesOf(resp, n) == {s[2] : s \in {r \in DOMAIN resp : r[1] = n}}
Total(S, V(_)) == MapThenSumSet(V, S)

--------------------------------------------------------------------------------
(* What the handler makes of an answer *)

\* resolveCPUValues and resolveMemoryValues; a node without a series keeps an empty list.
resolveGauge(resp, n) ==
    IF n \in DOMAIN resp
    THEN getRatiosWithTimestamp([t \in resp[n] |-> Gauge[<<n, t>>]])
    ELSE <<>>

\* Mutant: the list of free space is not emptied between two nodes.
DifferOverall(respFree, respTotal, n) ==
    Cardinality(DOMAIN respFree) # Cardinality(DevicesOf(respTotal, n))

\* The series of free and total space of a node differ in number.
Differ(respFree, respTotal, n) ==
    Cardinality(DevicesOf(respFree, n)) # Cardinality(DevicesOf(respTotal, n))

\* Each point is the pair of used and total space, or zero without a total.
resolveDiscValues(respFree, respTotal, n) ==
    LET freeOf == [d \in DevicesOf(respFree, n) |->
                      getRatiosWithTimestamp([t \in respFree[<<n, d>>] |-> Free[<<d, t>>]])]
        totalOf == [d \in DevicesOf(respTotal, n) |->
                      getRatiosWithTimestamp([t \in respTotal[<<n, d>>] |-> Size[d]])]
        sumFree(k) == Total(DOMAIN freeOf, LAMBDA d : freeOf[d][k])
        sumUsed(k) == Total(DOMAIN totalOf, LAMBDA d : totalOf[d][k])
    IN  IF DOMAIN totalOf = {} THEN <<>>
        ELSE [k \in 1..Points |-> IF sumUsed(k) = 0 THEN <<0, 1>>
                                  ELSE <<sumUsed(k) - sumFree(k), sumUsed(k)>>]

\* The traffic of the interfaces of a node; a name that begins with docker or veth is
\* at index 0 and counts.
resolveNetworkValues(resp, n) ==
    IF n \notin DOMAIN resp \/ Interfaces \subseteq Inner THEN <<>>
    ELSE LET of == [i \in Interfaces \ Inner |->
                       getRatiosWithTimestamp([t \in resp[n] |-> Traffic[<<i, t>>]])]
         IN  [k \in 1..Points |-> Total(DOMAIN of, LAMBDA i : of[i][k])]

\* The ratios of an alive node are those of its newest point.
LastRatio(n, usage, old) == IF alive[n] /\ usage # <<>> THEN usage[Len(usage)] ELSE old

--------------------------------------------------------------------------------
(* Actions *)

\* The rows are read and the period is set.
Request(ns, value) ==
    /\ pc = "idle"
    /\ nodes' = ns
    /\ period' = genTimePeriodParams(getPeriodFromFilters(value))
    /\ pc' = "memory"
    /\ UNCHANGED <<prometheus, alive, free, answer, lost, appeared>>

List(value) == Request(Nodes, value)
Get(n, value) == Request({n}, value)

\* A query that fails ends the request with an error.
QueryFails ==
    /\ pc \notin {"idle", "answered", "failed"}
    /\ pc' = "failed"
    /\ lost' = TRUE
    /\ UNCHANGED <<prometheus, alive, nodes, period, free, answer, appeared>>

Put(field, V(_)) ==
    answer' = [n \in Nodes |-> IF n \in nodes THEN [answer[n] EXCEPT ![field] = V(n)] ELSE answer[n]]

getMemoryRatio ==
    /\ pc = "memory"
    /\ LET resp == getPrometheusData(up) IN Put("mem", LAMBDA n : resolveGauge(resp, n))
    /\ pc' = "cpu"
    /\ UNCHANGED <<prometheus, alive, nodes, period, free, lost, appeared>>

getCPURatio ==
    /\ pc = "cpu"
    /\ LET resp == getPrometheusData(up) IN Put("cpu", LAMBDA n : resolveGauge(resp, n))
    /\ pc' = "free"
    /\ UNCHANGED <<prometheus, alive, nodes, period, free, lost, appeared>>

\* The first query of getDiscRatio.
getFree ==
    /\ pc = "free"
    /\ free' = getPrometheusData(disk)
    /\ pc' = "total"
    /\ UNCHANGED <<prometheus, alive, nodes, period, answer, lost, appeared>>

\* Mutant: the total is asked for first.
getTotalFirst ==
    /\ pc = "total"
    /\ LET resp == getPrometheusData(disk) IN
       IF \E n \in nodes : Differ(resp, free, n)
       THEN /\ pc' = "failed"
            /\ UNCHANGED answer
       ELSE /\ pc' = "network"
            /\ Put("disc", LAMBDA n : resolveDiscValues(resp, free, n))
    /\ UNCHANGED <<prometheus, alive, nodes, period, free, lost, appeared>>

\* The second, and resolveDiscValues: one node whose series differ in number fails the
\* whole request.
getTotal ==
    /\ pc = "total"
    /\ LET resp == getPrometheusData(disk) IN
       IF \E n \in nodes : Differ(free, resp, n)
       THEN /\ pc' = "failed"
            /\ UNCHANGED answer
       ELSE /\ pc' = "network"
            /\ Put("disc", LAMBDA n : resolveDiscValues(free, resp, n))
    /\ UNCHANGED <<prometheus, alive, nodes, period, free, lost, appeared>>

\* The last query and the end of setNodeMetrics.
getNetworkRatio ==
    /\ pc = "network"
    /\ LET resp == getPrometheusData(up) IN
       answer' = [n \in Nodes |->
           IF n \in nodes
           THEN [answer[n] EXCEPT !.net = resolveNetworkValues(resp, n),
                                  !.cpuRatio = LastRatio(n, answer[n].cpu, @),
                                  !.memRatio = LastRatio(n, answer[n].mem, @)]
           ELSE answer[n]]
    /\ pc' = "answered"
    /\ UNCHANGED <<prometheus, alive, nodes, period, free, lost, appeared>>

\* Prometheus scrapes a node, with the disks M that are mounted.
Scrape(n, M) ==
    /\ \/ Now \notin up[n]
       \/ \E d \in M : Now \notin disk[<<n, d>>]
    /\ up' = [up EXCEPT ![n] = @ \cup {Now}]
    /\ disk' = [s \in DOMAIN disk |->
                   IF s[1] = n /\ s[2] \in M THEN disk[s] \cup {Now} ELSE disk[s]]
    /\ appeared' = \/ appeared
                    \/ /\ pc = "total" /\ n \in nodes
                       /\ \E d \in M : disk[<<n, d>>] \cap Grid = {}
    /\ UNCHANGED <<alive, pc, nodes, period, free, answer, lost>>

Init ==
    /\ up \in [Nodes -> Histories]
    /\ disk \in [Nodes \X Disks -> Histories]
    /\ \A n \in Nodes, d \in Disks : disk[<<n, d>>] \subseteq up[n]
    /\ alive \in [Nodes -> BOOLEAN]
    /\ pc = "idle" /\ nodes = {} /\ period = genTimePeriodParams(Default)
    /\ free = <<>>
    /\ answer = [n \in Nodes |-> None]
    /\ lost = FALSE /\ appeared = FALSE

Next ==
    \/ \E value \in Periods \cup Others : List(value) \/ \E n \in Nodes : Get(n, value)
    \/ QueryFails \/ getMemoryRatio \/ getCPURatio \/ getFree \/ getTotal \/ getNetworkRatio
    \/ \E n \in Nodes, M \in SUBSET Disks : Scrape(n, M)

Spec == Init /\ [][Next]_vars

--------------------------------------------------------------------------------
(* Properties *)

\* Types; a usage is empty or has every point of the grid, and a node the request is
\* not about keeps its row.
TypeOK ==
    /\ up \in [Nodes -> SUBSET Times] /\ disk \in [Nodes \X Disks -> SUBSET Times]
    /\ pc \in {"idle", "memory", "cpu", "free", "total", "network", "answered", "failed"}
    /\ Grid \subseteq Times /\ Points = Parts + 1 /\ DOMAIN free \subseteq DOMAIN disk
    /\ \A n \in Nodes :
        /\ n \notin nodes => answer[n] = None
        /\ \A field \in {"cpu", "mem", "disc", "net"} : Len(answer[n][field]) \in {0, Points}

\* A gauge of a node shows, at each point, that node's own sample of the point's
\* timestamp; only at the end of the period may a sample that arrived since be missing.
GaugesShowTheirSamples ==
    \A n \in nodes, field \in {"cpu", "mem"} : LET usage == answer[n][field] IN
        usage # <<>> => \A k \in 1..Points :
            LET t == Timestamp(k) IN
            \/ t \in up[n] /\ usage[k] = Gauge[<<n, t>>]
            \/ (t \notin up[n] \/ t = Now) /\ usage[k] = 0

\* Free space is asked for before the total, so a scrape in between makes a disk look
\* fuller and never gives more free space than there is: the usage is a share, and
\* before the end of the period it is exactly that of the disks sampled at the time.
DiscUsageIsAShare ==
    \A n \in nodes : answer[n].disc # <<>> => \A k \in 1..Points :
        LET point == answer[n].disc[k]
            t == Timestamp(k)
            sampled == {d \in Disks : t \in disk[<<n, d>>]}
        IN  /\ 0 <= point[1] /\ point[1] <= point[2]
            /\ t # Now /\ sampled # {} =>
                   point = <<Total(sampled, LAMBDA d : Size[d] - Free[<<d, t>>]),
                             Total(sampled, LAMBDA d : Size[d])>>

\* A request fails only when a query did, or when a disk of one of its nodes came up
\* between the two disk queries.
FailsOnlyWhenDiskAppears == pc = "failed" => lost \/ appeared
================================================================================
