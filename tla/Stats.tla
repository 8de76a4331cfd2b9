------------------------------- MODULE Stats -------------------------------
(***************************************************************************)
(* The numbers the dashboard page derives from the request history and the *)
(* asking prices (frontend/src/stats.ts), as operators.                    *)
(*                                                                         *)
(* Time is counted in ticks.  Days and months follow the browser's local   *)
(* calendar, so a day is whatever lies between two midnights (a change to  *)
(* or from summer time makes it shorter or longer): the calendar is a      *)
(* constant.  Money is counted in millionths of the unit of a rate, which  *)
(* drops the division by 1e6 and its rounding.  An absent number of the    *)
(* history is 0, as `|| 0` makes it.  A price field is the number it       *)
(* denotes, Blank, or Garbage.                                             *)
(***************************************************************************)
EXTENDS Integers, Sequences, FiniteSets, SequencesExt, Lists

CONSTANTS
    Quarter,     \* ticks in 15 minutes
    Hour,        \* ticks in an hour
    Midnights,   \* the ticks at which consecutive days begin
    MonthFirst,  \* the days (indices of Midnights) on which this year's months begin
    NoModel      \* the model of an event that names none

ASSUME CalendarAssumption ==
    /\ Quarter \in Nat \ {0} /\ Hour \in Nat \ {0}
    /\ Midnights \in Seq(Nat)
    /\ \A d, e \in DOMAIN Midnights : d < e => Midnights[d] < Midnights[e]
    /\ MonthFirst \in Seq(DOMAIN Midnights)
    /\ \A m, n \in DOMAIN MonthFirst : m < n => MonthFirst[m] < MonthFirst[n]

Blank == -1      \* nothing, or spaces, in a price field
Garbage == -2    \* text that is no number, or a negative one
Null == -1

Smaller(a, b) == IF a < b THEN a ELSE b
Larger(a, b) == IF a > b THEN a ELSE b
MaxOf(values) == Max({0} \cup values)
---------------------------------------------------------------------------
(* Dates. *)

DayOf(t) ==
    CHOOSE d \in DOMAIN Midnights :
        Midnights[d] <= t /\ (d = Len(Midnights) \/ t < Midnights[d + 1])

startOfDay(t, daysAgo) == Midnights[DayOf(t) - daysAgo]

LastDays(now, n) == SubSeq(Midnights, DayOf(now) - n + 1, DayOf(now))

\* The months of this year that have begun, now.getMonth() + 1 of them.
MonthsBegun(now) == {m \in DOMAIN MonthFirst : Midnights[MonthFirst[m]] <= now}

startOfMonth(m) == Midnights[MonthFirst[m]]

Ranges == {"15m", "24h", "7d", "30d", "ytd"}

\* The first instant of each bucket of a chart.
bucketsFor(range, now) ==
    CASE range = "15m" -> [i \in 1 .. 8 |-> now - (now % Quarter) - (8 - i) * Quarter]
      [] range = "24h" -> [i \in 1 .. 24 |-> now - (now % Hour) - (24 - i) * Hour]
      [] range = "7d"  -> LastDays(now, 7)
      [] range = "30d" -> LastDays(now, 30)
      [] range = "ytd" -> [i \in 1 .. Cardinality(MonthsBegun(now)) |-> startOfMonth(i)]

bucketUnit(range) ==
    CASE range = "15m" -> "15m"
      [] range = "24h" -> "hour"
      [] range = "ytd" -> "month"
      [] OTHER -> "day"

\* The instants written under the chart; a year of one or two months has no middle.
axisLabels(range, buckets) ==
    [start |-> buckets[1],
     mid   |-> IF range = "ytd" /\ Len(buckets) <= 2 THEN Null
               ELSE buckets[(Len(buckets) \div 2) + 1]]
---------------------------------------------------------------------------
(* One event. *)

requestEvents(events) == Where(events, {e \in Range(events) : e.kind = "request"})

completed(events) == Where(events, {e \in Range(events) : e.status = "completed"})

parsePrice(text) == IF text >= 0 THEN text ELSE Null

isPriced(prices, model) ==
    /\ model \in DOMAIN prices
    /\ parsePrice(prices[model].input) # Null
    /\ parsePrice(prices[model].output) # Null

revenueOf(e, prices) ==
    IF e.model = NoModel \/ ~e.usageReported \/ ~isPriced(prices, e.model) THEN 0
    ELSE e.input * Larger(parsePrice(prices[e.model].input), 0)
         + e.output * Larger(parsePrice(prices[e.model].output), 0)

tokensOf(e) ==
    CASE ~e.usageReported -> 0
      [] e.totalReported -> e.total
      [] OTHER -> e.input + e.output

InputOf(e) == IF e.usageReported THEN e.input ELSE 0
OutputOf(e) == IF e.usageReported THEN e.output ELSE 0

HasThroughput(e) == e.status = "completed" /\ e.output # 0 /\ e.duration # 0

\* Durations are in milliseconds, throughput is in tokens per second.
throughputOf(e) == IF HasThroughput(e) THEN (1000 * e.output) \div e.duration ELSE Null

\* One number per event, and what the numbers of all events add up to.
Revenues(events, prices) == [i \in DOMAIN events |-> revenueOf(events[i], prices)]
Tokens(events) == [i \in DOMAIN events |-> tokensOf(events[i])]
Inputs(events) == [i \in DOMAIN events |-> InputOf(events[i])]
Outputs(events) == [i \in DOMAIN events |-> OutputOf(events[i])]

sumRevenue(events, prices) == Total(Revenues(events, prices))

\* The numbers of those events that have one.
durationsOf(events) ==
    LET done == completed(events)
    IN  Where([i \in DOMAIN done |-> done[i].duration], Nat \ {0})

throughputsOf(events) ==
    Where([i \in DOMAIN events |-> throughputOf(events[i])], Int \ {Null})

Forever == -1

\* Mutant: the end of the window belongs to it.
eventsSinceClosed(events, since, until) ==
    Where(events, {e \in Range(events) : e.time >= since /\ (until = Forever \/ e.time <= until)})

eventsSince(events, since, until) ==
    Where(events, {e \in Range(events) : e.time >= since /\ (until = Forever \/ e.time < until)})
---------------------------------------------------------------------------
(* Many events. *)

percentChange(current, previous) ==
    IF previous <= 0 THEN [is |-> "none"]
    ELSE [is |-> "percent", value |-> (100 * (current - previous)) \div previous]

Ceiling(a, b) == -((-a) \div b)

\* Mutant: the rank is not turned into an index from zero.
percentileNextRank(values, p) ==
    LET sorted == Ascending(values)
        index == Smaller(Len(sorted) - 1, Larger(0, Ceiling(p * Len(sorted), 100)))
    IN  IF values = <<>> THEN Null ELSE sorted[index + 1]

\* The source indexes from zero.
percentile(values, p) ==
    LET sorted == Ascending(values)
        index == Smaller(Len(sorted) - 1, Larger(0, Ceiling(p * Len(sorted), 100) - 1))
    IN  IF values = <<>> THEN Null ELSE sorted[index + 1]

\* Mutant: the last bucket takes nothing.
bucketIndexClosed(buckets, t) ==
    LET hits == {i \in 1 .. Len(buckets) - 1 : t >= buckets[i] /\ t < buckets[i + 1]}
    IN  IF hits = {} THEN 0 ELSE Min(hits)

\* The bucket of an instant, 0 if it is older than all of them.
bucketIndex(buckets, t) ==
    LET hits == {i \in DOMAIN buckets :
                    t >= buckets[i] /\ (i = Len(buckets) \/ t < buckets[i + 1])}
    IN  IF hits = {} THEN 0 ELSE Min(hits)

\* Throughput of a bucket is all its output over all its time, not a mean of rates.
series(events, prices, range, now) ==
    LET buckets == bucketsFor(range, now)
        index == [i \in DOMAIN events |-> bucketIndex(buckets, events[i].time)]
        Timed(of) == [i \in DOMAIN events |-> IF HasThroughput(events[i]) THEN of[i] ELSE 0]
        SumsOf(numbers) == Shared(numbers, index, Len(buckets))
        revenue == SumsOf(Revenues(events, prices))
        tokens == SumsOf(Tokens(events))
        inputTokens == SumsOf(Inputs(events))
        outputTokens == SumsOf(Outputs(events))
        output == SumsOf(Timed([i \in DOMAIN events |-> events[i].output]))
        time == SumsOf(Timed([i \in DOMAIN events |-> events[i].duration]))
    IN  [revenue |-> revenue, tokens |-> tokens,
         inputTokens |-> inputTokens, outputTokens |-> outputTokens,
         throughput |-> [k \in DOMAIN buckets |->
                            IF time[k] > 0 THEN (1000 * output[k]) \div time[k] ELSE 0],
         bucket |-> bucketUnit(range), labels |-> axisLabels(range, buckets),
         hasData |-> \E k \in DOMAIN buckets :
                        \/ revenue[k] > 0 \/ output[k] > 0 \/ tokens[k] > 0
                        \/ inputTokens[k] > 0 \/ outputTokens[k] > 0]

\* The tokens of each of the last days; events of no such day are left out.
tokensPerDay(events, days, now) ==
    LET dates == LastDays(now, days)
        Found(date) == LET hits == {k \in 1 .. days : dates[k] = date}
                       IN  IF hits = {} THEN 0 ELSE Min(hits)
        index == [i \in DOMAIN events |-> Found(startOfDay(events[i].time, 0))]
    IN  [date |-> dates,
         input |-> Shared(Inputs(events), index, days),
         output |-> Shared(Outputs(events), index, days)]

\* The models in the order in which they first appear.
ModelsOf(events) ==
    LET first == {i \in DOMAIN events :
                    /\ events[i].model # NoModel
                    /\ \A j \in 1 .. i - 1 : events[j].model # events[i].model}
        at == Where([i \in DOMAIN events |-> i], first)
    IN  [k \in DOMAIN at |-> events[at[k]].model]

listOf(events, model) == Where(events, {e \in Range(events) : e.model = model})

\* One row per model.
perModel(events, prices) ==
    LET models == ModelsOf(events)
        Row(list) ==
            [requests |-> Len(list),
             failed |-> Len(Where(list, {e \in Range(list) : e.status # "completed"})),
             tokens |-> Total(Tokens(list)),
             inputTokens |-> Total(Inputs(list)),
             outputTokens |-> Total(Outputs(list)),
             revenue |-> sumRevenue(list, prices),
             throughputP50 |-> percentile(throughputsOf(list), 50),
             durationP50 |-> percentile(durationsOf(list), 50),
             durationP95 |-> percentile(durationsOf(list), 95)]
    IN  [k \in DOMAIN models |-> Row(listOf(events, models[k]))]
---------------------------------------------------------------------------
(* Drawing. *)

\* The points of a line through the values, in a box whose y axis points down.
linePath(values, max, width, top, bottom) ==
    LET points == IF Len(values) = 1 THEN <<values[1], values[1]>> ELSE values
        scale == IF max > 0 THEN max ELSE 1
    IN  [i \in DOMAIN points |->
            [x |-> ((i - 1) * width) \div (Len(points) - 1),
             y |-> bottom - (points[i] * (bottom - top)) \div scale]]
=============================================================================
