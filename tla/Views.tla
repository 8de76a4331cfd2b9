------------------------------- MODULE Views -------------------------------
(***************************************************************************)
(* What the dashboard page shows and keeps by itself: the figures, charts  *)
(* and tables its views derive from the data of the last refresh, and the  *)
(* preferences it keeps in the browser's storage (order of the menu, menu  *)
(* folded or not, weekly schedule).                                        *)
(*                                                                         *)
(* Every step is one event of the page: a refresh that brought new data,   *)
(* something the user did, or a reload.  The clock may have advanced       *)
(* between two events and is read when a view is drawn.  (A view that is   *)
(* drawn again although none of this happened, as for an error message,    *)
(* keeps its chart, which is then at most one refresh old.)                *)
(***************************************************************************)
EXTENDS Stats

CONSTANTS
    Tabs,        \* the menu in its default order
    Backends,    \* the runtimes of the configuration
    Names,       \* names of models; a model is <<runtime, name>>
    Templates,   \* the events the history may record, without their time
    Instants,    \* the instants at which something happens
    PriceLists,  \* the asking prices the server may hold
    Listings,    \* what the server may report of runtimes, offers and live output
    Cells,       \* the hours of the week the user clicks
    Storages,    \* what the browser's storage may hold at first
    MaxEvents,   \* bound on the history
    MaxSteps     \* bound on the events of the page

Models == Backends \X Names
TabSet == {Tabs[i] : i \in DOMAIN Tabs}
Days == 1 .. 7
Hours == 0 .. 23

ASSUME PageAssumption ==
    /\ {"Overview", "Finance", "Runtimes", "Models", "Usage", "Schedule", "Settings"} \subseteq TabSet
    /\ Tabs \in Seq(STRING)
    /\ \A i, j \in DOMAIN Tabs : Tabs[i] = Tabs[j] => i = j
    /\ MaxEvents \in Nat /\ MaxSteps \in Nat /\ NoModel \notin Models
    /\ Cells \subseteq Days \X Hours

\* A storage holds a list of names, or none, for the menu, and whatever for the
\* schedule; the page reads "collapsed" or anything else.
ASSUME StorageAssumption ==
    \A s \in Storages :
        /\ DOMAIN s = {"works", "order", "folded", "grid"}
        /\ s = [field \in DOMAIN s |-> s[field]]
        /\ s.order \in Seq(STRING) /\ s.folded \in BOOLEAN

\* The calendar reaches back to every instant, over 30 days, and to the beginning
\* of a year.
ASSUME InstantsAssumption ==
    /\ Instants \subseteq Nat
    /\ Len(Midnights) >= 30 /\ MonthFirst # <<>>
    /\ \A t \in Instants : Midnights[1] <= t

\* The instants from which it reaches back as far as the page looks.  What was
\* recorded may be older.
Reached == {t \in Instants : Midnights[30] <= t /\ Midnights[MonthFirst[1]] <= t}

\* No count is negative (usage.go:97), and none is absent once it is read.
ASSUME HistoryAssumption ==
    \A e \in Templates :
        /\ DOMAIN e = {"kind", "time", "model", "status", "duration", "input", "output", "total",
                       "usageReported", "totalReported"}
        /\ e.duration \in Nat /\ e.input \in Nat /\ e.output \in Nat /\ e.total \in Nat
        /\ e.usageReported \in BOOLEAN /\ e.totalReported \in BOOLEAN

ASSUME PricesAssumption ==
    \A prices \in PriceLists : \A m \in DOMAIN prices :
        prices[m].input \in Int /\ prices[m].output \in Int

\* live is the estimate of the tokens being generated.
ASSUME ListingsAssumption ==
    Listings \subseteq [ready : SUBSET Backends, offers : SUBSET Models, live : Nat]

VARIABLES
    data,       \* what the last refresh brought
    now,        \* when the page was last drawn
    tab,        \* the view that is open
    range,      \* the range chosen in Overview or Usage
    order,      \* the menu
    expanded,   \* whether it is unfolded
    dragIndex,  \* the entry being dragged, 0 for none
    grid,       \* the schedule, while its view is open
    storage,    \* the browser's storage: works, and what is in it
    steps       \* events so far, up to MaxSteps

vars == <<data, now, tab, range, order, expanded, dragIndex, grid, storage, steps>>
menuVars == <<order, expanded, dragIndex>>
viewVars == <<tab, range, grid>>
---------------------------------------------------------------------------
(* Figures.  A refresh brings the history newest first, mixed with events  *)
(* that are not requests.                                                  *)

events == requestEvents(data.events)
Discovered == {m \in Models : m[1] \in data.ready}
todayEvents == eventsSince(events, startOfDay(now, 0), Forever)

\* The two uses of eventsSince that need the calendar's other boundaries.
yesterdayEvents == eventsSince(events, startOfDay(now, 1), startOfDay(now, 0))
monthEvents == eventsSince(events, startOfMonth(Cardinality(MonthsBegun(now))), Forever)

revenueToday == sumRevenue(todayEvents, data.prices)
revenueYesterday == sumRevenue(yesterdayEvents, data.prices)
revenueMonth == sumRevenue(monthEvents, data.prices)

Delta == percentChange(revenueToday, revenueYesterday)

chart(r) == series(events, data.prices, r, now)

\* Overview: the models on offer, among those discovered, that have no price.
unpriced == {m \in Discovered : m \in data.offers /\ ~isPriced(data.prices, m)}
unpricedEvents == Where(todayEvents, {e \in Range(todayEvents) : e.model \in unpriced})
unpricedTokens == Total(Tokens(unpricedEvents))

\* Finance: the same without regard to the offers, which only the label counts.
financeUnpriced == {m \in Discovered : ~isPriced(data.prices, m)}
unpricedOffered == financeUnpriced \cap data.offers
financeUnpricedEvents == Where(todayEvents, {e \in Range(todayEvents) : e.model \in financeUnpriced})
financeUnpricedTokens == Total(Tokens(financeUnpricedEvents))

\* Finance: the blended rate, over what was served at a price.
pricedEvents ==
    Where(todayEvents, {e \in Range(todayEvents) : e.model # NoModel /\ isPriced(data.prices, e.model)})
pricedTokens == Total(Tokens(pricedEvents))
blended == IF pricedTokens > 0 THEN revenueToday \div pricedTokens ELSE Null
revenueByModel(m) == sumRevenue(listOf(todayEvents, m), data.prices)

\* Performance: the completed requests, and the two percentiles of their durations.
done == completed(events)
durations == durationsOf(events)
throughputs == throughputsOf(events)
failed == Len(events) - Len(done)

\* Performance: a bar up to the median, a tick at the 95th percentile.
DurationBars ==
    LET rows == perModel(events, data.prices)
        timed == {k \in DOMAIN rows : rows[k].durationP50 # Null}
        max == MaxOf({rows[k].durationP95 : k \in timed})
        Bar(v) == Smaller(100, (100 * v) \div max)
    IN  [k \in timed |-> [bar |-> Bar(rows[k].durationP50), tick |-> Bar(rows[k].durationP95)]]

\* Runtimes: the requests of one runtime.
own(b) == Where(events, {e \in Range(events) : e.model # NoModel /\ e.model[1] = b})

\* The card under the list of runtimes, and the view its link opens.
Attention ==
    CASE data.backends # {} /\ data.ready = {} -> [is |-> "no runtime", link |-> "Runtimes"]
      [] unpriced # {} -> [is |-> "unpriced", link |-> "Finance"]
      [] data.backends # {} -> [is |-> "all clear", link |-> "Models"]
      [] OTHER -> [is |-> "nothing connected", link |-> "Settings"]

\* The bars of the token chart; what is being generated is stacked on the last.
liveOn(index, bars) == IF index = bars THEN data.live ELSE 0

\* Mutant: the height of a bar leaves out what is being generated.
barValueRecorded(c, i) == c.inputTokens[i] + c.outputTokens[i]

barValue(c, i) ==
    c.inputTokens[i] + c.outputTokens[i] + liveOn(i, Len(c.tokens))

TokenBars(c) ==
    LET max == MaxOf({barValue(c, i) : i \in DOMAIN c.inputTokens})
    IN  [i \in DOMAIN c.inputTokens |->
            [height |-> IF max = 0 THEN 0 ELSE (100 * barValue(c, i)) \div max,
             value |-> barValue(c, i),
             parts |-> <<c.inputTokens[i], c.outputTokens[i], liveOn(i, Len(c.tokens))>>]]

\* The lines leave a tenth of the height free: the values are counted in tenths.
Line(values) ==
    linePath([i \in DOMAIN values |-> 10 * values[i]], 11 * MaxOf(Range(values)), 720, 10, 210)
---------------------------------------------------------------------------
(* The browser's storage.  It may hold anything, or refuse to be used.     *)

NoGrid == [is |-> "none"]
Grid(cells) == [is |-> "grid", cells |-> cells]

alwaysOn == Days \X Hours
nightsAndWeekends == {c \in Days \X Hours : c[1] > 5 \/ c[2] < 8 \/ c[2] >= 19}

\* Mutant: only the number of entries is looked at.
loadNavOrderByLength(stored) ==
    IF Len(stored) = Len(Tabs) THEN stored ELSE Tabs

loadNavOrder(stored) ==
    IF /\ Len(stored) = Len(Tabs)
       /\ \A t \in TabSet : \E i \in DOMAIN stored : stored[i] = t
    THEN stored ELSE Tabs

loadSchedule(stored) == IF stored.is = "grid" THEN stored.cells ELSE nightsAndWeekends

\* A write to a storage that refuses it is dropped.
Write(field, value) ==
    storage' = IF storage.works THEN [storage EXCEPT ![field] = value] ELSE storage
---------------------------------------------------------------------------
NoPrices == [m \in {} |-> [input |-> Blank, output |-> Blank]]
emptyData == [events |-> <<>>, prices |-> NoPrices, backends |-> {}, ready |-> {},
              offers |-> {}, live |-> 0]

Init ==
    /\ data = emptyData
    /\ now \in Reached
    /\ tab = "Overview" /\ range = "24h"
    /\ storage \in Storages
    /\ order = loadNavOrder(storage.order)
    /\ expanded = ~storage.folded
    /\ dragIndex = 0
    /\ grid = {}
    /\ steps = 0

Event == steps < MaxSteps /\ steps' = steps + 1

\* An event after which the view is drawn anew, at some later instant.
Draw == Event /\ now' \in {t \in Reached : t >= now}

\* The history the server may hold: what the last refresh brought, and at most
\* one event more, for the figures do not remember what they were before.
Recorded(at) == {[e EXCEPT !.time = t] : e \in Templates, t \in {u \in Instants : u <= at}}

Histories(at) ==
    {data.events} \cup
    {<<e>> \o data.events :
        e \in {r \in Recorded(at) :
                  /\ Len(data.events) < MaxEvents
                  /\ (data.events = <<>> \/ data.events[1].time <= r.time)}}

\* refresh, main.tsx: the answers replace all the data, and the chart is computed anew.
Refresh ==
    /\ Draw
    /\ \E history \in Histories(now'), prices \in PriceLists, l \in Listings :
          data' = [events |-> history, prices |-> prices, backends |-> Backends,
                   ready |-> l.ready, offers |-> l.offers, live |-> l.live]
    /\ UNCHANGED <<menuVars, viewVars, storage>>

\* A view is mounted: its own state starts afresh.  The schedule is read from
\* storage and written back.
Open(t) ==
    /\ t # tab /\ tab' = t
    /\ range' = "24h"
    /\ IF t = "Schedule"
       THEN /\ grid' = loadSchedule(storage.grid)
            /\ Write("grid", Grid(loadSchedule(storage.grid)))
       ELSE grid' = {} /\ storage' = storage

SelectTab ==
    /\ Draw
    /\ \E i \in DOMAIN order : Open(order[i])
    /\ UNCHANGED <<data, menuVars>>

FollowAttention ==
    /\ Draw
    /\ tab = "Overview" /\ Open(Attention.link)
    /\ UNCHANGED <<data, menuVars>>

ChooseRange ==
    /\ Draw
    /\ tab \in {"Overview", "Usage"}
    /\ \E r \in Ranges \ {range} : range' = r
    /\ UNCHANGED <<data, menuVars, tab, grid, storage>>
---------------------------------------------------------------------------
(* Menu.  Only the menu is drawn anew. *)

DragStart ==
    /\ Event
    /\ dragIndex = 0 /\ dragIndex' \in DOMAIN order
    /\ UNCHANGED <<data, now, viewVars, order, expanded, storage>>

\* Mutant: the entry is put back before the old one is taken out.
MovedInFront(from, to) == RemoveAt(InsertAt(order, to, order[from]), from)

Moved(from, to) == InsertAt(RemoveAt(order, from), to, order[from])

\* reorder; nothing is being dragged when something else is dropped on the menu.
Drop ==
    /\ Event
    /\ dragIndex' = 0
    /\ \E to \in DOMAIN order :
          IF dragIndex \in {0, to} THEN order' = order /\ storage' = storage
          ELSE order' = Moved(dragIndex, to) /\ Write("order", Moved(dragIndex, to))
    /\ UNCHANGED <<data, now, viewVars, expanded>>

DragEnd ==
    /\ Event
    /\ dragIndex # 0 /\ dragIndex' = 0
    /\ UNCHANGED <<data, now, viewVars, order, expanded, storage>>

toggleSidebar ==
    /\ Event
    /\ expanded' = ~expanded /\ Write("folded", expanded)
    /\ UNCHANGED <<data, now, viewVars, order, dragIndex>>
---------------------------------------------------------------------------
(* Schedule. *)

\* Every change of the grid is written.
SetGrid(cells) ==
    /\ Event
    /\ tab = "Schedule"
    /\ grid' = cells /\ Write("grid", Grid(cells))
    /\ UNCHANGED <<data, now, menuVars, tab, range>>

toggle == \E c \in Cells : SetGrid(IF c \in grid THEN grid \ {c} ELSE grid \cup {c})

preset == \E make \in {alwaysOn, nightsAndWeekends} : SetGrid(make)

\* The page is loaded again: only the storage is left.
Reload ==
    /\ Draw
    /\ data' = emptyData
    /\ tab' = "Overview" /\ range' = "24h"
    /\ order' = loadNavOrder(storage.order)
    /\ expanded' = ~storage.folded
    /\ dragIndex' = 0 /\ grid' = {}
    /\ UNCHANGED storage

UserStep ==
    \/ SelectTab \/ FollowAttention \/ ChooseRange
    \/ DragStart \/ Drop \/ DragEnd \/ toggleSidebar
    \/ toggle \/ preset \/ Reload

Next == Refresh \/ UserStep

Spec == Init /\ [][Next]_vars
---------------------------------------------------------------------------
(* Properties. *)

TypeOK ==
    /\ now \in Instants /\ tab \in TabSet /\ range \in Ranges
    /\ order \in Seq(TabSet) /\ expanded \in BOOLEAN
    /\ dragIndex \in 0 .. Len(order)
    /\ grid \subseteq Days \X Hours
    /\ steps \in 0 .. MaxSteps
    /\ data.ready \subseteq data.backends /\ data.offers \subseteq Models

Charts == {chart(r) : r \in Ranges}

\* Performance and Runtimes (stats.ts:21): a percentile is the nearest rank, the
\* least of the recorded values that p percent of them do not exceed.
IsNearestRank(v, values, p) ==
    LET atMost(x) == 100 * Cardinality({i \in DOMAIN values : values[i] <= x})
    IN  /\ \E i \in DOMAIN values : values[i] = v
        /\ atMost(v) >= p * Len(values)
        /\ \A i \in DOMAIN values : values[i] < v => atMost(values[i]) < p * Len(values)

\* Performance and Runtimes show "-" exactly when nothing was measured, and
\* nearest ranks otherwise, over all requests, per runtime and per model.
NearestRank ==
    \A values \in {durations, throughputs} \cup
                    {durationsOf(own(b)) : b \in Backends} \cup
                    {durationsOf(listOf(events, m)) : m \in Range(ModelsOf(events))} :
        \A p \in {50, 95} :
            IF values = <<>> THEN percentile(values, p) = Null
            ELSE IsNearestRank(percentile(values, p), values, p)

\* Overview and Usage: the buckets of a chart share out the recorded requests.
\* What all bars show is what the requests since the first bucket add up to:
\* none is counted twice, none falls between two buckets.
BucketsPartition ==
    \A r \in Ranges :
        LET c == chart(r)
            since == eventsSince(events, bucketsFor(r, now)[1], Forever)
        IN  /\ Total(c.revenue) = sumRevenue(since, data.prices)
            /\ Total(c.tokens) = Total(Tokens(since))
            /\ Total(c.inputTokens) = Total(Inputs(since))
            /\ Total(c.outputTokens) = Total(Outputs(since))

\* Overview and Finance compute the revenue of today, of yesterday and of the
\* month one way, the charts another: the figures agree, also at midnight, on
\* the first of a month and on a day of 23 hours.
TotalsAgree ==
    LET week == chart("7d")
        year == chart("ytd")
    IN  /\ revenueToday = week.revenue[7]
        /\ revenueYesterday = week.revenue[6]
        /\ revenueMonth = year.revenue[Len(year.revenue)]
        /\ Delta.is = "none" <=> week.revenue[6] = 0
        /\ Delta.is = "percent" => (Delta.value < 0 <=> week.revenue[7] < week.revenue[6])
        /\ tokensPerDay(events, 7, now).input = week.inputTokens
        /\ tokensPerDay(events, 7, now).output = week.outputTokens

\* Usage and Performance: the rows per model add up to the whole history, but
\* for the events that name no model; a request is in one row, failed or not.
TableAdds ==
    LET named == Where(events, {e \in Range(events) : e.model # NoModel})
        unnamedFailed == Where(events, {e \in Range(events) : e.model = NoModel /\ e.status # "completed"})
        rows == perModel(events, data.prices)
    IN  /\ Total([k \in DOMAIN rows |-> rows[k].requests]) = Len(named)
        /\ Total([k \in DOMAIN rows |-> rows[k].failed]) + Len(unnamedFailed) = failed
        /\ Total([k \in DOMAIN rows |-> rows[k].tokens]) = Total(Tokens(named))
        /\ Total([k \in DOMAIN rows |-> rows[k].revenue]) = sumRevenue(named, data.prices)
        /\ \A k \in DOMAIN rows : rows[k].durationP50 <= rows[k].durationP95

\* Finance.tsx:22-25 and :70: today's volume is shared out between what was
\* served at a price, what was served on a discovered model without one, and
\* what names no model, or one that is neither.  The first part earned all of
\* today's revenue, and is what the blended rate divides it by.
VolumeSharedOut ==
    LET elsewhere == Where(todayEvents, {e \in Range(todayEvents) :
                        \/ e.model = NoModel
                        \/ e.model \notin Discovered /\ ~isPriced(data.prices, e.model)})
    IN  /\ pricedTokens + financeUnpricedTokens + Total(Tokens(elsewhere))
               = Total(Tokens(todayEvents))
        /\ sumRevenue(pricedEvents, data.prices) = revenueToday

\* Overview.tsx:99: the models on offer without a price "earned nothing", and
\* what Overview says they served is within what Finance calls the unpriced
\* volume; the two are one number unless a model served and was then withdrawn.
UnpricedEarnsNothing ==
    /\ sumRevenue(unpricedEvents, data.prices) = 0
    /\ \A m \in financeUnpriced : revenueByModel(m) = 0
    /\ unpricedTokens <= financeUnpricedTokens
    /\ (\A e \in Range(financeUnpricedEvents) : e.model \in unpricedOffered)
          => unpricedTokens = financeUnpricedTokens

\* The figures that are computed one way beside a chart, another in it, a third
\* in a table, are of one history and agree.
FiguresAgree == TotalsAgree /\ TableAdds /\ VolumeSharedOut /\ UnpricedEarnsNothing

\* Overview and Usage: whatever the history and however few the buckets, a line
\* spans the box from edge to edge and stays in it, the parts of a bar make up
\* the bar, no bar is higher than the chart, and the placeholder hides none.
\* The tick of a duration is never left of the end of its bar.
ChartDrawable ==
    /\ \A bars \in {DurationBars} : \A k \in DOMAIN bars : bars[k].bar <= bars[k].tick
    /\ \A c \in Charts :
        /\ \A line \in {Line(c.revenue), Line(c.throughput)} :
              /\ line[1].x = 0 /\ line[Len(line)].x = 720
              /\ \A i \in DOMAIN line : line[i].y \in 10 .. 210
        /\ ~c.hasData => \A i \in DOMAIN c.tokens : c.inputTokens[i] + c.outputTokens[i] = 0
        /\ \A bars \in {TokenBars(c)} : \A i \in DOMAIN bars :
              /\ bars[i].height \in 0 .. 100
              /\ bars[i].parts[1] + bars[i].parts[2] + bars[i].parts[3] = bars[i].value

\* main.tsx:116: whatever the storage held, the menu lists every view once.
MenuComplete ==
    /\ Len(order) = Len(Tabs)
    /\ \A t \in TabSet : \E i \in DOMAIN order : order[i] = t

\* main.tsx:136 and Schedule.tsx:17: a page loaded again would show the menu and
\* the schedule as they are now, if the browser lets it keep them.
PreferencesKept ==
    /\ MenuComplete
    /\ storage.works =>
          /\ loadNavOrder(storage.order) = order
          /\ storage.folded = ~expanded
          /\ tab = "Schedule" => loadSchedule(storage.grid) = grid
=============================================================================
